-------------------------- MODULE MCInPlaceUpgrade --------------------------
(* An instance of InPlaceUpgrade: two control planes that exclude draining, *)
(* and a worker that is drained.                                            *)
EXTENDS InPlaceUpgrade

CONSTANTS c1, c2, w1

MCControlPlanes == {c1, c2}
MCWorkers == {w1}
MCNone == {}
=============================================================================
