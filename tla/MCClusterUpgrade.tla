-------------------------- MODULE MCClusterUpgrade --------------------------
(* Two control planes and a worker; all caches lag, or none does.           *)
EXTENDS ClusterUpgrade

CONSTANTS c1, c2, w1

MCTwo == {c1, c2}
MCWorkers == {w1}
MCLags == {{}, Kinds}
=============================================================================
