--------------------------- MODULE MCK3sBootstrap ---------------------------
(* Two control planes that compete for the lock and a third machine, a      *)
(* control plane or a worker, whose reconcile may release it.               *)
EXTENDS K3sBootstrap

CONSTANTS m1, m2, m3

MCMachine == {m1, m2, m3}
MCOne == {m1}
MCNone == {}
MCTwoControlPlanes == {m1, m2}
=============================================================================
