-------------------------- MODULE MCK3sControlPlane --------------------------
(* An instance of K3sControlPlane in five settings.                          *)
EXTENDS K3sControlPlane

MCWorkers == {"w1"}

(* Upgrades and resizes, with a stale copy of the object. *)
Rollout ==
    [sizes |-> {1, 2}, maxSurge |-> 1, annotated |-> {2}, workers |-> {}, lag |-> {"kcp"},
     nodesFail |-> FALSE, deletable |-> FALSE, lostReplies |-> FALSE,
     maxEdits |-> 2, maxErrors |-> 1, maxCrashes |-> 0]

(* An upgrade without surge: a Machine is removed before its successor exists. *)
ScaleIn ==
    [Rollout EXCEPT !.sizes = {3}, !.maxSurge = 0, !.annotated = {}, !.maxEdits = 1,
                    !.maxErrors = 2]

(* Deletion at any time, with a worker, stale caches and lost replies. *)
Teardowns ==
    [Rollout EXCEPT !.sizes = {2}, !.annotated = {}, !.workers = MCWorkers,
                    !.lag = {"kcp", "machines"}, !.lostReplies = TRUE,
                    !.deletable = TRUE, !.maxEdits = 0]

(* An upgrade and a deletion while nodes fail and recover. *)
FailingNodes ==
    [Rollout EXCEPT !.sizes = {2}, !.annotated = {}, !.lag = {}, !.nodesFail = TRUE,
                    !.deletable = TRUE, !.maxEdits = 1, !.maxErrors = 0]

(* Restarts while the control plane is created and deleted. *)
Restarts ==
    [Rollout EXCEPT !.sizes = {1}, !.annotated = {}, !.deletable = TRUE, !.maxEdits = 1,
                    !.maxCrashes = 2]

MCSettings == {Rollout, ScaleIn, Teardowns, FailingNodes, Restarts}
=============================================================================
