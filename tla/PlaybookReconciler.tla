------------------------- MODULE PlaybookReconciler -------------------------
(***************************************************************************)
(* PlaybookReconciler (feature/pkg/controllers/core/playbook_controller.go) *)
(* and the executor it starts: the controller moves a Playbook to Running, *)
(* creates one Pod that runs `kk playbook', takes the outcome from the Pod *)
(* or from the executor, which patches the same status itself, and keeps a *)
(* finalizer on the Playbook until no Pod is left.                         *)
(*                                                                         *)
(* The controller reads Playbook and Pods from its cache, which a member   *)
(* of lag lets fall behind the API server, and patches what it changed.    *)
(***************************************************************************)
EXTENDS Naturals, FiniteSets

CONSTANTS
    MaxPods,        \* bound: Pods created
    Lags,           \* the sets of caches that may be stale: "playbook", "pods"
    Deletable,      \* may a user delete the Playbook
    MaxFaults       \* bound: calls that fail, Pods that are killed

ASSUME BoundAssumption == MaxPods \in Nat \ {0} /\ MaxFaults \in Nat

VARIABLES
    lag,            \* the caches that may be stale, chosen once
    pb,             \* the Playbook
    pods,           \* the phase of each Pod, and how far its executor is
    succeeded,      \* Pods all of whose tasks succeeded
    pbView, podView,    \* the caches
    due,            \* the work queue holds the Playbook
    pc,             \* "idle", "normal", "delete", "status"
    base, copy,     \* the Playbook as read, and as changed by this pass
    faults          \* faults so far

vars == <<lag, pb, pods, succeeded, pbView, podView, due, pc, base, copy, faults>>

Pods == 1..MaxPods
Final == {"Failed", "Succeeded"}
Phases == <<"New", "Pending", "Running", "Failed", "Succeeded">>
Phase == {Phases[i] : i \in 1..5}
Playbook == [phase : Phase, fin : BOOLEAN, deleted : BOOLEAN, exists : BOOLEAN]
Live == {"Waiting", "Executing", "Good", "Bad"}     \* Pod phase Pending or Running

TypeOK ==
    /\ pb \in Playbook /\ pbView \in Playbook
    /\ base \in Playbook /\ copy \in Playbook
    /\ pods \in [Pods -> {"none", "gone"} \cup Live \cup Final]
    /\ podView \in [Pods -> {"none", "gone"} \cup Live \cup Final]
    /\ succeeded \subseteq Pods
    /\ due \in BOOLEAN
    /\ pc \in {"idle", "normal", "delete", "status"}
    /\ faults \in 0..MaxFaults

Init ==
    /\ lag \in Lags
    /\ pb = [phase |-> "New", fin |-> FALSE, deleted |-> FALSE, exists |-> TRUE]
    /\ pods = [i \in Pods |-> "none"] /\ succeeded = {}
    /\ pbView = pb /\ podView = pods
    /\ due = TRUE /\ pc = "idle" /\ base = pb /\ copy = pb /\ faults = 0

-----------------------------------------------------------------------------
(* The API server and the caches *)

(* A change reaches a cache at once, and its event the queue, unless the   *)
(* cache may lag.                                                          *)
SetPlaybook(p) ==
    /\ pb' = p
    /\ pbView' = IF "playbook" \in lag THEN pbView ELSE p

SetPods(f) ==
    /\ pods' = f
    /\ podView' = IF "pods" \in lag THEN podView ELSE f

(* The Pod watch maps a Pod to its owner, the Playbook in the cache. *)
Enqueue(again) == due' = (again \/ pbView' # pbView \/ (podView' # podView /\ pbView'.exists))

Fault == faults < MaxFaults /\ faults' = faults + 1

(* A Playbook marked as deleted goes with its last finalizer. *)
Kept(p) == [p EXCEPT !.exists = @ /\ (p.fin \/ ~p.deleted)]

Listed == {i \in Pods : podView[i] \notin {"none", "gone"}}

-----------------------------------------------------------------------------
(* Reconcile *)

Begin ==
    /\ pc = "idle" /\ due
    /\ due' = FALSE
    /\ base' = pbView
    /\ copy' = [pbView EXCEPT !.fin = @ \/ ~pbView.deleted]
    /\ pc' = IF ~pbView.exists THEN "idle"
             ELSE IF copy'.fin # pbView.fin THEN "status"
             ELSE IF pbView.deleted THEN "delete" ELSE "normal"
    /\ UNCHANGED <<pb, pods, succeeded, pbView, podView, faults>>

(* reconcileNormal of a Playbook that is not Running *)
Normal ==
    /\ pc = "normal" /\ copy.phase # "Running"
    /\ pc' = "status"
    /\ copy' = [copy EXCEPT !.phase =
                   CASE @ = "New" -> "Pending" [] @ = "Pending" -> "Running" [] OTHER -> @]
    /\ UNCHANGED <<pb, pods, succeeded, pbView, podView, due, base, faults>>

(* Mutant: the Pod that exists is not looked for. *)
NeedsPod_always == TRUE

NeedsPod == Listed = {}

CreatePod ==
    \E i \in Pods :
        /\ pods[i] = "none" /\ \A j \in 1..i - 1 : pods[j] # "none"
        /\ SetPods([pods EXCEPT ![i] = IF pb.exists THEN "Waiting" ELSE "gone"])

(* dealRunningPlaybook; a failed Create is the pass's error, which it also *)
(* is when only the reply is lost.                                         *)
DealRunningPlaybook ==
    /\ pc = "normal" /\ copy.phase = "Running"
    /\ pc' = "status"
    /\ \/ ~NeedsPod /\ UNCHANGED <<pods, podView, due, faults>>
       \/ /\ NeedsPod
          /\ CreatePod /\ UNCHANGED <<pbView, faults>> /\ Enqueue(due)
       \/ /\ NeedsPod /\ Fault
          /\ CreatePod \/ UNCHANGED <<pods, podView>>
          /\ due' = TRUE
    /\ UNCHANGED <<pb, succeeded, pbView, base, copy>>

(* Mutant: only a finished Playbook is released. *)
MayRelease_finished == copy.phase \in Final /\ Listed = {}

MayRelease == Listed = {}

(* reconcileDelete: the Pods of a finished Playbook are deleted, one that  *)
(* is already gone being an error; without Pods the finalizer is removed.  *)
ReconcileDelete ==
    /\ pc = "delete"
    /\ pc' = "status"
    /\ copy' = [copy EXCEPT !.fin = ~MayRelease]
    /\ IF copy.phase \in Final
         THEN /\ SetPods([i \in Pods |-> IF i \in Listed THEN "gone" ELSE pods[i]])
              /\ UNCHANGED pbView
              /\ Enqueue(due \/ \E i \in Listed : pods[i] = "gone")
         ELSE UNCHANGED <<pods, podView, due>>
    /\ UNCHANGED <<pb, succeeded, pbView, base, faults>>

(* Mutant: a Pod that is still executing counts as one that succeeded. *)
Outcome_running(phase) ==
    IF Cardinality(Listed) = 1 /\ phase \notin Final
      THEN IF \E i \in Listed : podView[i] = "Failed" THEN "Failed" ELSE "Succeeded"
      ELSE phase

(* Mutant: a Pod that has failed is passed over. *)
Outcome_successOnly(phase) ==
    IF Cardinality(Listed) = 1 /\ phase \notin Final /\ \E i \in Listed : podView[i] = "Succeeded"
      THEN "Succeeded" ELSE phase

(* reconcileStatus: the phase of the only Pod, once it has ended. *)
Outcome(phase) ==
    IF phase \in Final \/ Cardinality(Listed) # 1 THEN phase
    ELSE IF \E i \in Listed : podView[i] = "Failed" THEN "Failed"
    ELSE IF \E i \in Listed : podView[i] = "Succeeded" THEN "Succeeded"
    ELSE phase

(* Mutant: the whole status is written, changed by this pass or not. *)
Patched_whole(p, phase) == [p EXCEPT !.phase = phase, !.fin = copy.fin]

(* The patch holds the fields that this pass has changed. *)
Patched(p, phase) ==
    [p EXCEPT !.phase = IF phase # base.phase THEN phase ELSE @,
              !.fin = IF copy.fin # base.fin THEN copy.fin ELSE @]

(* The deferred part of Reconcile.  A patch of a Playbook that is gone is  *)
(* an error, and so is a finalizer for one that is being deleted; the pass *)
(* is tried again.                                                         *)
Status ==
    /\ pc = "status"
    /\ pc' = "idle" /\ UNCHANGED podView
    /\ LET new == Patched(pb, Outcome(copy.phase))
           refused == ~pb.exists \/ (new.fin /\ ~pb.fin /\ pb.deleted) IN
       \/ ~refused /\ SetPlaybook(Kept(new)) /\ Enqueue(due) /\ UNCHANGED faults
       \/ refused /\ due' = TRUE /\ UNCHANGED <<pb, pbView, faults>>
       \/ Fault /\ due' = TRUE /\ UNCHANGED <<pb, pbView>>
    /\ UNCHANGED <<pods, succeeded, base, copy>>

-----------------------------------------------------------------------------
(* The Pod: kk playbook reads the Playbook from the API server *)

PodStarts(i) ==
    /\ pods[i] = "Waiting"
    /\ SetPods([pods EXCEPT ![i] = IF ~pb.exists THEN "Failed"
                                   ELSE IF pb.phase # "Running" THEN "Succeeded"
                                   ELSE "Executing"])
    /\ UNCHANGED <<pb, succeeded, pbView, pc, base, copy, faults>>
    /\ Enqueue(due)

(* playbookExecutor.Exec ends; syncStatus patches the phase, and only logs *)
(* that the patch failed.                                                  *)
SyncStatus(i) ==
    /\ pods[i] = "Executing"
    /\ \E ok \in BOOLEAN :
       /\ SetPods([pods EXCEPT ![i] = IF ok THEN "Good" ELSE "Bad"])
       /\ succeeded' = IF ok THEN succeeded \cup {i} ELSE succeeded
       /\ \/ pb.exists /\ SetPlaybook([pb EXCEPT !.phase = IF ok THEN "Succeeded" ELSE "Failed"]) /\ UNCHANGED faults
          \/ ~pb.exists /\ UNCHANGED <<pb, pbView, faults>>
          \/ Fault /\ UNCHANGED <<pb, pbView>>
    /\ UNCHANGED <<pc, base, copy>>
    /\ Enqueue(due)

(* The process's exit status becomes the Pod's phase. *)
PodEnds(i) ==
    /\ pods[i] \in {"Good", "Bad"}
    /\ SetPods([pods EXCEPT ![i] = IF @ = "Good" THEN "Succeeded" ELSE "Failed"])
    /\ UNCHANGED <<pb, succeeded, pbView, pc, base, copy, faults>>
    /\ Enqueue(due)

(* The Pod is evicted or its node lost. *)
PodKilled(i) ==
    /\ pods[i] \in Live /\ Fault
    /\ SetPods([pods EXCEPT ![i] = "Failed"])
    /\ UNCHANGED <<pb, succeeded, pbView, pc, base, copy>>
    /\ Enqueue(due)

(* The garbage collector deletes what a Playbook that is gone owned. *)
Collect(i) ==
    /\ ~pb.exists /\ pods[i] \in Live \cup Final
    /\ SetPods([pods EXCEPT ![i] = "gone"])
    /\ UNCHANGED <<pb, succeeded, pbView, pc, base, copy, faults>>
    /\ Enqueue(due)

UserDeletes ==
    /\ Deletable /\ pb.exists /\ ~pb.deleted
    /\ SetPlaybook(Kept([pb EXCEPT !.deleted = TRUE]))
    /\ UNCHANGED <<pods, succeeded, podView, pc, base, copy, faults>>
    /\ Enqueue(due)

(* An event that changes nothing the model has: an edit of the metadata,   *)
(* the informer's resync, a restart of the manager.                        *)
Resync ==
    /\ ~due /\ pbView.exists
    /\ due' = TRUE
    /\ UNCHANGED <<pb, pods, succeeded, pbView, podView, pc, base, copy, faults>>

SeePlaybook ==
    /\ pbView # pb
    /\ pbView' = pb /\ due' = TRUE
    /\ UNCHANGED <<pb, pods, succeeded, podView, pc, base, copy, faults>>

SeePods ==
    /\ podView # pods
    /\ podView' = pods /\ UNCHANGED pbView /\ Enqueue(due)
    /\ UNCHANGED <<pb, pods, succeeded, pc, base, copy, faults>>

-----------------------------------------------------------------------------
Reconcile == Begin \/ Normal \/ DealRunningPlaybook \/ ReconcileDelete \/ Status

Executor(i) == PodStarts(i) \/ SyncStatus(i) \/ PodEnds(i)

Next ==
    /\ \/ Reconcile \/ UserDeletes \/ Resync \/ SeePlaybook \/ SeePods
       \/ \E i \in Pods : Executor(i) \/ PodKilled(i) \/ Collect(i)
    /\ UNCHANGED lag

(* The controller takes what is queued, a Pod runs to its end, and the     *)
(* watches deliver.                                                        *)
Fairness ==
    /\ WF_vars(Reconcile /\ UNCHANGED lag)
    /\ WF_vars(SeePlaybook /\ UNCHANGED lag) /\ WF_vars(SeePods /\ UNCHANGED lag)
    /\ \A i \in Pods : WF_vars(Executor(i) /\ UNCHANGED lag)

Spec == Init /\ [][Next]_vars /\ Fairness

-----------------------------------------------------------------------------
(* Properties *)

(* While the Pod cache keeps up, "should only one pod for playbook" holds: *)
(* the controller creates one Pod for a Playbook, whatever fails, so its   *)
(* tasks are not run twice (dealRunningPlaybook).                          *)
OnePod ==
    "pods" \notin lag => \A i, j \in Pods : pods[i] # "none" /\ pods[j] # "none" => i = j

(* Likewise "PlaybookCompletedFinalizer will be removed after the Playbook *)
(* is completed": it is not removed while a Pod executes tasks.            *)
ReleasedAfterRun ==
    []["pods" \notin lag /\ pb.fin /\ ~pb'.fin => \A i \in Pods : pods[i] # "Executing"]_vars

(* The executor and the controller both write the phase, the controller    *)
(* from a copy that may be old: with one Pod a phase is never taken back,  *)
(* and a Playbook that has Failed is not reported Succeeded by the other   *)
(* writer (syncStatus, reconcileStatus).                                   *)
PhaseOnlyAdvances ==
    []["pods" \notin lag =>
         \A i, j \in 1..5 : pb.phase = Phases[i] /\ pb'.phase = Phases[j]
           => IF i <= 3 THEN i <= j ELSE j = i \/ pb'.phase = "Failed"]_vars

(* "All Tasks run success": a Playbook is Succeeded only if an executor    *)
(* has run all its tasks, however stale the caches and however many Pods;  *)
(* the Pod that exits with 0 because the Playbook was not Running never    *)
(* makes it so.                                                            *)
SucceededHasRun == pb.phase = "Succeeded" => succeeded # {}

(* A Playbook nobody deletes ends Failed or Succeeded, and is never left   *)
(* Running by an event the controller has already used up; this needs the  *)
(* Pod to be the only one, whose phase reconcileStatus takes.              *)
PlaybookCompletes == <>("pods" \in lag \/ pb.phase \in Final \/ pb.deleted)

(* A deleted Playbook is released in the end: after its Pod has finished   *)
(* and been deleted, or at once when there is none (reconcileDelete).      *)
DeletionCompletes == pb.deleted ~> "pods" \in lag \/ ~pb.exists
=============================================================================
