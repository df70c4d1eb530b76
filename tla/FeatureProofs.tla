--------------------------- MODULE FeatureProofs ----------------------------
(***************************************************************************)
(* Proofs about the next generation of kk (feature/): PlaybookReconciler,  *)
(* for any number of Pods and of faults, and FileStorage, for any          *)
(* processes, clients, objects, calls and restarts.                        *)
(*                                                                         *)
(* One Pod and its finalizer: these promises rest on the Pod cache being   *)
(* current; that the copy of the Playbook is old does no harm.  Only a     *)
(* pass that has read a deleted Playbook deletes Pods or removes the       *)
(* finalizer (Released), and a pass that may create a Pod holds the        *)
(* finalizer and finds no Pod that is already gone (Creating).             *)
(*                                                                         *)
(* The outcome: whatever the caches return, the phases the controller has  *)
(* read follow the order of the Playbook's (Ordered), and a Pod that has   *)
(* run nothing is never the only one listed for an unfinished Playbook     *)
(* (Deleted, Unearned).                                                    *)
(*                                                                         *)
(* The storage: a process that has the runtime directory to itself misses  *)
(* no deletion.  The fileWatcher takes no other event between the Deleted  *)
(* it has sent and its os.Remove, so the object cannot come back into the  *)
(* view before (Handled).                                                  *)
(***************************************************************************)
EXTENDS PlaybookReconciler, FileStorage, FiniteSetTheorems, TLAPS

NoPods == \A i \in Pods : pods[i] \in {"none", "gone"}

(* What the controller's copies say of the Playbook and of its Pods *)
Released ==
    /\ pb.fin => pb.exists
    /\ pbView.deleted => pb.deleted
    /\ pbView.fin /\ ~pbView.deleted => pb.fin
    /\ \A i \in Pods : pods[i] # "none" => pb.fin \/ pbView.deleted
    /\ \A i \in Pods : pods[i] = "gone" => pbView.deleted

(* What a pass under way may rely on *)
Creating ==
    /\ pc = "normal" => pb.fin /\ copy.fin /\ \A i \in Pods : pods[i] # "gone"
    /\ pc = "delete" => pbView.deleted
    /\ pc = "status" /\ base.fin /\ ~copy.fin => NoPods /\ pbView.deleted

Inv == TypeOK /\ podView = pods /\ OnePod /\ Released /\ Creating

-----------------------------------------------------------------------------
(* The forms a new value of the Playbook has. *)
LEMMA PhaseForm ==
    ASSUME NEW p \in Playbook, NEW ph \in Phase
    PROVE  /\ [p EXCEPT !.phase = ph] \in Playbook
           /\ [p EXCEPT !.phase = ph].phase = ph
           /\ [p EXCEPT !.phase = ph].fin = p.fin
           /\ [p EXCEPT !.phase = ph].deleted = p.deleted
           /\ [p EXCEPT !.phase = ph].exists = p.exists
BY DEF Playbook

LEMMA FinForm ==
    ASSUME NEW p \in Playbook, NEW f \in BOOLEAN
    PROVE  /\ [p EXCEPT !.fin = f] \in Playbook
           /\ [p EXCEPT !.fin = f].fin = f
           /\ [p EXCEPT !.fin = f].deleted = p.deleted
           /\ [p EXCEPT !.fin = f].phase = p.phase
BY DEF Playbook

LEMMA DeletedForm ==
    ASSUME NEW p \in Playbook
    PROVE  /\ [p EXCEPT !.deleted = TRUE] \in Playbook
           /\ [p EXCEPT !.deleted = TRUE].deleted
           /\ [p EXCEPT !.deleted = TRUE].fin = p.fin
           /\ [p EXCEPT !.deleted = TRUE].exists = p.exists
           /\ [p EXCEPT !.deleted = TRUE].phase = p.phase
BY DEF Playbook

LEMMA EnqueueType == ASSUME NEW again, Enqueue(again) PROVE due' \in BOOLEAN
BY Zenon DEF Enqueue

LEMMA FaultType == ASSUME TypeOK, Fault PROVE faults' \in 0..MaxFaults
BY BoundAssumption DEF TypeOK, Fault

(* Kept leaves everything but existence, which a finalizer preserves. *)
LEMMA KeptForm ==
    ASSUME NEW p \in Playbook
    PROVE  /\ Kept(p) \in Playbook
           /\ Kept(p).fin = p.fin /\ Kept(p).deleted = p.deleted
           /\ Kept(p).phase = p.phase
           /\ Kept(p).exists => p.exists
           /\ p.fin => Kept(p).exists = p.exists
BY DEF Kept, Playbook

(* reconcileStatus leaves a phase. *)
LEMMA PhaseNames == /\ "New" \in Phase /\ "Pending" \in Phase /\ "Running" \in Phase
                    /\ Final \subseteq Phase
<1>1. /\ Phases[1] = "New" /\ Phases[2] = "Pending" /\ Phases[3] = "Running"
      /\ Phases[4] = "Failed" /\ Phases[5] = "Succeeded"
  BY DEF Phases
<1> QED BY <1>1 DEF Final, Phase

LEMMA OutcomeType == ASSUME NEW ph \in Phase PROVE Outcome(ph) \in Phase
BY PhaseNames DEF Outcome, Final

(* The patch of a pass changes the phase and the finalizer. *)
LEMMA PatchedForm ==
    ASSUME TypeOK, NEW out \in Phase
    PROVE  /\ Patched(pb, out) \in Playbook
           /\ Patched(pb, out).deleted = pb.deleted /\ Patched(pb, out).exists = pb.exists
           /\ Patched(pb, out).fin = (IF copy.fin # base.fin THEN copy.fin ELSE pb.fin)
           /\ Patched(pb, out).phase = (IF out # base.phase THEN out ELSE pb.phase)
<1>1. PICK p \in Playbook, h \in Phase, g \in BOOLEAN :
             /\ p = pb
             /\ h = (IF out # base.phase THEN out ELSE pb.phase)
             /\ g = (IF copy.fin # base.fin THEN copy.fin ELSE pb.fin)
  BY DEF TypeOK, Playbook
<1>2. PICK r : r = [p EXCEPT !.phase = h, !.fin = g] OBVIOUS
<1>3. /\ r \in Playbook /\ r.deleted = p.deleted /\ r.exists = p.exists
      /\ r.fin = g /\ r.phase = h
  BY <1>2 DEF Playbook
<1>4. Patched(pb, out) = r BY <1>1, <1>2 DEF Patched, Playbook
<1> QED BY <1>1, <1>3, <1>4

(* Type correctness is inductive by itself, whatever the caches return. *)
LEMMA TypeStep == ASSUME TypeOK, [Next]_vars PROVE TypeOK'
<1> USE DEF TypeOK
<1>1. due' \in BOOLEAN /\ faults' \in 0..MaxFaults
  <2>1. due' \in BOOLEAN
    BY EnqueueType
    DEF Next, Reconcile, Executor, vars, Begin, Normal, DealRunningPlaybook, ReconcileDelete, Status,
        PodStarts, SyncStatus, PodEnds, PodKilled, Collect, UserDeletes, Resync, SeePlaybook,
        SeePods
  <2>2. faults' \in 0..MaxFaults
    BY FaultType
    DEF Next, Reconcile, Executor, vars, Begin, Normal, DealRunningPlaybook, ReconcileDelete, Status,
        PodStarts, SyncStatus, PodEnds, PodKilled, Collect, UserDeletes, Resync, SeePlaybook,
        SeePods
  <2> QED BY <2>1, <2>2
<1>2. CASE UNCHANGED vars \/ Resync BY <1>1, <1>2 DEF vars, Resync
<1>3. CASE Begin
  <2>1. copy' \in Playbook BY <1>3, FinForm DEF Begin
  <2>2. pc' \in {"idle", "normal", "delete", "status"} BY <1>3 DEF Begin
  <2> QED BY <1>1, <1>3, <2>1, <2>2 DEF Begin
<1>4. CASE Normal
  <2>1. copy.phase \in Phase BY DEF Playbook
  <2>2. PICK ph \in Phase : copy' = [copy EXCEPT !.phase = ph]
    BY <1>4, <2>1, PhaseNames DEF Normal
  <2>3. copy' \in Playbook BY <2>2, PhaseForm
  <2> QED BY <1>1, <1>4, <2>3 DEF Normal
<1>5. CASE DealRunningPlaybook
  <2>1. CASE CreatePod
    <3>1. PICK i \in Pods, x \in {"Waiting", "gone"} : SetPods([pods EXCEPT ![i] = x])
      BY <2>1 DEF CreatePod
    <3>2. /\ pods' \in [Pods -> {"none", "gone"} \cup Live \cup Final]
          /\ podView' \in [Pods -> {"none", "gone"} \cup Live \cup Final]
      BY <3>1 DEF SetPods, Live
    <3> QED BY <1>1, <1>5, <3>2 DEF DealRunningPlaybook
  <2>2. CASE UNCHANGED <<pods, podView>> BY <1>1, <1>5, <2>2 DEF DealRunningPlaybook
  <2> QED BY <1>5, <2>1, <2>2 DEF DealRunningPlaybook
<1>6. CASE ReconcileDelete
  <2>1. copy' \in Playbook BY <1>6, FinForm DEF ReconcileDelete
  <2>2. /\ pods' \in [Pods -> {"none", "gone"} \cup Live \cup Final]
        /\ podView' \in [Pods -> {"none", "gone"} \cup Live \cup Final]
    <3>1. CASE UNCHANGED <<pods, podView>> BY <3>1
    <3>2. CASE SetPods([i \in Pods |-> IF i \in Listed THEN "gone" ELSE pods[i]])
      BY <3>2 DEF SetPods
    <3> QED BY <1>6, <3>1, <3>2 DEF ReconcileDelete
  <2> QED BY <1>1, <1>6, <2>1, <2>2 DEF ReconcileDelete
<1>7. CASE Status
  <2>1. copy.phase \in Phase BY DEF Playbook
  <2>2. Patched(pb, Outcome(copy.phase)) \in Playbook BY <2>1, OutcomeType, PatchedForm
  <2>3. Kept(Patched(pb, Outcome(copy.phase))) \in Playbook BY <2>2, KeptForm
  <2>4. pb' \in Playbook /\ pbView' \in Playbook BY <1>7, <2>3 DEF Status, SetPlaybook
  <2> QED BY <1>1, <1>7, <2>4 DEF Status
<1>8. ASSUME NEW i \in Pods, PodStarts(i) \/ PodEnds(i) \/ PodKilled(i) \/ Collect(i) PROVE TypeOK'
  <2>1. PICK x \in {"gone", "Executing"} \cup Final : SetPods([pods EXCEPT ![i] = x])
    BY <1>8 DEF PodStarts, PodEnds, PodKilled, Collect, Final
  <2>2. /\ pods' \in [Pods -> {"none", "gone"} \cup Live \cup Final]
        /\ podView' \in [Pods -> {"none", "gone"} \cup Live \cup Final]
    BY <2>1 DEF SetPods, Live
  <2> QED BY <1>1, <1>8, <2>2 DEF PodStarts, PodEnds, PodKilled, Collect
<1>9. ASSUME NEW i \in Pods, SyncStatus(i) PROVE TypeOK'
  <2>1. PICK x \in {"Good", "Bad"} : SetPods([pods EXCEPT ![i] = x]) BY <1>9 DEF SyncStatus
  <2>2. /\ pods' \in [Pods -> {"none", "gone"} \cup Live \cup Final]
        /\ podView' \in [Pods -> {"none", "gone"} \cup Live \cup Final]
    BY <2>1 DEF SetPods, Live
  <2>3. \/ UNCHANGED <<pb, pbView>>
        \/ \E ph \in Phase : SetPlaybook([pb EXCEPT !.phase = ph])
    BY <1>9, PhaseNames DEF SyncStatus, Final
  <2>4. pb' \in Playbook /\ pbView' \in Playbook BY <2>3, PhaseForm DEF SetPlaybook
  <2>5. succeeded' \subseteq Pods BY <1>9 DEF SyncStatus
  <2> QED BY <1>1, <1>9, <2>2, <2>4, <2>5 DEF SyncStatus
<1>10. CASE UserDeletes
  <2>1. pb' \in Playbook /\ pbView' \in Playbook
    BY <1>10, DeletedForm, KeptForm DEF UserDeletes, SetPlaybook
  <2> QED BY <1>1, <1>10, <2>1 DEF UserDeletes
<1>11. CASE SeePlaybook BY <1>1, <1>11 DEF SeePlaybook
<1>12. CASE SeePods BY <1>1, <1>12 DEF SeePods
<1> QED
  BY <1>2, <1>3, <1>4, <1>5, <1>6, <1>7, <1>8, <1>9, <1>10, <1>11, <1>12
  DEF Next, Reconcile, Executor

(* Every action on the Playbook but the one that removes the finalizer     *)
(* keeps what Released says of it.                                         *)
LEMMA ReleasedKept ==
    ASSUME Released, TypeOK, NEW p \in Playbook, SetPlaybook(p),
           pb.deleted => p.deleted,
           pb.fin /\ ~p.fin => pbView.deleted,
           p.fin => p.exists,
           UNCHANGED pods
    PROVE  Released' /\ (pbView.deleted => pbView'.deleted)
BY DEF Released, SetPlaybook, Playbook, TypeOK

(* A step of the executor or of the cluster on a Pod: no Pod is new, none  *)
(* is gone without a deleted Playbook, and of the Playbook only the phase  *)
(* changes. *)
LEMMA PodStep ==
    ASSUME Inv, TypeOK', "pods" \notin lag, NEW f, SetPods(f),
           \A i \in Pods : f[i] # "none" => pods[i] # "none",
           \A i \in Pods : pods[i] \in {"none", "gone"} => f[i] = pods[i],
           \A i \in Pods : f[i] = "gone" /\ pods[i] # "gone" => pbView.deleted /\ pc # "normal",
           pb'.fin = pb.fin, pb'.exists = pb.exists, pb'.deleted = pb.deleted,
           pbView' = pbView \/ pbView' = pb',
           UNCHANGED <<pc, base, copy>>
    PROVE  Inv'
<1> USE DEF Inv
<1>1. pods' = f /\ podView' = f BY DEF SetPods
<1>2. OnePod' BY <1>1 DEF OnePod
<1>3. pbView.deleted => pbView'.deleted BY DEF Released
<1>4. Released' BY <1>1, <1>3 DEF Released
<1>5. NoPods => NoPods' BY <1>1 DEF NoPods
<1>6. Creating' BY <1>1, <1>3, <1>5 DEF Creating
<1> QED BY <1>1, <1>2, <1>4, <1>6

(* The induction step, one case for each action of the controller, of the  *)
(* executor and of the users. *)
LEMMA Step == ASSUME Inv, "pods" \notin lag, [Next]_vars PROVE Inv'
<1>0. TypeOK' BY TypeStep DEF Inv
<1> USE <1>0 DEF Inv
<1>1. CASE UNCHANGED vars
  BY <1>1 DEF vars, OnePod, Released, Creating, NoPods
<1>2. CASE Begin
  <2>1. copy'.fin = (pbView.fin \/ ~pbView.deleted)
    BY <1>2 DEF Begin, TypeOK, Playbook
  <2>2. OnePod' /\ Released' /\ podView' = pods' BY <1>2 DEF Begin, OnePod, Released
  <2>3. pc' = "normal" => copy'.fin = pbView.fin /\ ~pbView.deleted
    BY <1>2 DEF Begin
  <2>4. pc' = "delete" => pbView'.deleted BY <1>2 DEF Begin
  <2>5. base'.fin => copy'.fin BY <1>2, <2>1 DEF Begin
  <2>6. Creating' BY <1>2, <2>1, <2>3, <2>4, <2>5 DEF Begin, Creating, Released
  <2> QED BY <2>2, <2>6
<1>3. CASE Normal
  <2>1. copy \in Playbook BY DEF TypeOK
  <2>2. PICK ph \in Phase : copy' = [copy EXCEPT !.phase = ph]
    <3>1. copy.phase \in Phase BY <2>1 DEF Playbook
    <3> QED BY <1>3, <3>1, PhaseNames DEF Normal
  <2>3. copy'.fin = copy.fin BY <2>1, <2>2, PhaseForm
  <2> QED BY <1>3, <2>3 DEF Normal, OnePod, Released, Creating
<1>4. CASE DealRunningPlaybook
  <2>1. CASE CreatePod /\ NeedsPod
    <3>1. PICK i \in Pods : pods[i] = "none"
             /\ SetPods([pods EXCEPT ![i] = IF pb.exists THEN "Waiting" ELSE "gone"])
      BY <2>1 DEF CreatePod
    <3>2. pb.fin /\ pb.exists /\ copy.fin /\ \A j \in Pods : pods[j] # "gone"
      BY <1>4 DEF DealRunningPlaybook, Creating, Released
    <3>3. \A j \in Pods : pods[j] = "none" BY <2>1, <3>2 DEF NeedsPod, Listed
    <3>4. pods' = [pods EXCEPT ![i] = "Waiting"] /\ podView' = pods'
      BY <3>1, <3>2 DEF SetPods
    <3>5. OnePod' BY <3>3, <3>4 DEF OnePod, TypeOK
    <3>6. UNCHANGED <<pb, pbView, copy, base, succeeded>> /\ pc' = "status"
      BY <1>4 DEF DealRunningPlaybook
    <3>7. Released' BY <3>2, <3>3, <3>4, <3>6 DEF Released, TypeOK
    <3>8. Creating' BY <3>2, <3>6 DEF Creating
    <3> QED BY <3>4, <3>5, <3>7, <3>8
  <2>2. CASE UNCHANGED <<pods, podView>>
    <3>1. UNCHANGED <<pb, pbView, copy, base, succeeded>> /\ pc' = "status" /\ copy.fin
      BY <1>4 DEF DealRunningPlaybook, Creating
    <3> QED BY <2>2, <3>1 DEF OnePod, Released, Creating
  <2> QED BY <1>4, <2>1, <2>2 DEF DealRunningPlaybook
<1>5. CASE ReconcileDelete
  <2>1. pbView.deleted /\ pc' = "status" /\ UNCHANGED <<pb, succeeded, pbView, base, faults>>
    BY <1>5 DEF ReconcileDelete, Creating
  <2>2. copy'.fin = ~MayRelease BY <1>5, FinForm DEF ReconcileDelete, TypeOK
  <2>3. PICK f :
           /\ pods' = f /\ podView' = f
           /\ \A i \in Pods : f[i] = pods[i] \/ (i \in Listed /\ f[i] = "gone")
    <3>1. CASE UNCHANGED <<pods, podView>> BY <3>1 DEF TypeOK
    <3>2. CASE SetPods([i \in Pods |-> IF i \in Listed THEN "gone" ELSE pods[i]])
      BY <3>2 DEF TypeOK, SetPods
    <3> QED BY <1>5, <3>1, <3>2 DEF ReconcileDelete
  <2>4. \A i \in Listed : pods[i] # "none" BY DEF Listed
  <2>5. OnePod' BY <2>3, <2>4 DEF OnePod
  <2>6. Released' BY <2>1, <2>3, <2>4 DEF Released
  <2>7. MayRelease => NoPods' BY <2>3 DEF MayRelease, Listed, NoPods
  <2>8. Creating' BY <2>1, <2>2, <2>7 DEF Creating
  <2> QED BY <2>3, <2>5, <2>6, <2>8
<1>6. CASE Status
  <2> DEFINE new == Patched(pb, Outcome(copy.phase))
  <2>1. pc = "status" /\ pc' = "idle" /\ UNCHANGED <<pods, podView, succeeded, base, copy>>
    BY <1>6 DEF Status
  <2>2. OnePod' /\ podView' = pods' /\ Creating' BY <2>1 DEF OnePod, Creating
  <2>3. Outcome(copy.phase) \in Phase
    <3>1. copy.phase \in Phase BY DEF TypeOK, Playbook
    <3> QED BY <3>1, OutcomeType
  <2>4. /\ new \in Playbook /\ new.deleted = pb.deleted /\ new.exists = pb.exists
        /\ new.fin = (IF copy.fin # base.fin THEN copy.fin ELSE pb.fin)
    BY <2>3, PatchedForm
  <2> HIDE DEF new
  <2>5. CASE SetPlaybook(Kept(new)) /\ ~(~pb.exists \/ (new.fin /\ ~pb.fin /\ pb.deleted))
    <3>1. Kept(new) \in Playbook /\ Kept(new).fin = new.fin /\ Kept(new).deleted = new.deleted
          /\ (new.fin => Kept(new).exists = new.exists)
      BY <2>4, KeptForm
    <3>2. pb.fin /\ ~new.fin => pbView.deleted
      BY <2>1, <2>4 DEF Creating, TypeOK, Playbook
    <3>3. Released'
      BY <2>1, <2>4, <2>5, <3>1, <3>2, ReleasedKept
    <3> QED BY <2>2, <3>3
  <2>6. CASE UNCHANGED <<pb, pbView>>
    BY <2>1, <2>2, <2>6 DEF Released
  <2> QED BY <1>6, <2>5, <2>6 DEF Status, new
<1>7. ASSUME NEW i \in Pods, PodStarts(i) \/ PodEnds(i) \/ PodKilled(i) PROVE Inv'
  <2>1. PICK x \in {"Executing"} \cup Final : pods[i] \in Live /\ SetPods([pods EXCEPT ![i] = x])
    BY <1>7 DEF PodStarts, PodEnds, PodKilled, Live, Final
  <2>2. UNCHANGED <<pb, succeeded, pbView, pc, base, copy>>
    BY <1>7 DEF PodStarts, PodEnds, PodKilled
  <2> QED BY <2>1, <2>2, PodStep DEF TypeOK, Live, Final
<1>8. ASSUME NEW i \in Pods, SyncStatus(i) PROVE Inv'
  <2>1. PICK ok \in BOOLEAN :
           /\ SetPods([pods EXCEPT ![i] = IF ok THEN "Good" ELSE "Bad"])
           /\ \/ SetPlaybook([pb EXCEPT !.phase = IF ok THEN "Succeeded" ELSE "Failed"])
              \/ UNCHANGED <<pb, pbView>>
    BY <1>8 DEF SyncStatus
  <2>2. PICK x \in {"Good", "Bad"} : SetPods([pods EXCEPT ![i] = x]) BY <2>1
  <2>3. UNCHANGED <<pc, base, copy>> /\ pods[i] = "Executing"
    BY <1>8 DEF SyncStatus
  <2>4. \/ pb' = pb /\ pbView' = pbView
        \/ \E ph \in Phase : pb' = [pb EXCEPT !.phase = ph] /\ (pbView' = pbView \/ pbView' = pb')
    BY <2>1, PhaseNames DEF SetPlaybook, Final
  <2>5. /\ pb'.fin = pb.fin /\ pb'.exists = pb.exists /\ pb'.deleted = pb.deleted
        /\ pbView' = pbView \/ pbView' = pb'
    <3>1. pb \in Playbook BY DEF TypeOK
    <3>2. CASE pb' = pb /\ pbView' = pbView BY <3>1, <3>2
    <3>3. ASSUME NEW ph \in Phase, pb' = [pb EXCEPT !.phase = ph], pbView' = pbView \/ pbView' = pb'
          PROVE  /\ pb'.fin = pb.fin
                 /\ pb'.exists = pb.exists /\ pb'.deleted = pb.deleted
      BY <3>1, <3>3, PhaseForm
    <3> QED BY <2>4, <3>2, <3>3
  <2>6. /\ \A j \in Pods : [pods EXCEPT ![i] = x][j] # "none" => pods[j] # "none"
        /\ \A j \in Pods : pods[j] \in {"none", "gone"} => [pods EXCEPT ![i] = x][j] = pods[j]
        /\ \A j \in Pods : [pods EXCEPT ![i] = x][j] = "gone" => pods[j] = "gone"
    BY <2>3 DEF TypeOK
  <2> QED BY <2>2, <2>3, <2>5, <2>6, PodStep
<1>9. ASSUME NEW i \in Pods, Collect(i) PROVE Inv'
  <2>1. ~pb.exists /\ pods[i] \in Live \cup Final /\ SetPods([pods EXCEPT ![i] = "gone"])
    BY <1>9 DEF Collect
  <2>2. pods[i] \notin {"none", "gone"} BY <2>1 DEF Live, Final
  <2>3. pbView.deleted /\ pc # "normal" BY <2>1, <2>2 DEF Released, Creating
  <2>4. UNCHANGED <<pb, succeeded, pbView, pc, base, copy, faults>> BY <1>9 DEF Collect
  <2>5. /\ \A j \in Pods : [pods EXCEPT ![i] = "gone"][j] # "none" => pods[j] # "none"
        /\ \A j \in Pods : pods[j] \in {"none", "gone"} => [pods EXCEPT ![i] = "gone"][j] = pods[j]
    BY <2>2 DEF TypeOK
  <2> QED BY <2>1, <2>3, <2>4, <2>5, PodStep
<1>10. CASE UserDeletes
  <2> DEFINE p == [pb EXCEPT !.deleted = TRUE]
  <2>1. p \in Playbook /\ p.deleted /\ p.fin = pb.fin /\ p.exists = pb.exists
    BY DeletedForm DEF TypeOK
  <2> HIDE DEF p
  <2>2. SetPlaybook(Kept(p)) /\ pb.exists /\ UNCHANGED <<pods, succeeded, podView, pc, base, copy, faults>>
    BY <1>10 DEF UserDeletes, p
  <2>3. Kept(p) \in Playbook /\ Kept(p).fin = p.fin /\ Kept(p).deleted = p.deleted
        /\ (p.fin => Kept(p).exists = p.exists)
    BY <2>1, KeptForm
  <2>4. Released' /\ (pbView.deleted => pbView'.deleted)
    BY <2>1, <2>2, <2>3, ReleasedKept
  <2>5. pb'.fin = pb.fin BY <2>1, <2>2, <2>3 DEF SetPlaybook
  <2> QED BY <2>2, <2>4, <2>5 DEF OnePod, Creating, NoPods
<1>11. CASE Resync
  BY <1>11 DEF Resync, OnePod, Released, Creating, NoPods
<1>12. CASE SeePlaybook
  <2>1. pbView.deleted => pbView'.deleted BY <1>12 DEF SeePlaybook, Released
  <2>2. Released' BY <1>12, <2>1 DEF SeePlaybook, Released
  <2> QED BY <1>12, <2>1, <2>2 DEF SeePlaybook, OnePod, Creating, NoPods
<1>13. CASE SeePods
  BY <1>13 DEF SeePods
<1> QED
  BY <1>1, <1>2, <1>3, <1>4, <1>5, <1>6, <1>7, <1>8, <1>9, <1>10, <1>11, <1>12, <1>13
  DEF Next, Reconcile, Executor

LEMMA InitInv == Init => Inv
<1> SUFFICES ASSUME Init PROVE Inv OBVIOUS
<1>1. TypeOK BY PhaseNames, BoundAssumption DEF Init, TypeOK, Playbook
<1>2. OnePod /\ Released /\ Creating BY DEF Init, OnePod, Released, Creating
<1> QED BY <1>1, <1>2 DEF Inv, Init

LEMMA Invariance == Spec => []("pods" \notin lag => Inv)
<1>1. ASSUME "pods" \notin lag => Inv, [Next]_vars PROVE ("pods" \notin lag => Inv)'
  <2>1. lag' = lag BY <1>1 DEF Next, vars
  <2> QED BY <1>1, <2>1, Step
<1> QED BY <1>1, InitInv, PTL DEF Spec

-----------------------------------------------------------------------------
(* As long as the Pod cache is current, dealRunningPlaybook creates one    *)
(* Pod for a Playbook at most, however many calls fail, replies are lost   *)
(* and passes work on an old copy of the Playbook.                         *)
THEOREM OnePodAlways == Spec => []OnePod
<1>1. ("pods" \notin lag => Inv) => OnePod BY DEF Inv, OnePod
<1> QED BY <1>1, Invariance, PTL

(* Under the same condition reconcileDelete never removes the finalizer    *)
(* while a Pod is executing tasks.                                         *)
THEOREM ReleasedAfterRunAlways == Spec => ReleasedAfterRun
<1>1. ASSUME "pods" \notin lag => Inv, [Next]_vars
      PROVE  ["pods" \notin lag /\ pb.fin /\ ~pb'.fin => \A i \in Pods : pods[i] # "Executing"]_vars
  <2>1. SUFFICES ASSUME Inv, pb.fin, ~pb'.fin PROVE NoPods BY <1>1 DEF NoPods
  <2>2. pb \in Playbook BY <2>1 DEF Inv, TypeOK
  <2>3. CASE Status
    <3>1. pc = "status" /\ pb' = Kept(Patched(pb, Outcome(copy.phase)))
      BY <2>1, <2>3 DEF Status, SetPlaybook
    <3>2. base.fin /\ ~copy.fin BY <2>1, <2>2, <3>1 DEF Kept, Patched, Playbook, Inv, TypeOK
    <3> QED BY <2>1, <3>1, <3>2 DEF Inv, Creating
  <2>4. CASE UserDeletes BY <2>1, <2>2, <2>4 DEF UserDeletes, SetPlaybook, Kept, Playbook
  <2>5. ASSUME NEW i \in Pods, SyncStatus(i) PROVE FALSE
    BY <2>1, <2>2, <2>5 DEF SyncStatus, SetPlaybook, Playbook
  <2>6. CASE UNCHANGED pb BY <2>1, <2>6
  <2> QED
    BY <1>1, <2>3, <2>4, <2>5, <2>6
    DEF Next, Reconcile, Executor, vars, Begin, Normal, DealRunningPlaybook, ReconcileDelete,
        PodStarts, PodEnds, PodKilled, Collect, Resync, SeePlaybook, SeePods
<1> QED BY <1>1, Invariance, PTL DEF Spec, ReleasedAfterRun

-----------------------------------------------------------------------------
(* What is left of a run, however stale both caches are *)

Ended == {"Good", "Bad", "gone"} \cup Final

(* The phase b is not before the phase a. *)
Upto(a, b) ==
    \/ a = "New"
    \/ a = "Pending" /\ b # "New"
    \/ a = "Running" /\ b \notin {"New", "Pending"}
    \/ a \in Final /\ b \in Final

(* How far the copies of the Playbook may be behind it: not at all once     *)
(* there is a Pod, as far as the phases before Running go.                  *)
Ordered ==
    /\ Upto(base.phase, pbView.phase) /\ Upto(pbView.phase, pb.phase)
    /\ base.phase = "New" => pb.phase \in {"New", "Pending"}
    /\ \A i \in Pods : pods[i] # "none" => base.phase \notin {"New", "Pending"}
    /\ pb.phase \in Final => \E i \in Pods : pods[i] \in Ended
    /\ pc \in {"normal", "delete"} => copy.phase = base.phase
    /\ pc = "status" => \/ copy.phase = base.phase
                        \/ base.phase = "New" /\ copy.phase = "Pending"
                        \/ base.phase = "Pending" /\ copy.phase = "Running"

(* What the Pod cache says has been so. *)
Followed ==
    \A i \in Pods : /\ podView[i] # "none" => pods[i] # "none"
                    /\ podView[i] \in Ended => pods[i] \in Ended
                    /\ podView[i] = "gone" => pods[i] = "gone"

(* Pods are deleted for a finished Playbook, or collected. *)
Deleted == \A i \in Pods : pods[i] = "gone" => ~pb.exists \/ base.phase \in Final

(* A Pod that ran nothing has started after another had ended. *)
AfterAnother(f) ==
    \A i \in Pods : /\ f[i] # "Good"
                    /\ f[i] = "Succeeded" => \E j \in Pods \ {i} : f[j] \in Ended

(* As long as no Pod has run all tasks, nothing says so. *)
Unearned ==
    succeeded = {} =>
      /\ pb.phase # "Succeeded" /\ pbView.phase # "Succeeded" /\ base.phase # "Succeeded"
      /\ AfterAnother(pods) /\ AfterAnother(podView)

History == TypeOK /\ Ordered /\ Followed /\ Deleted /\ Unearned

(* A Pod advances: it is not made anew, and what has ended has ended. *)
Advance(f) ==
    \A i \in Pods : /\ pods[i] # "none" => f[i] # "none"
                    /\ pods[i] \in Ended => f[i] \in Ended
                    /\ pods[i] = "gone" => f[i] = "gone"

LEMMA FollowedStep ==
    ASSUME Followed, NEW f, Advance(f), SetPods(f) PROVE Followed'
BY DEF Followed, Advance, SetPods

(* A Pod gets the phase x: nothing is said of the others. *)
LEMMA MovedPod ==
    ASSUME NEW i \in Pods, NEW f, \A j \in Pods \ {i} : f[j] = pods[j],
           f[i] # "none", pods[i] # "gone", pods[i] \in Ended => f[i] \in Ended
    PROVE  /\ Advance(f)
           /\ /\ AfterAnother(pods) /\ f[i] # "Good"
              /\ f[i] = "Succeeded" => \E j \in Pods \ {i} : pods[j] \in Ended
              => AfterAnother(f)
<1>1. Advance(f) BY DEF Advance
<1>2. ASSUME AfterAnother(pods), f[i] # "Good",
             f[i] = "Succeeded" => \E j \in Pods \ {i} : pods[j] \in Ended,
             NEW k \in Pods
      PROVE  f[k] # "Good" /\ (f[k] = "Succeeded" => \E j \in Pods \ {k} : f[j] \in Ended)
  <2>1. CASE k = i BY <1>2, <2>1
  <2>2. CASE k # i
    <3>1. pods[k] = "Succeeded" => \E j \in Pods \ {k} : pods[j] \in Ended
      BY <1>2 DEF AfterAnother
    <3>2. \A j \in Pods : pods[j] \in Ended => f[j] \in Ended BY <1>1 DEF Advance
    <3> QED BY <1>2, <2>2, <3>1, <3>2 DEF AfterAnother
  <2> QED BY <2>1, <2>2
<1>3. /\ AfterAnother(pods) /\ f[i] # "Good"
      /\ f[i] = "Succeeded" => \E j \in Pods \ {i} : pods[j] \in Ended
      => AfterAnother(f)
  BY <1>2 DEF AfterAnother
<1> QED BY <1>1, <1>3

LEMMA AfterAnotherStep ==
    ASSUME AfterAnother(podView), NEW f, AfterAnother(f), SetPods(f)
    PROVE  AfterAnother(pods') /\ AfterAnother(podView')
BY DEF SetPods

(* A step on a Pod of a Playbook that it leaves alone. *)
LEMMA PodHistory ==
    ASSUME History, TypeOK', NEW f, Advance(f), SetPods(f),
           \A i \in Pods : f[i] # "none" => pods[i] # "none",
           \A i \in Pods : f[i] = "gone" /\ pods[i] # "gone" => ~pb.exists \/ base.phase \in Final,
           succeeded = {} => AfterAnother(f),
           UNCHANGED <<pb, pbView, pc, base, succeeded>>, copy'.phase = copy.phase
    PROVE  History'
<1> USE DEF History
<1>1. pods' = f BY DEF SetPods
<1>2. Followed' BY FollowedStep
<1>3. Ordered' BY <1>1 DEF Ordered, Advance
<1>4. Deleted' BY <1>1 DEF Deleted
<1>5. Unearned' BY AfterAnotherStep DEF Unearned
<1> QED BY <1>2, <1>3, <1>4, <1>5

LEMMA PhaseIsNamed == \A ph \in Phase : ph \in {"New", "Pending", "Running"} \cup Final
<1>1. /\ Phases[1] = "New" /\ Phases[2] = "Pending" /\ Phases[3] = "Running"
      /\ Phases[4] = "Failed" /\ Phases[5] = "Succeeded"
  BY DEF Phases
<1>2. \A i \in 1..5 : i = 1 \/ i = 2 \/ i = 3 \/ i = 4 \/ i = 5 OBVIOUS
<1> QED BY <1>1, <1>2 DEF Phase, Final

(* reconcileStatus takes the phase of the only Pod, once that has ended. *)
LEMMA StatusOutcome ==
    \/ Outcome(copy.phase) = copy.phase
    \/ /\ copy.phase \notin Final /\ Outcome(copy.phase) \in Final
       /\ \E i \in Pods : Listed = {i} /\ podView[i] = Outcome(copy.phase)
<1>1. SUFFICES ASSUME Outcome(copy.phase) # copy.phase PROVE
       /\ copy.phase \notin Final /\ Outcome(copy.phase) \in Final
       /\ \E i \in Pods : Listed = {i} /\ podView[i] = Outcome(copy.phase)
  OBVIOUS
<1>2. /\ copy.phase \notin Final /\ Outcome(copy.phase) \in Final /\ Cardinality(Listed) = 1
      /\ \E i \in Listed : podView[i] = Outcome(copy.phase)
  BY <1>1 DEF Outcome, Final
<1>3. IsFiniteSet(Listed)
  <2>1. IsFiniteSet(Pods) BY BoundAssumption, FS_Interval DEF Pods
  <2> QED BY <2>1, FS_Subset DEF Listed
<1>4. PICK i : Listed = {i} BY <1>2, <1>3, FS_Singleton
<1> QED BY <1>2, <1>4 DEF Listed

LEMMA UptoSelf == \A ph \in Phase : Upto(ph, ph)
BY PhaseIsNamed DEF Upto, Final

(* Whatever a pass writes, the Playbook does not go back. *)
LEMMA PatchAdvances ==
    ASSUME Ordered, pc = "status", NEW out,
           \/ out = copy.phase
           \/ out \in Final /\ \E i \in Pods : podView[i] \in Final,
           \A i \in Pods : podView[i] \in Final => base.phase \notin {"New", "Pending"},
           {pb.phase, base.phase} \subseteq Phase
    PROVE  Upto(pb.phase, IF out # base.phase THEN out ELSE pb.phase)
<1>1. /\ Upto(pb.phase, pb.phase)
      /\ pb.phase \in {"New", "Pending", "Running"} \cup Final
      /\ base.phase \in {"New", "Pending", "Running"} \cup Final
  BY UptoSelf, PhaseIsNamed
<1>2. CASE out \in Final
  <2>1. Upto(pb.phase, out) BY <1>1, <1>2 DEF Upto, Final
  <2> QED BY <1>1, <2>1
<1>3. CASE out \notin Final /\ out # base.phase
  <2>1. \/ base.phase = "New" /\ out = "Pending"
        \/ base.phase = "Pending" /\ out = "Running"
    BY <1>3 DEF Ordered
  <2>2. \A i \in Pods : pods[i] = "none" BY <2>1 DEF Ordered
  <2>3. pb.phase \notin Final BY <2>2 DEF Ordered, Ended, Final
  <2>4. Upto(pb.phase, out) BY <1>1, <2>1, <2>3 DEF Ordered, Upto, Final
  <2> QED BY <1>3, <2>4
<1> QED BY <1>1, <1>2, <1>3

(* The phase a pass leaves behind. *)
LEMMA StatusWrites ==
    ASSUME History, pc = "status", SetPlaybook(Kept(Patched(pb, Outcome(copy.phase))))
    PROVE  /\ pb'.phase = IF Outcome(copy.phase) # base.phase THEN Outcome(copy.phase) ELSE pb.phase
           /\ Upto(pb.phase, pb'.phase)
<1> DEFINE out == Outcome(copy.phase)
<1>1. TypeOK /\ {copy.phase, pb.phase, base.phase} \subseteq Phase
  BY DEF History, TypeOK, Playbook
<1>2. out \in Phase BY <1>1, OutcomeType
<1>3. pb'.phase = IF out # base.phase THEN out ELSE pb.phase
  BY <1>1, <1>2, PatchedForm, KeptForm DEF SetPlaybook
<1>4. \/ out = copy.phase
      \/ out \in Final /\ \E i \in Pods : podView[i] \in Final
  BY StatusOutcome
<1>5. \A i \in Pods : podView[i] \in Final => base.phase \notin {"New", "Pending"}
  BY DEF History, Followed, Ordered, Final
<1> HIDE DEF out
<1>6. Upto(pb.phase, IF out # base.phase THEN out ELSE pb.phase)
  BY <1>1, <1>4, <1>5, PatchAdvances DEF History
<1> QED BY <1>3, <1>6 DEF out

LEMMA HistoryStep == ASSUME History, [Next]_vars PROVE History'
<1>0. TypeOK' BY TypeStep DEF History
<1>13. /\ {pb.phase, pbView.phase, base.phase, copy.phase} \subseteq Phase
       /\ {pb'.phase, pbView'.phase, base'.phase, copy'.phase} \subseteq Phase
  BY <1>0 DEF History, TypeOK, Playbook
<1> USE DEF History
<1>1. CASE UNCHANGED vars \/ Resync
  <2>1. UNCHANGED <<pb, pbView, pods, podView, succeeded, pc, base, copy>>
    BY <1>1 DEF vars, Resync
  <2> QED BY <1>0, <2>1 DEF Ordered, Upto, Followed, Deleted, Unearned, AfterAnother
<1>2. CASE Begin
  <2>1. UNCHANGED <<pb, pbView, pods, podView, succeeded>> /\ base' = pbView
    BY <1>2 DEF Begin
  <2>2. copy'.phase = pbView.phase BY <1>2, FinForm DEF Begin, TypeOK
  <2>3. Upto(pbView.phase, pbView.phase) BY <1>13, UptoSelf
  <2>4. Ordered' BY <2>1, <2>2, <2>3 DEF Ordered, Upto, Final
  <2>5. Deleted' BY <2>1 DEF Deleted, Ordered, Upto, Final
  <2> QED BY <1>0, <2>1, <2>4, <2>5 DEF Followed, Unearned, AfterAnother
<1>3. CASE Normal
  <2>1. /\ UNCHANGED <<pb, pbView, pods, podView, succeeded, base>> /\ pc' = "status"
        /\ copy.phase = base.phase
    BY <1>3 DEF Normal, Ordered
  <2>2. PICK ph \in Phase : /\ copy' = [copy EXCEPT !.phase = ph]
                            /\ \/ ph = copy.phase
                               \/ copy.phase = "New" /\ ph = "Pending"
                               \/ copy.phase = "Pending" /\ ph = "Running"
    <3>1. copy.phase \in Phase BY DEF TypeOK, Playbook
    <3> QED BY <1>3, <3>1, PhaseNames DEF Normal
  <2>3. copy'.phase = ph BY <2>2, PhaseForm DEF TypeOK
  <2>4. Ordered' BY <2>1, <2>2, <2>3 DEF Ordered
  <2> QED BY <1>0, <2>1, <2>4 DEF Followed, Deleted, Unearned, AfterAnother
<1>4. CASE DealRunningPlaybook
  <2>1. /\ UNCHANGED <<pb, pbView, succeeded, base, copy>> /\ pc' = "status"
        /\ copy.phase = base.phase /\ base.phase = "Running"
    BY <1>4 DEF DealRunningPlaybook, Ordered
  <2>2. CASE UNCHANGED <<pods, podView>>
    <3>1. Ordered' BY <2>1, <2>2 DEF Ordered
    <3> QED BY <1>0, <2>1, <2>2, <3>1 DEF Followed, Deleted, Unearned, AfterAnother
  <2>3. CASE CreatePod
    <3>1. PICK i \in Pods, x \in {"Waiting", "gone"} :
                 /\ pods[i] = "none" /\ (x = "gone" => ~pb.exists)
                 /\ SetPods([pods EXCEPT ![i] = x])
      BY <2>3 DEF CreatePod
    <3>2. PICK f : f = [pods EXCEPT ![i] = x] OBVIOUS
    <3>3. /\ Advance(f) /\ f[i] = x /\ \A j \in Pods \ {i} : f[j] = pods[j]
          /\ AfterAnother(pods) => AfterAnother(f)
      <4>1. x # "none" /\ x # "Good" /\ x # "Succeeded" /\ pods[i] \notin Ended
        BY <3>1 DEF Ended, Final
      <4>2. f[i] = x /\ \A j \in Pods \ {i} : f[j] = pods[j] BY <3>2 DEF TypeOK
      <4> QED BY <3>1, <4>1, <4>2, MovedPod
    <3>4. pods' = f /\ SetPods(f) BY <3>1, <3>2 DEF SetPods
    <3>5. Followed' BY <3>3, <3>4, FollowedStep
    <3>6. Ordered' BY <2>1, <3>3, <3>4 DEF Ordered, Advance
    <3>7. Deleted' BY <2>1, <3>1, <3>3, <3>4 DEF Deleted
    <3>8. Unearned' BY <2>1, <3>3, <3>4, AfterAnotherStep DEF Unearned
    <3> QED BY <1>0, <3>5, <3>6, <3>7, <3>8
  <2> QED BY <1>4, <2>2, <2>3 DEF DealRunningPlaybook
<1>5. CASE ReconcileDelete
  <2>1. /\ UNCHANGED <<pb, pbView, succeeded, base>> /\ pc' = "status"
        /\ copy.phase = base.phase
    BY <1>5 DEF ReconcileDelete, Ordered
  <2>2. copy'.phase = copy.phase BY <1>5, FinForm DEF ReconcileDelete, TypeOK
  <2>3. CASE UNCHANGED <<pods, podView>>
    <3>1. Ordered' BY <2>1, <2>2, <2>3 DEF Ordered
    <3> QED BY <1>0, <2>1, <2>3, <3>1 DEF Followed, Deleted, Unearned, AfterAnother
  <2>4. CASE /\ copy.phase \in Final
             /\ SetPods([i \in Pods |-> IF i \in Listed THEN "gone" ELSE pods[i]])
    <3>1. PICK f : f = [i \in Pods |-> IF i \in Listed THEN "gone" ELSE pods[i]] OBVIOUS
    <3>2. \A i \in Pods : f[i] = pods[i] \/ (f[i] = "gone" /\ pods[i] # "none")
      BY <3>1 DEF Listed, Followed
    <3>3. Advance(f) BY <3>2 DEF Advance, Ended
    <3>4. SetPods(f) /\ pods' = f BY <2>4, <3>1 DEF SetPods
    <3>5. AfterAnother(pods) => AfterAnother(f)
      BY <3>2, <3>3 DEF AfterAnother, Advance, Ended
    <3>6. Followed' BY <3>3, <3>4, FollowedStep
    <3>7. Ordered' BY <2>1, <2>2, <3>2, <3>3, <3>4 DEF Ordered, Advance
    <3>8. Deleted' BY <2>1, <2>4, <3>4 DEF Deleted
    <3>9. Unearned' BY <2>1, <3>4, <3>5, AfterAnotherStep DEF Unearned
    <3> QED BY <1>0, <3>6, <3>7, <3>8, <3>9
  <2> QED BY <1>5, <2>3, <2>4 DEF ReconcileDelete
<1>6. CASE Status
  <2>1. pc = "status" /\ pc' = "idle" /\ UNCHANGED <<pods, podView, succeeded, base, copy>>
    BY <1>6 DEF Status
  <2>2. CASE UNCHANGED <<pb, pbView>>
    <3>1. Ordered' BY <2>1, <2>2 DEF Ordered
    <3> QED BY <1>0, <2>1, <2>2, <3>1 DEF Followed, Deleted, Unearned, AfterAnother
  <2>3. CASE SetPlaybook(Kept(Patched(pb, Outcome(copy.phase)))) /\ pb.exists
    <3> DEFINE out == Outcome(copy.phase)
    <3>1. pb'.phase = (IF out # base.phase THEN out ELSE pb.phase) /\ Upto(pb.phase, pb'.phase)
      BY <2>1, <2>3, StatusWrites
    <3>2. pbView' = pbView \/ pbView' = pb' BY <2>3 DEF SetPlaybook
    <3>3. \/ out = copy.phase
          \/ /\ copy.phase \notin Final /\ out \in Final
             /\ \E i \in Pods : Listed = {i} /\ podView[i] = out
      BY StatusOutcome
    <3> HIDE DEF out
    <3>4. ASSUME NEW i \in Pods, podView[i] \in Final
          PROVE  pods[i] \in Ended /\ base.phase \notin {"New", "Pending"}
      BY <3>4 DEF Followed, Ordered, Ended, Final
    <3>5. out \in Final => \E i \in Pods : pods[i] \in Ended
      <4>1. CASE out = copy.phase
        <5>1. out \in Final => base.phase \in Final BY <2>1, <4>1 DEF Ordered, Final
        <5> QED BY <5>1 DEF Ordered, Upto, Final
      <4>2. CASE \E i \in Pods : podView[i] \in Final BY <3>4, <4>2
      <4> QED BY <3>3, <4>1, <4>2
    <3>6. base.phase # "New" \/ out \in {"New", "Pending"}
      BY <2>1, <3>3, <3>4 DEF Ordered
    <3>7. Ordered'
      <4>1. /\ Upto(base.phase, pb.phase) /\ Upto(base.phase, pb'.phase)
            /\ Upto(pbView.phase, pb'.phase) /\ Upto(pb'.phase, pb'.phase)
        BY <1>13, <3>1, UptoSelf DEF Ordered, Upto, Final
      <4>2. base.phase = "New" => pb'.phase \in {"New", "Pending"}
        BY <3>1, <3>6 DEF Ordered
      <4>3. pb'.phase \in Final => \E i \in Pods : pods[i] \in Ended
        BY <3>1, <3>5 DEF Ordered
      <4> QED BY <2>1, <3>2, <4>1, <4>2, <4>3 DEF Ordered
    <3>8. Deleted'
      <4>1. pb'.exists => pb.exists BY <2>3
      <4> QED BY <2>1, <4>1 DEF Deleted
    <3>9. ASSUME succeeded = {} PROVE out # "Succeeded"
      <4>1. SUFFICES ASSUME copy.phase \notin Final, NEW i \in Pods, Listed = {i},
                            podView[i] = "Succeeded"
                     PROVE  FALSE
        BY <2>1, <3>3, <3>9 DEF Unearned, Ordered, Final
      <4>2. PICK j \in Pods \ {i} : podView[j] \in Ended
        BY <3>9, <4>1 DEF Unearned, AfterAnother
      <4>3. podView[j] = "gone" BY <4>1, <4>2 DEF Listed, Ended, Final
      <4>4. base.phase \in Final BY <2>3, <4>3 DEF Followed, Deleted
      <4> QED BY <2>1, <4>1, <4>4 DEF Ordered, Final
    <3>10. Unearned' BY <2>1, <3>1, <3>2, <3>9 DEF Unearned, AfterAnother
    <3> QED BY <1>0, <2>1, <3>7, <3>8, <3>10 DEF Followed
  <2> QED BY <1>6, <2>2, <2>3 DEF Status
<1>7. ASSUME NEW i \in Pods, PodStarts(i) PROVE History'
  <2>1. PICK x \in {"Failed", "Succeeded", "Executing"} :
               /\ pods[i] = "Waiting" /\ SetPods([pods EXCEPT ![i] = x])
               /\ x = "Succeeded" => pb.phase # "Running"
               /\ UNCHANGED <<pb, succeeded, pbView, pc, base, copy>>
    BY <1>7 DEF PodStarts
  <2>2. x = "Succeeded" => pb.phase \in Final
    <3>1. pb.phase \in Phase /\ base.phase \in Phase BY DEF TypeOK, Playbook
    <3>2. \A ph \in Phase : ph \in {"New", "Pending", "Running"} \cup Final
      BY PhaseIsNamed
    <3> QED BY <2>1, <3>1, <3>2 DEF Ordered, Upto, Final
  <2>3. x = "Succeeded" => \E j \in Pods \ {i} : pods[j] \in Ended
    BY <2>1, <2>2 DEF Ordered, Ended, Final
  <2>4. PICK f : f = [pods EXCEPT ![i] = x] OBVIOUS
  <2>5. /\ Advance(f) /\ f[i] = x /\ \A j \in Pods \ {i} : f[j] = pods[j]
        /\ AfterAnother(pods) => AfterAnother(f)
    <3>1. x # "none" /\ x # "Good" /\ pods[i] \notin Ended BY <2>1 DEF Ended, Final
    <3>2. f[i] = x /\ \A j \in Pods \ {i} : f[j] = pods[j] BY <2>4 DEF TypeOK
    <3> QED BY <2>1, <2>3, <3>1, <3>2, MovedPod
  <2> QED BY <1>0, <2>1, <2>4, <2>5, PodHistory DEF Unearned
<1>8. ASSUME NEW i \in Pods, PodEnds(i) \/ PodKilled(i) \/ Collect(i) PROVE History'
  <2>1. PICK x \in {"gone"} \cup Final :
               /\ pods[i] \in Live \cup Final /\ SetPods([pods EXCEPT ![i] = x])
               /\ x = "Succeeded" => pods[i] = "Good"
               /\ x = "gone" => ~pb.exists
               /\ UNCHANGED <<pb, succeeded, pbView, pc, base, copy>>
    BY <1>8 DEF PodEnds, PodKilled, Collect, Live, Final
  <2>2. PICK f : f = [pods EXCEPT ![i] = x] OBVIOUS
  <2>3. pods[i] \notin {"none", "gone"} BY <2>1 DEF Live, Final
  <2>4. AfterAnother(pods) => x # "Succeeded" BY <2>1 DEF AfterAnother
  <2>5. /\ Advance(f) /\ f[i] = x /\ \A j \in Pods \ {i} : f[j] = pods[j]
        /\ AfterAnother(pods) => AfterAnother(f)
    <3>1. x # "none" /\ x # "Good" /\ x \in Ended BY <2>1 DEF Ended, Final
    <3>2. f[i] = x /\ \A j \in Pods \ {i} : f[j] = pods[j] BY <2>2 DEF TypeOK
    <3> QED BY <2>3, <2>4, <3>1, <3>2, MovedPod
  <2> QED BY <1>0, <2>1, <2>2, <2>3, <2>5, PodHistory DEF Unearned
<1>9. ASSUME NEW i \in Pods, SyncStatus(i) PROVE History'
  <2>1. PICK x \in {"Good", "Bad"} :
               /\ pods[i] = "Executing" /\ SetPods([pods EXCEPT ![i] = x])
               /\ succeeded' = IF x = "Good" THEN succeeded \cup {i} ELSE succeeded
               /\ \/ UNCHANGED <<pb, pbView>>
                  \/ SetPlaybook([pb EXCEPT !.phase = IF x = "Good" THEN "Succeeded" ELSE "Failed"])
               /\ UNCHANGED <<pc, base, copy>>
    BY <1>9 DEF SyncStatus
  <2>2. /\ pb'.exists = pb.exists
        /\ \/ pb' = pb /\ pbView' = pbView
           \/ /\ pb'.phase \in Final /\ (pb'.phase = "Succeeded" => x = "Good")
              /\ pbView' = pbView \/ pbView' = pb'
    <3>1. PICK ph \in Final : ph = IF x = "Good" THEN "Succeeded" ELSE "Failed" BY DEF Final
    <3>2. /\ [pb EXCEPT !.phase = ph].phase = ph
          /\ [pb EXCEPT !.phase = ph].exists = pb.exists
      BY PhaseForm, PhaseNames DEF TypeOK
    <3>3. UNCHANGED <<pb, pbView>> \/ SetPlaybook([pb EXCEPT !.phase = ph]) BY <2>1, <3>1
    <3>4. ph = "Succeeded" => x = "Good" BY <3>1
    <3> QED BY <3>2, <3>3, <3>4 DEF SetPlaybook
  <2>3. PICK f : f = [pods EXCEPT ![i] = x] OBVIOUS
  <2>4. /\ Advance(f) /\ f[i] = x /\ \A j \in Pods \ {i} : f[j] = pods[j]
        /\ AfterAnother(pods) /\ x = "Bad" => AfterAnother(f)
    <3>1. x # "none" /\ x # "Succeeded" /\ pods[i] \notin Ended BY <2>1 DEF Ended, Final
    <3>2. f[i] = x /\ \A j \in Pods \ {i} : f[j] = pods[j] BY <2>3 DEF TypeOK
    <3> QED BY <2>1, <3>1, <3>2, MovedPod
  <2>5. pods' = f /\ SetPods(f) BY <2>1, <2>3 DEF SetPods
  <2>6. Followed' BY <2>4, <2>5, FollowedStep
  <2>7. pods'[i] \in Ended BY <2>4, <2>5 DEF Ended
  <2>8. Ordered'
    <3>1. Upto(base.phase, pbView'.phase) /\ Upto(pbView'.phase, pb'.phase)
      BY <2>2 DEF Ordered, Upto, Final
    <3>2. base.phase \notin {"New", "Pending"} BY <2>1 DEF Ordered
    <3> QED BY <2>1, <2>7, <3>1, <3>2 DEF Ordered
  <2>9. Deleted' BY <2>1, <2>2, <2>4, <2>5 DEF Deleted
  <2>10. Unearned'
    <3>1. CASE x = "Good" BY <2>1, <3>1 DEF Unearned
    <3>2. CASE x = "Bad" BY <2>1, <2>2, <2>4, <2>5, <3>2, AfterAnotherStep DEF Unearned
    <3> QED BY <3>1, <3>2
  <2> QED BY <1>0, <2>6, <2>8, <2>9, <2>10
<1>10. CASE UserDeletes
  <2>1. /\ UNCHANGED <<pods, succeeded, podView, pc, base, copy>>
        /\ SetPlaybook(Kept([pb EXCEPT !.deleted = TRUE])) /\ pb.exists
    BY <1>10 DEF UserDeletes
  <2>2. pb'.phase = pb.phase /\ (pbView' = pbView \/ pbView' = pb')
    BY <2>1, DeletedForm, KeptForm DEF SetPlaybook, TypeOK
  <2>3. Ordered'
    <3>1. Upto(base.phase, pb.phase) /\ Upto(pb.phase, pb.phase)
      BY <1>13, UptoSelf DEF Ordered, Upto, Final
    <3> QED BY <2>1, <2>2, <3>1 DEF Ordered
  <2>4. Deleted'
    <3>1. pb'.exists => pb.exists BY <2>1
    <3> QED BY <2>1, <3>1 DEF Deleted
  <2>5. Unearned' BY <2>1, <2>2 DEF Unearned, AfterAnother
  <2> QED BY <1>0, <2>1, <2>3, <2>4, <2>5 DEF Followed
<1>11. CASE SeePlaybook
  <2>1. UNCHANGED <<pb, pods, succeeded, podView, pc, base, copy>> /\ pbView' = pb
    BY <1>11 DEF SeePlaybook
  <2>2. Ordered'
    <3>1. Upto(base.phase, pb.phase) /\ Upto(pb.phase, pb.phase)
      BY <1>13, UptoSelf DEF Ordered, Upto, Final
    <3> QED BY <2>1, <3>1 DEF Ordered
  <2> QED BY <1>0, <2>1, <2>2 DEF Followed, Deleted, Unearned, AfterAnother
<1>12. CASE SeePods
  <2>1. UNCHANGED <<pb, pbView, pods, succeeded, pc, base, copy>> /\ podView' = pods
    BY <1>12 DEF SeePods
  <2>2. Ordered' BY <2>1 DEF Ordered, Upto
  <2>3. Unearned' BY <2>1 DEF Unearned
  <2> QED BY <1>0, <2>1, <2>2, <2>3 DEF Followed, Deleted
<1> QED
  BY <1>1, <1>2, <1>3, <1>4, <1>5, <1>6, <1>7, <1>8, <1>9, <1>10, <1>11, <1>12
  DEF Next, Reconcile, Executor

LEMMA HistoryAlways == Spec => []History
<1>1. Init => History
  <2> SUFFICES ASSUME Init PROVE History OBVIOUS
  <2>1. TypeOK BY InitInv DEF Inv
  <2>2. Ordered /\ Followed /\ Deleted
    BY DEF Init, Ordered, Upto, Followed, Deleted, Ended, Final
  <2>3. Unearned BY DEF Init, Unearned, AfterAnother
  <2> QED BY <2>1, <2>2, <2>3 DEF History
<1> QED BY <1>1, HistoryStep, PTL DEF Spec

(* A Playbook is Succeeded only if an executor has run all its tasks,      *)
(* however stale the caches and however many Pods there are: a Pod that    *)
(* found the Playbook finished exits with 0, but reconcileStatus never     *)
(* takes that for the outcome.                                             *)
THEOREM SucceededHasRunAlways == Spec => []SucceededHasRun
<1>1. History => SucceededHasRun BY DEF History, Unearned, SucceededHasRun
<1> QED BY <1>1, HistoryAlways, PTL

-----------------------------------------------------------------------------
(* The two writers of the phase *)

(* With one Pod: when the Playbook has failed, so has the Pod. *)
FailedForGood ==
    pb.phase = "Failed" => \A i \in Pods : pods[i] \in {"none", "Bad", "Failed", "gone"}

(* How a step changes the phase: reconcileStatus or syncStatus writes it. *)
LEMMA PhaseStep ==
    ASSUME History, [Next]_vars
    PROVE  /\ Upto(pb.phase, pb'.phase)
           /\ \/ UNCHANGED pb.phase
              \/ /\ pc = "status" /\ UNCHANGED pods
                 /\ Outcome(copy.phase) # base.phase /\ pb'.phase = Outcome(copy.phase)
              \/ \E i \in Pods :
                   /\ pods[i] = "Executing"
                   /\ \/ pb'.phase = "Succeeded" /\ pods' = [pods EXCEPT ![i] = "Good"]
                      \/ pb'.phase = "Failed" /\ pods' = [pods EXCEPT ![i] = "Bad"]
<1>1. TypeOK /\ pb.phase \in Phase BY DEF History, TypeOK, Playbook
<1>2. Upto(pb.phase, pb.phase) BY <1>1, UptoSelf
<1>3. CASE Status
  <2>1. CASE UNCHANGED pb BY <1>2, <2>1
  <2>2. CASE SetPlaybook(Kept(Patched(pb, Outcome(copy.phase))))
    BY <1>3, <2>2, StatusWrites DEF Status
  <2> QED BY <1>3, <2>1, <2>2 DEF Status
<1>4. ASSUME NEW i \in Pods, SyncStatus(i)
      PROVE  /\ Upto(pb.phase, pb'.phase)
             /\ pods[i] = "Executing"
             /\ \/ UNCHANGED pb
                \/ pb'.phase = "Succeeded" /\ pods' = [pods EXCEPT ![i] = "Good"]
                \/ pb'.phase = "Failed" /\ pods' = [pods EXCEPT ![i] = "Bad"]
  <2>1. /\ pods[i] = "Executing"
        /\ \/ UNCHANGED pb
           \/ pb' = [pb EXCEPT !.phase = "Succeeded"] /\ pods' = [pods EXCEPT ![i] = "Good"]
           \/ pb' = [pb EXCEPT !.phase = "Failed"] /\ pods' = [pods EXCEPT ![i] = "Bad"]
    BY <1>4 DEF SyncStatus, SetPlaybook, SetPods
  <2>2. /\ [pb EXCEPT !.phase = "Succeeded"].phase = "Succeeded"
        /\ [pb EXCEPT !.phase = "Failed"].phase = "Failed"
    BY <1>1, PhaseForm, PhaseNames DEF TypeOK, Final
  <2>3. \A ph \in Final : Upto(pb.phase, ph) BY <1>1, PhaseIsNamed DEF Upto, Final
  <2>4. \/ UNCHANGED pb
        \/ pb'.phase = "Succeeded" /\ pods' = [pods EXCEPT ![i] = "Good"]
        \/ pb'.phase = "Failed" /\ pods' = [pods EXCEPT ![i] = "Bad"]
    BY <2>1, <2>2
  <2>5. Upto(pb.phase, pb'.phase) BY <1>2, <2>3, <2>4 DEF Final
  <2> QED BY <2>1, <2>4, <2>5
<1>5. CASE UserDeletes
  <2>1. pb'.phase = pb.phase
    BY <1>1, <1>5, DeletedForm, KeptForm DEF UserDeletes, SetPlaybook, TypeOK
  <2> QED BY <1>2, <2>1
<1>6. CASE UNCHANGED pb BY <1>2, <1>6
<1>7. CASE \E i \in Pods : SyncStatus(i)
  <2>1. PICK i \in Pods : SyncStatus(i) BY <1>7
  <2>2. CASE UNCHANGED pb BY <1>6, <2>2
  <2>3. CASE ~UNCHANGED pb BY <1>4, <2>1, <2>3
  <2> QED BY <2>2, <2>3
<1> QED
  BY <1>3, <1>5, <1>6, <1>7
  DEF Next, Reconcile, Executor, vars, Begin, Normal, DealRunningPlaybook, ReconcileDelete,
      PodStarts, PodEnds, PodKilled, Collect, Resync, SeePlaybook, SeePods

LEMMA FailedStep ==
    ASSUME Inv, History, "pods" \notin lag, FailedForGood, [Next]_vars
    PROVE  FailedForGood' /\ (pb.phase = "Failed" => pb'.phase = "Failed")
<1> USE DEF Inv
<1>1. CASE UNCHANGED pb.phase
  <2>1. SUFFICES ASSUME pb.phase = "Failed", NEW i \in Pods
                 PROVE  pods'[i] \in {"none", "Bad", "Failed", "gone"}
    BY <1>1 DEF FailedForGood
  <2>2. \A j \in Pods : pods[j] \in {"none", "Bad", "Failed", "gone"}
    BY <2>1 DEF FailedForGood
  <2>3. CASE UNCHANGED pods BY <2>2, <2>3
  <2>4. CASE CreatePod /\ pc = "normal" /\ NeedsPod
    <3>1. PICK j \in Pods : pods[j] \in Ended BY <2>1 DEF History, Ordered, Final
    <3>2. pods[j] # "gone" BY <2>4 DEF Creating
    <3>3. j \in Listed BY <3>1, <3>2 DEF Listed, Ended, Final
    <3> QED BY <2>4, <3>3 DEF NeedsPod
  <2>5. CASE pods' = [k \in Pods |-> IF k \in Listed THEN "gone" ELSE pods[k]]
    BY <2>2, <2>5
  <2>6. ASSUME NEW k \in Pods, PodStarts(k) \/ SyncStatus(k) PROVE FALSE
    BY <2>2, <2>6 DEF PodStarts, SyncStatus
  <2>7. ASSUME NEW k \in Pods, PodEnds(k) \/ PodKilled(k) \/ Collect(k)
        PROVE  pods'[i] \in {"none", "Bad", "Failed", "gone"}
    <3>1. PICK x \in {"Failed", "gone"} : pods' = [pods EXCEPT ![k] = x]
      BY <2>2, <2>7 DEF PodEnds, PodKilled, Collect, SetPods
    <3> QED BY <2>2, <3>1 DEF TypeOK
  <2> QED
    BY <2>3, <2>4, <2>5, <2>6, <2>7
    DEF Next, Reconcile, Executor, vars, Begin, Normal, DealRunningPlaybook, ReconcileDelete, Status,
        UserDeletes, Resync, SeePlaybook, SeePods, SetPods
<1>2. CASE /\ pc = "status" /\ UNCHANGED pods
           /\ Outcome(copy.phase) # base.phase /\ pb'.phase = Outcome(copy.phase)
  <2>1. CASE Outcome(copy.phase) = copy.phase
    <3>1. pb'.phase \in {"Pending", "Running"} BY <1>2, <2>1 DEF History, Ordered
    <3>2. Upto(pb.phase, pb'.phase) BY PhaseStep
    <3> QED BY <3>1, <3>2 DEF Upto, Final, FailedForGood
  <2>2. CASE \E i \in Pods : Listed = {i} /\ podView[i] = Outcome(copy.phase)
    <3>1. PICK i \in Pods : Listed = {i} /\ podView[i] = Outcome(copy.phase) BY <2>2
    <3>2. \A j \in Pods \ {i} : pods[j] \in {"none", "gone"} BY <3>1 DEF Listed
    <3>3. pods[i] = pb'.phase BY <1>2, <3>1
    <3>4. FailedForGood' BY <1>2, <3>2, <3>3 DEF FailedForGood
    <3>5. pb.phase = "Failed" => pb'.phase = "Failed"
      <4>1. Upto(pb.phase, pb'.phase) BY PhaseStep
      <4> QED BY <3>3, <4>1 DEF FailedForGood, Upto, Final
    <3> QED BY <3>4, <3>5
  <2> QED BY <2>1, <2>2, StatusOutcome
<1>3. ASSUME NEW i \in Pods, pods[i] = "Executing",
             \/ pb'.phase = "Succeeded" /\ pods' = [pods EXCEPT ![i] = "Good"]
             \/ pb'.phase = "Failed" /\ pods' = [pods EXCEPT ![i] = "Bad"]
      PROVE  FailedForGood' /\ (pb.phase = "Failed" => pb'.phase = "Failed")
  <2>1. pb.phase # "Failed" BY <1>3 DEF FailedForGood
  <2>2. \A j \in Pods \ {i} : pods[j] = "none" BY <1>3 DEF OnePod
  <2>3. FailedForGood' BY <1>3, <2>2 DEF FailedForGood, TypeOK
  <2> QED BY <2>1, <2>3
<1> QED BY <1>1, <1>2, <1>3, PhaseStep

(* With one Pod the phase never goes back, and a Playbook that has failed   *)
(* is not reported as succeeded, although syncStatus and reconcileStatus    *)
(* both write it and the latter from a copy that may be old.                *)
THEOREM PhaseOnlyAdvancesAlways == Spec => PhaseOnlyAdvances
<1> DEFINE I == "pods" \notin lag => Inv /\ FailedForGood
<1>1. Init => I BY InitInv DEF Init, FailedForGood
<1>2. ASSUME History, I, [Next]_vars
      PROVE  I' /\ ["pods" \notin lag =>
                       \A i, j \in 1..5 : pb.phase = Phases[i] /\ pb'.phase = Phases[j]
                         => IF i <= 3 THEN i <= j ELSE j = i \/ pb'.phase = "Failed"]_vars
  <2>1. lag' = lag BY <1>2 DEF Next, vars
  <2>2. I' BY <1>2, <2>1, Step, FailedStep
  <2>3. ASSUME "pods" \notin lag, NEW i \in 1..5, NEW j \in 1..5,
               pb.phase = Phases[i], pb'.phase = Phases[j]
        PROVE  IF i <= 3 THEN i <= j ELSE j = i \/ pb'.phase = "Failed"
    <3>1. Upto(Phases[i], Phases[j]) BY <1>2, <2>3, PhaseStep
    <3>2. Phases[i] = "Failed" => Phases[j] = "Failed" BY <1>2, <2>3, FailedStep
    <3>3. /\ Phases[1] = "New" /\ Phases[2] = "Pending" /\ Phases[3] = "Running"
          /\ Phases[4] = "Failed" /\ Phases[5] = "Succeeded"
      BY DEF Phases
    <3>4. i \in {1, 2, 3, 4, 5} /\ j \in {1, 2, 3, 4, 5} OBVIOUS
    <3> QED BY <2>3, <3>1, <3>2, <3>3, <3>4 DEF Upto, Final
  <2> QED BY <2>2, <2>3
<1> QED BY <1>1, <1>2, HistoryAlways, PTL DEF Spec, PhaseOnlyAdvances

-----------------------------------------------------------------------------
(* The file storage *)

(* A watcher that is sending or removing is in its loop, and one that is   *)
(* about to remove a tagged file has a consumer without the object.        *)
Handled ==
    /\ \A p \in Processes : held[p] # NoEvent => phase[p] = "run"
    /\ \A p \in Processes : held[p].type = "Remove" => view[p][held[p].n] = None

SInv == STypeOK /\ Handled

-----------------------------------------------------------------------------
Clients1 == [Clients -> {Idle} \cup Running]

(* A call under way has an object and an identity. *)
LEMMA CallType ==
    ASSUME client \in Clients1, NEW c \in Clients, client[c].op # "idle"
    PROVE  client[c] \in Running /\ client[c].n \in Names /\ client[c].id \in CallId
BY DEF Clients1, Running, Idle

LEMMA GotoType ==
    ASSUME client \in Clients1, NEW c \in Clients,
           client[c].op \in {"create", "update"},
           NEW op \in {"open", "rewrite"}, Goto(c, op)
    PROVE  client' \in Clients1
<1>1. client[c] \in [op : {"create", "update", "delete", "open", "rewrite"}, n : Names, id : CallId]
  BY DEF Clients1, Running, Idle
<1>2. [client[c] EXCEPT !.op = op] \in Running BY <1>1 DEF Running
<1>3. client' = [client EXCEPT ![c] = [client[c] EXCEPT !.op = op]] BY DEF Goto
<1> QED BY <1>2, <1>3 DEF Clients1

LEMMA ReturnType ==
    ASSUME client \in Clients1, NEW c \in Clients, Return(c) PROVE client' \in Clients1
BY DEF Clients1, Return

LEMMA MovedType ==
    ASSUME NEW f \in Clients1, NEW n, NEW from, NEW to \in {"tag", "gone"}
    PROVE  Moved(f, n, from, to) \in Clients1
<1> SUFFICES ASSUME NEW c \in Clients, f[c].op = "write"
             PROVE  [f[c] EXCEPT !.at = to] \in Running
  BY DEF Moved, Clients1
<1>1. f[c] \in [op : {"write"}, n : Names, id : CallId, at : {"file", "tag", "gone"}]
  BY DEF Clients1, Running, Idle
<1> QED BY <1>1 DEF Running

Queues == [Processes -> Seq({DirEvent} \cup Event)]

LEMMA NotifyType ==
    ASSUME queue \in Queues, NEW e \in {DirEvent} \cup Event, Notify(e)
    PROVE  queue' \in Queues
<1>1. ASSUME NEW p \in Processes PROVE Append(queue[p], e) \in Seq({DirEvent} \cup Event)
  BY DEF Queues
<1> QED BY <1>1 DEF Queues, Notify

LEMMA OnType ==
    ASSUME NEW op \in {"Create", "Write"}, NEW name \in {"file", "tag"}, NEW n \in Names
    PROVE  On(op, name, n) \in Event
BY DEF On, Event

(* The parts of the type invariant, by what the actions share. *)
LEMMA TypeParts ==
    STypeOK <=> /\ dir \in BOOLEAN
                /\ file \in [Names -> Content] /\ tagged \in [Names -> Content]
                /\ client \in Clients1
                /\ ops \in 0..MaxOps /\ exits \in 0..MaxExits
                /\ phase \in [Processes -> {"list", "watch", "run"}]
                /\ watching \in [Processes -> BOOLEAN]
                /\ queue \in Queues
                /\ held \in [Processes -> {NoEvent} \cup Held]
                /\ view \in [Processes -> [Names -> {None} \cup CallId]]
BY DEF STypeOK, Clients1, Queues

(* A file that decodes holds what a call has written. *)
LEMMA DecodesType == ASSUME NEW v \in Content, Decodes(v) PROVE v \in CallId
BY DEF Content, Decodes

-----------------------------------------------------------------------------
(* The steps of fileStorage leave the watcher's own state alone. *)
LEMMA StorageStep ==
    ASSUME STypeOK, NEW c \in Clients, Storage(c) PROVE STypeOK'
<1> USE TypeParts
<1>1. CASE Create(c)
  <2>1. client' \in Clients1 BY <1>1, GotoType DEF Create
  <2>2. queue' \in Queues
    <3>1. ASSUME NEW p \in Processes PROVE Append(queue[p], DirEvent) \in Seq({DirEvent} \cup Event)
      BY DEF Queues
    <3> QED BY <1>1, <3>1 DEF Create, Queues
  <2> QED BY <1>1, <2>1, <2>2 DEF STypeOK, Clients1, Queues, Create
<1>2. CASE GuaranteedUpdate(c)
  <2>1. client' \in Clients1 BY <1>2, GotoType, ReturnType DEF GuaranteedUpdate
  <2> QED BY <1>2, <2>1 DEF STypeOK, Clients1, Queues, GuaranteedUpdate, disk, watcher
<1>3. CASE Open(c)
  <2>1. client[c].n \in Names /\ client[c].id \in CallId BY <1>3, CallType DEF Open
  <2>2. [op |-> "write", n |-> client[c].n, id |-> client[c].id, at |-> "file"] \in Running
    BY <2>1 DEF Running
  <2>3. client' \in Clients1 BY <1>3, <2>2 DEF Open, Clients1
  <2>4. file' \in [Names -> Content] BY <1>3, <2>1 DEF Open, Content
  <2>5. queue' \in Queues BY <1>3, <2>1, NotifyType, OnType DEF Open
  <2> QED BY <1>3, <2>3, <2>4, <2>5 DEF STypeOK, Clients1, Queues, Open
<1>4. CASE Write(c)
  <2>1. client[c].n \in Names /\ client[c].id \in CallId /\ client[c].at \in {"file", "tag", "gone"}
    BY <1>4, CallType DEF Write, Running
  <2>2. client' \in Clients1 BY <1>4, ReturnType DEF Write
  <2>3. file' \in [Names -> Content] /\ tagged' \in [Names -> Content]
    BY <1>4, <2>1 DEF Write, Content
  <2>4. queue' \in Queues BY <1>4, <2>1, NotifyType, OnType DEF Write
  <2> QED BY <1>4, <2>2, <2>3, <2>4 DEF STypeOK, Clients1, Queues, Write
<1>5. CASE Delete(c)
  <2>1. client[c].n \in Names BY <1>5, CallType DEF Delete
  <2>2. client' \in Clients1
    <3>1. Moved(Moved(client, client[c].n, "tag", "gone"), client[c].n, "file", "tag") \in Clients1
      BY MovedType
    <3> QED BY <1>5, <3>1, ReturnType DEF Delete, Clients1
  <2>3. file' \in [Names -> Content] /\ tagged' \in [Names -> Content] /\ dir' \in BOOLEAN
    BY <1>5, <2>1 DEF Delete, Content, disk
  <2>4. queue' \in Queues BY <1>5, <2>1, NotifyType, OnType DEF Delete
  <2> QED BY <1>5, <2>2, <2>3, <2>4 DEF STypeOK, Clients1, Queues, Delete
<1> QED BY <1>1, <1>2, <1>3, <1>4, <1>5 DEF Storage

LEMMA CallStep ==
    ASSUME STypeOK, NEW c \in Clients, NEW op \in {"create", "update", "delete"}, Call(c, op)
    PROVE  STypeOK'
<1>1. ops' \in CallId /\ ops' \in 0..MaxOps
  <2>1. ops \in 0..MaxOps BY DEF STypeOK
  <2>2. ops < MaxOps /\ ops' = ops + 1 BY DEF Call
  <2> QED BY <2>1, <2>2, CallAssumption DEF CallId
<1>2. client' \in Clients1
  <2>1. PICK n \in Names : client' = [client EXCEPT ![c] = [op |-> op, n |-> n, id |-> ops']]
    BY DEF Call
  <2>2. [op |-> op, n |-> n, id |-> ops'] \in Running BY <1>1 DEF Running
  <2>3. PICK r \in Running : client' = [client EXCEPT ![c] = r] BY <2>1, <2>2
  <2>4. client \in Clients1 BY TypeParts
  <2> QED BY ONLY <2>3, <2>4 DEF Clients1
<1> QED BY <1>1, <1>2, TypeParts DEF STypeOK, Clients1, Queues, Call, disk, watcher

(* The steps of the reflector and of the watcher's loop. *)
LEMMA WatcherStep ==
    ASSUME SInv, NEW p \in Processes, Watcher(p) PROVE SInv'
<1> USE TypeParts DEF SInv
<1>1. CASE GetList(p)
  <2>1. file \in [Names -> {None} \cup CallId]
    <3>1. ASSUME NEW n \in Names PROVE file[n] \in {None} \cup CallId
      BY <1>1, DecodesType DEF GetList
    <3> QED BY <3>1
  <2>2. /\ view' \in [Processes -> [Names -> {None} \cup CallId]]
        /\ phase' \in [Processes -> {"list", "watch", "run"}]
    BY <1>1, <2>1 DEF GetList
  <2>3. STypeOK' BY <1>1, <2>2 DEF GetList, disk, STypeOK
  <2>4. held[p] = NoEvent BY <1>1 DEF GetList, Handled
  <2>5. held[p].type # "Remove" BY <2>4 DEF NoEvent
  <2>6. held' = held /\ \A q \in Processes \ {p} : view'[q] = view[q] /\ phase'[q] = phase[q]
    BY <1>1 DEF GetList
  <2>7. Handled BY DEF SInv
  <2>8. Handled' BY ONLY <2>4, <2>5, <2>6, <2>7 DEF Handled
  <2> QED BY <2>3, <2>8
<1>2. CASE Watch(p)
  <2>1. STypeOK' BY <1>2 DEF Watch, disk, STypeOK
  <2> QED BY <1>2, <2>1 DEF Watch, Handled
<1>3. CASE Receive(p)
  <2> DEFINE e == Head(queue[p])
  <2>1. e \in {DirEvent} \cup Event /\ Tail(queue[p]) \in Seq({DirEvent} \cup Event)
    <3>1. queue[p] \in Seq({DirEvent} \cup Event) BY DEF Queues
    <3>2. queue[p] # <<>> BY <1>3 DEF Receive
    <3> QED BY ONLY <3>1, <3>2
  <2>2. queue' \in Queues BY <1>3, <2>1 DEF Receive, Queues
  <2>3. watching' \in [Processes -> BOOLEAN] BY <1>3 DEF Receive
  <2>4. held' = held \/ \E v \in CallId : e \in Event /\ held' = [held EXCEPT ![p] = Result(e, v)]
    <3>1. CASE e = DirEvent BY <1>3, <3>1 DEF Receive
    <3>2. CASE e # DirEvent
      <4>1. e \in Event /\ e.n \in Names BY <2>1, <3>2 DEF Event
      <4> DEFINE v == IF e.name = "tag" THEN tagged[e.n] ELSE file[e.n]
      <4>2. v \in Content BY <4>1
      <4>3. held' = IF Decodes(v) THEN [held EXCEPT ![p] = Result(e, v)] ELSE held
        BY <1>3, <3>2 DEF Receive
      <4> HIDE DEF v, e
      <4> QED BY <4>1, <4>2, <4>3, DecodesType
    <3> QED BY <3>1, <3>2
  <2>5. ASSUME NEW v \in CallId, e \in Event
        PROVE  Result(e, v) \in Held /\ Result(e, v).type # "Remove"
    <3> HIDE DEF e
    <3> QED BY <2>5 DEF Result, Held, Event
  <2>6. held' \in [Processes -> {NoEvent} \cup Held] BY <2>4, <2>5
  <2>7. STypeOK' BY <1>3, <2>2, <2>3, <2>6 DEF Receive, disk, STypeOK, Queues
  <2>8. \A q \in Processes : held'[q] = held[q] \/ (q = p /\ held'[q].type # "Remove")
    BY <2>4, <2>5
  <2>9. phase[p] = "run" /\ UNCHANGED <<phase, view>> BY <1>3 DEF Receive
  <2> QED BY <2>7, <2>8, <2>9 DEF Handled
<1>4. CASE Send(p)
  <2>1. held[p] \in Held BY <1>4 DEF Send, NoEvent
  <2>2. held[p].n \in Names /\ held[p].v \in CallId BY <2>1 DEF Held
  <2>3. view' \in [Processes -> [Names -> {None} \cup CallId]] BY <1>4, <2>2 DEF Send
  <2>4. PICK h \in {NoEvent} \cup Held :
           /\ held' = [held EXCEPT ![p] = h]
           /\ h = NoEvent \/ (h.type = "Remove" /\ h.n = held[p].n /\ held[p].type = "Deleted")
    <3>1. [held[p] EXCEPT !.type = "Remove"] \in Held
          /\ [held[p] EXCEPT !.type = "Remove"].type = "Remove"
          /\ [held[p] EXCEPT !.type = "Remove"].n = held[p].n
      BY <2>1 DEF Held
    <3>2. held[p].type = "Set" \/ held[p].type = "Deleted" BY <1>4 DEF Send
    <3> QED BY <1>4, <3>1, <3>2 DEF Send
  <2>5. held' \in [Processes -> {NoEvent} \cup Held] BY <2>4
  <2>6. STypeOK' BY <1>4, <2>3, <2>5 DEF Send, disk, STypeOK
  <2>7. UNCHANGED phase /\ phase[p] = "run" BY <1>4, <2>1 DEF Send, Handled, NoEvent
  <2>8. held[p].type = "Deleted" => view'[p][held[p].n] = None BY <1>4, <2>2 DEF Send
  <2>9. \A q \in Processes \ {p} : view'[q] = view[q] /\ held'[q] = held[q] BY <1>4, <2>4 DEF Send
  <2>10. held'[p] = h BY <2>4
  <2>11. Handled BY DEF SInv
  <2>12. ASSUME NEW q \in Processes
         PROVE  /\ held'[q] # NoEvent => phase'[q] = "run"
                /\ held'[q].type = "Remove" => view'[q][held'[q].n] = None
    <3>1. CASE q = p
      <4>1. h.type = "Remove" => view'[p][h.n] = None
        <5>1. NoEvent.type # "Remove" BY ONLY DEF NoEvent
        <5> QED BY ONLY <2>4, <2>8, <5>1
      <4> QED BY ONLY <2>7, <2>10, <3>1, <4>1
    <3>2. CASE q # p BY ONLY <2>7, <2>9, <2>11, <3>2 DEF Handled
    <3> QED BY <3>1, <3>2
  <2>13. Handled' BY ONLY <2>12 DEF Handled
  <2> QED BY <2>6, <2>13
<1>5. CASE Remove(p)
  <2>1. client' \in Clients1 BY <1>5, MovedType DEF Remove
  <2>2. tagged' \in [Names -> Content] BY <1>5 DEF Remove, Content
  <2>3. STypeOK' BY <1>5, <2>1, <2>2 DEF Remove, STypeOK, Clients1
  <2> QED BY <1>5, <2>3 DEF Remove, Handled, NoEvent
<1> QED BY <1>1, <1>2, <1>3, <1>4, <1>5 DEF Watcher

LEMMA ExitStep == ASSUME SInv, NEW p \in Processes, Exit(p) PROVE SInv'
<1>1. STypeOK'
  <2>1. client' \in Clients1 BY TypeParts DEF Exit, SInv, Clients1
  <2>2. queue' \in Queues
    <3>1. queue \in Queues BY TypeParts DEF SInv
    <3>2. <<>> \in Seq({DirEvent} \cup Event) OBVIOUS
    <3>3. queue' = [queue EXCEPT ![p] = <<>>] BY DEF Exit
    <3>4. PICK s \in Seq({DirEvent} \cup Event) : queue' = [queue EXCEPT ![p] = s]
      BY ONLY <3>2, <3>3
    <3> QED BY ONLY <3>1, <3>4 DEF Queues
  <2>3. exits' \in 0..MaxExits
    <3>1. exits \in 0..MaxExits BY DEF SInv, STypeOK
    <3>2. exits < MaxExits /\ exits' = exits + 1 BY DEF Exit
    <3> QED BY <3>1, <3>2, CallAssumption
  <2> QED BY <2>1, <2>2, <2>3 DEF Exit, disk, SInv, STypeOK, Clients1, Queues
<1>2. Handled' BY DEF Exit, SInv, STypeOK, Handled, NoEvent
<1> QED BY <1>1, <1>2 DEF SInv

LEMMA SInitInv == SInit => SInv
<1> SUFFICES ASSUME SInit PROVE SInv OBVIOUS
<1>1. dir \in BOOLEAN /\ watching \in [Processes -> BOOLEAN]
  <2>1. setting.dir \in BOOLEAN /\ setting.started \in BOOLEAN
    BY SettingAssumption DEF SInit
  <2>2. (setting.started /\ dir) \in BOOLEAN OBVIOUS
  <2> QED BY <2>1, <2>2, Zenon DEF SInit
<1>2. queue \in Queues BY DEF SInit, Queues
<1>3. file \in [Names -> {None} \cup CallId] BY DEF SInit
<1>4. STypeOK
  <2>1. file \in [Names -> Content] /\ tagged \in [Names -> Content] BY <1>3 DEF SInit, Content
  <2>2. client \in Clients1 /\ ops \in 0..MaxOps /\ exits \in 0..MaxExits
    BY CallAssumption DEF SInit, Clients1
  <2>3. /\ phase \in [Processes -> {"list", "watch", "run"}]
        /\ held \in [Processes -> {NoEvent} \cup Held]
    BY DEF SInit
  <2>4. view \in [Processes -> [Names -> {None} \cup CallId]] BY <1>3 DEF SInit
  <2> QED BY <1>1, <1>2, <2>1, <2>2, <2>3, <2>4, TypeParts
<1>5. Handled BY DEF SInit, Handled, NoEvent
<1> QED BY <1>4, <1>5 DEF SInv

LEMMA SStep == ASSUME SInv, [SNext]_svars PROVE SInv'
<1>1. CASE UNCHANGED svars BY <1>1 DEF svars, SInv, STypeOK, Handled
<1>2. ASSUME NEW c \in Clients, Storage(c) PROVE SInv'
  <2>1. UNCHANGED <<held, view, phase>>
    BY <1>2 DEF Storage, Create, GuaranteedUpdate, Open, Write, Delete, watcher
  <2> QED BY <1>2, <2>1, StorageStep DEF SInv, Handled
<1>3. ASSUME NEW c \in Clients, NEW op \in {"create", "update", "delete"}, Call(c, op) PROVE SInv'
  BY <1>3, CallStep DEF SInv, Handled, Call, watcher
<1>4. ASSUME NEW p \in Processes, Watcher(p) \/ Exit(p) PROVE SInv'
  BY <1>4, WatcherStep, ExitStep
<1> QED BY <1>1, <1>2, <1>3, <1>4 DEF SNext

LEMMA SInvariance == SSpec => []SInv
BY SInitInv, SStep, PTL DEF SSpec

-----------------------------------------------------------------------------
(* Type correctness of the store, its watchers and its clients: in         *)
(* particular no consumer is ever handed a truncated file.                 *)
THEOREM StorageTypeCorrect == SSpec => []STypeOK
BY SInvariance, PTL DEF SInv

(* With one process on the directory no deletion is missed: os.Remove of a *)
(* tagged file comes after the consumer has taken Deleted, and no event    *)
(* brings the object back in between (watchFile).                          *)
THEOREM RemovedAfterHandledAlways ==
    ASSUME NEW q, Processes = {q} PROVE SSpec => RemovedAfterHandled
<1>1. ASSUME SInv, [SNext]_svars
      PROVE  [\A n \in Names : tagged[n] # None /\ tagged'[n] = None
                 => \A p \in Processes : view'[p][n] = None]_svars
  <2> USE <1>1 DEF SInv
  <2>1. SUFFICES ASSUME NEW n \in Names, tagged[n] # None, tagged'[n] = None
                 PROVE  view'[q][n] = None
    OBVIOUS
  <2>2. CASE Remove(q)
    <3>1. held[q].n = n BY <2>1, <2>2 DEF Remove, STypeOK
    <3> QED BY <2>2, <3>1 DEF Remove, Handled
  <2>3. ASSUME NEW c \in Clients, Write(c) PROVE FALSE
    <3>1. client[c].id \in CallId BY <2>3, CallType DEF Write, STypeOK, Clients1
    <3>2. client[c].id # None BY <3>1 DEF CallId, None
    <3> QED BY <2>1, <2>3, <3>2 DEF Write, STypeOK
  <2>4. ASSUME NEW c \in Clients, Delete(c) PROVE FALSE
    BY <2>1, <2>4 DEF Delete, STypeOK, disk
  <2>5. CASE UNCHANGED tagged BY <2>1, <2>5
  <2> QED
    BY <2>2, <2>3, <2>4, <2>5
    DEF SNext, Storage, Watcher, svars, disk, Call, Create, GuaranteedUpdate, Open,
        GetList, Watch, Receive, Send, Exit
<1> QED BY <1>1, SInvariance, PTL DEF SSpec, RemovedAfterHandled
=============================================================================
