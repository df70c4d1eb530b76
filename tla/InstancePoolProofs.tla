------------------------- MODULE InstancePoolProofs -------------------------
(***************************************************************************)
(* Proofs about InstancePool for any number of KKMachines and hosts, any   *)
(* cache lag and any number of faults.                                     *)
(***************************************************************************)
EXTENDS InstancePool, TLAPS

LEMMA InitType == Init => TypeOK
<1> SUFFICES ASSUME Init PROVE TypeOK
    OBVIOUS
<1>1. NewMachine \in KKMachine /\ NoInstance \in KKInstance
    BY DEF NewMachine, KKMachine, NoInstance, KKInstance
<1> QED
    BY <1>1, NoneAssumption, FaultAssumption DEF Init, TypeOK, Exists, NoInstance

LEMMA MachineForm ==
    ASSUME NEW o \in KKMachine
    PROVE  o.providerID \in Hosts \cup {None} /\ o.finalizer \in BOOLEAN
BY DEF KKMachine

LEMMA WithFinalizer ==
    ASSUME NEW o \in KKMachine PROVE [o EXCEPT !.finalizer = TRUE] \in KKMachine
BY DEF KKMachine

LEMMA WithProviderID ==
    ASSUME NEW o \in KKMachine, NEW h \in Hosts \cup {None}
    PROVE  [o EXCEPT !.providerID = h] \in KKMachine
BY DEF KKMachine

LEMMA Gone ==
    ASSUME NEW o \in KKMachine
    PROVE  /\ [o EXCEPT !.live = FALSE] \in KKMachine
           /\ [o EXCEPT !.deleting = TRUE, !.live = o.finalizer] \in KKMachine
BY DEF KKMachine

LEMMA Absent == NoInstance \in KKInstance /\ NoInstance.owner = None
BY DEF KKInstance, NoInstance

LEMMA Created ==
    ASSUME NEW m \in Machines
    PROVE  /\ [NoInstance EXCEPT !.owner = m] \in KKInstance
           /\ [NoInstance EXCEPT !.owner = m].owner = m
BY DEF KKInstance, NoInstance

LEMMA Marked ==
    ASSUME NEW i \in KKInstance
    PROVE  /\ [i EXCEPT !.deleting = TRUE] \in KKInstance
           /\ [i EXCEPT !.deleting = TRUE].owner = i.owner
           /\ [i EXCEPT !.deleting = TRUE].finalizer = i.finalizer
BY DEF KKInstance

LEMMA Finalized ==
    ASSUME NEW i \in KKInstance
    PROVE  /\ [i EXCEPT !.finalizer = TRUE] \in KKInstance
           /\ [i EXCEPT !.finalizer = TRUE].owner = i.owner
           /\ [i EXCEPT !.finalizer = TRUE].deleting = i.deleting
BY DEF KKInstance

LEMMA CandidateIsHost ==
    ASSUME NEW m \in Machines, NEW i \in DOMAIN Candidates[m]
    PROVE  Candidates[m][i] \in Hosts
<1>1. Candidates[m] \in Seq(Hosts)
    BY CandidatesAssumption
<1> QED
    BY <1>1

(* The objects keep their form, and the mutex is held by the one KKMachine  *)
(* that is about to create a KKInstance.                                    *)
LEMMA TypeStep == TypeOK /\ [Next]_vars => TypeOK'
<1> SUFFICES ASSUME TypeOK, [Next]_vars PROVE TypeOK'
    OBVIOUS
<1> USE NoneAssumption, FaultAssumption
<1> USE DEF TypeOK, Exists, Goto
<1>1. ASSUME NEW m \in Machines, Begin(m) PROVE TypeOK'
    <2>1. copy' \in [Machines -> KKMachine]
        BY <1>1 DEF Begin, Read
    <2>2. /\ pc' \in [Machines -> {"idle", "finalizer", "tryLock", "create", "close", "delete", "drop"}]
          /\ \A k \in Machines : pc'[k] = "create" <=> mutex' = k
        BY <1>1 DEF Begin
    <2> QED
        BY <1>1, <2>1, <2>2 DEF Begin
<1>2. ASSUME NEW m \in Machines, AddFinalizer(m) PROVE TypeOK'
    <2>1. machine' \in [Machines -> KKMachine]
        BY <1>2, WithFinalizer DEF AddFinalizer
    <2>2. copy' \in [Machines -> KKMachine]
        BY <1>2, WithFinalizer DEF AddFinalizer
    <2> QED
        BY <1>2, <2>1, <2>2 DEF AddFinalizer
<1>3. ASSUME NEW m \in Machines, TryLock(m) PROVE TypeOK'
    <2>1. ASSUME ChooseHost(m) PROVE copy' \in [Machines -> KKMachine]
        <3>1. PICK i \in DOMAIN Candidates[m] :
                     copy' = [copy EXCEPT ![m].providerID = Candidates[m][i]]
            BY <2>1 DEF ChooseHost, Unassigned
        <3>2. Candidates[m][i] \in Hosts
            BY CandidateIsHost
        <3>3. [copy[m] EXCEPT !.providerID = Candidates[m][i]] \in KKMachine
            BY <3>2, WithProviderID
        <3> QED
            BY <3>1, <3>3
    <2> QED
        BY <1>3, <2>1 DEF TryLock
<1>4. ASSUME NEW m \in Machines, Create(m) PROVE TypeOK'
    <2>1. PICK o \in KKInstance :
                 /\ o.owner = m
                 /\ UNCHANGED inst \/ inst' = [inst EXCEPT ![copy[m].providerID] = o]
        BY <1>4, Created DEF Create
    <2>2. /\ inst' \in [Hosts -> KKInstance]
          /\ \A h \in Hosts : inst'[h].owner = None => inst'[h] = NoInstance
        BY <2>1
    <2> QED
        BY <1>4, <2>2 DEF Create
<1>5. ASSUME NEW m \in Machines, Close(m) PROVE TypeOK'
    BY <1>5, MachineForm, WithProviderID DEF Close
<1>6. ASSUME NEW m \in Machines, DeleteInstance(m) PROVE TypeOK'
    <2> DEFINE h == copy[m].providerID
    <2>1. \/ UNCHANGED inst
          \/ inst' = [inst EXCEPT ![h] = NoInstance]
          \/ Exists(h) /\ inst' = [inst EXCEPT ![h] = [inst[h] EXCEPT !.deleting = TRUE]]
        BY <1>6 DEF DeleteInstance
    <2>2. /\ inst' \in [Hosts -> KKInstance]
          /\ \A k \in Hosts : inst'[k].owner = None => inst'[k] = NoInstance
        <3> HIDE DEF h
        <3>1. CASE h \notin Hosts
            BY <2>1, <3>1
        <3>2. CASE h \in Hosts
            <4>1. PICK o \in KKInstance :
                         /\ o.owner = None => o = NoInstance
                         /\ UNCHANGED inst \/ inst' = [inst EXCEPT ![h] = o]
                BY <2>1, <3>2, Absent, Marked
            <4> QED
                BY <4>1
        <3> QED
            BY <3>1, <3>2
    <2> QED
        BY <1>6, <2>2 DEF DeleteInstance
<1>7. ASSUME NEW m \in Machines, DropFinalizer(m) PROVE TypeOK'
    BY <1>7, Gone DEF DropFinalizer
<1>8. ASSUME NEW m \in Machines, DeleteMachine(m) PROVE TypeOK'
    <2>1. machine' \in [Machines -> KKMachine]
        BY <1>8, Gone DEF DeleteMachine
    <2> QED
        BY <1>8, <2>1 DEF DeleteMachine
<1>9. ASSUME NEW m \in Machines, SeeMachine(m) PROVE TypeOK'
    BY <1>9 DEF SeeMachine
<1>10. ASSUME NEW h \in Hosts, Bootstrap(h) PROVE TypeOK'
    <2>1. /\ inst' \in [Hosts -> KKInstance]
          /\ \A k \in Hosts : inst'[k].owner = None => inst'[k] = NoInstance
        <3>1. \/ UNCHANGED inst
              \/ inst' = [inst EXCEPT ![h] = [inst[h] EXCEPT !.finalizer = TRUE]] /\ Exists(h)
            BY <1>10 DEF Bootstrap, Owned
        <3> QED
            <4>1. PICK o \in KKInstance :
                         /\ o.owner = None => o = NoInstance
                         /\ UNCHANGED inst \/ inst' = [inst EXCEPT ![h] = o]
                BY <3>1, Finalized, Absent
            <4> QED
                BY <4>1
    <2> QED
        BY <1>10, <2>1 DEF Bootstrap
<1>11. ASSUME NEW h \in Hosts, CleanUp(h) PROVE TypeOK'
    <2>1. UNCHANGED inst \/ inst' = [inst EXCEPT ![h] = NoInstance]
        BY <1>11 DEF CleanUp
    <2>2. /\ inst' \in [Hosts -> KKInstance]
          /\ \A k \in Hosts : inst'[k].owner = None => inst'[k] = NoInstance
        BY <2>1, Absent
    <2> QED
        BY <1>11, <2>2 DEF CleanUp
<1>12. ASSUME NEW h \in Hosts, SeeInstance(h) PROVE TypeOK'
    BY <1>12 DEF SeeInstance
<1>13. ASSUME NEW S \in SUBSET Machines, BreakOff(S) PROVE TypeOK'
    BY <1>13 DEF BreakOff
<1>14. CASE UNCHANGED vars
    BY <1>14 DEF vars
<1> QED
    BY <1>1, <1>2, <1>3, <1>4, <1>5, <1>6, <1>7, <1>8, <1>9, <1>10, <1>11, <1>12, <1>13,
       <1>14 DEF Next, Reconcile

(* The objects keep their form, and the mutex is held by the one KKMachine  *)
(* that is about to create a KKInstance (Reconciler.mutex).                 *)
THEOREM TypeCorrect == Spec => []TypeOK
BY InitType, TypeStep, PTL DEF Spec

-----------------------------------------------------------------------------
(* Hosts are cleaned before they are given back. *)

LEMMA KeptStep == TypeOK /\ DirtyHostIsKept /\ [Next]_vars => DirtyHostIsKept'
<1> SUFFICES ASSUME TypeOK, DirtyHostIsKept, [Next]_vars PROVE DirtyHostIsKept'
    OBVIOUS
<1> USE DEF DirtyHostIsKept, Exists
<1>1. ASSUME UNCHANGED <<inst, dirty>> PROVE DirtyHostIsKept'
    BY <1>1
<1>2. ASSUME NEW m \in Machines, Create(m) PROVE DirtyHostIsKept'
    <2>1. UNCHANGED dirty
        BY <1>2 DEF Create
    <2>2. \A h \in Hosts : inst[h].owner # None => inst'[h] = inst[h]
        BY <1>2 DEF Create, TypeOK
    <2> QED
        BY <2>1, <2>2 DEF TypeOK
<1>3. ASSUME NEW m \in Machines, DeleteInstance(m) PROVE DirtyHostIsKept'
    <2> DEFINE h == copy[m].providerID
    <2>1. /\ UNCHANGED dirty
          /\ \/ UNCHANGED inst
             \/ Exists(h) /\ ~inst[h].finalizer /\ inst' = [inst EXCEPT ![h] = NoInstance]
             \/ Exists(h) /\ inst' = [inst EXCEPT ![h] = [inst[h] EXCEPT !.deleting = TRUE]]
        BY <1>3 DEF DeleteInstance
    <2> HIDE DEF h
    <2>2. ASSUME NEW k \in dirty PROVE inst'[k].owner # None /\ inst'[k].finalizer
        <3>1. k \in Hosts /\ inst[k] \in KKInstance /\ inst[k].owner # None /\ inst[k].finalizer
            BY <2>2 DEF TypeOK
        <3>2. inst'[k] = inst[k] \/ inst'[k] = [inst[k] EXCEPT !.deleting = TRUE]
            BY <2>1, <3>1 DEF TypeOK
        <3> QED
            BY <3>1, <3>2, Marked
    <2> QED
        BY <2>1, <2>2
<1>4. ASSUME NEW h \in Hosts, Bootstrap(h) PROVE DirtyHostIsKept'
    <2>1. CASE /\ inst' = [inst EXCEPT ![h] = [inst[h] EXCEPT !.finalizer = TRUE]]
               /\ UNCHANGED dirty /\ ~inst[h].finalizer
        BY <2>1 DEF TypeOK
    <2>2. CASE UNCHANGED inst /\ dirty' = dirty \cup {h} /\ inst[h].finalizer
        BY <1>4, <2>2 DEF Bootstrap, Owned
    <2> QED
        BY <1>4, <2>1, <2>2 DEF Bootstrap
<1>5. ASSUME NEW h \in Hosts, CleanUp(h) PROVE DirtyHostIsKept'
    BY <1>5 DEF CleanUp, TypeOK
<1>6. ASSUME NEW m \in Machines,
             \/ Begin(m) \/ AddFinalizer(m) \/ TryLock(m) \/ Close(m) \/ DropFinalizer(m)
             \/ DeleteMachine(m) \/ SeeMachine(m)
      PROVE  UNCHANGED <<inst, dirty>>
    BY <1>6 DEF Begin, AddFinalizer, TryLock, Close, DropFinalizer, DeleteMachine, SeeMachine
<1>7. ASSUME NEW h \in Hosts, SeeInstance(h) PROVE UNCHANGED <<inst, dirty>>
    BY <1>7 DEF SeeInstance
<1>8. ASSUME NEW S \in SUBSET Machines, BreakOff(S) PROVE UNCHANGED <<inst, dirty>>
    BY <1>8 DEF BreakOff
<1>9. CASE UNCHANGED vars
    BY <1>1, <1>9 DEF vars
<1> QED
    BY <1>1, <1>2, <1>3, <1>4, <1>5, <1>6, <1>7, <1>8, <1>9 DEF Next, Reconcile

(* No host is given back to the pool before the commands run on it have     *)
(* been undone, whatever the caches return and wherever a reconciliation    *)
(* breaks off (AddFinalizer in reconcileNormal of the KKInstance).          *)
THEOREM DirtyHostIsKeptAlways == Spec => []DirtyHostIsKept
<1>1. Init => DirtyHostIsKept
    BY DEF Init, DirtyHostIsKept
<1> QED
    BY <1>1, KeptStep, TypeCorrect, PTL DEF Spec

-----------------------------------------------------------------------------
(* While no KKMachine is deleted *)

NobodyDeleted == \A m \in Machines : ~machine[m].deleting

(* Nothing is being deleted, and a host recorded, cached or about to be     *)
(* recorded for a KKMachine has the KKInstance this KKMachine has created.  *)
Settled ==
    /\ \A m \in Machines : /\ machine[m].live /\ ~machine[m].deleting
                           /\ ~machineSeen[m].deleting
                           /\ pc[m] \notin {"delete", "drop"}
    /\ \A h \in Hosts : ~inst[h].deleting
    /\ \A m \in Machines :
         /\ \A h \in Hosts : machine[m].providerID = h => inst[h].owner = m
         /\ \A h \in Hosts : machineSeen[m].providerID = h => inst[h].owner = m
         /\ \A h \in Hosts : pc[m] = "close" /\ copy[m].providerID = h => inst[h].owner = m

(* A KKMachine is never taken out of deletion. *)
LEMMA DeletionIsFinal == TypeOK /\ [Next]_vars /\ NobodyDeleted' => NobodyDeleted
<1> SUFFICES ASSUME TypeOK, [Next]_vars, NobodyDeleted',
                    NEW k \in Machines, machine[k].deleting
             PROVE  FALSE
    BY DEF NobodyDeleted
<1> USE DEF TypeOK, NobodyDeleted
<1>1. ASSUME NEW m \in Machines,
             AddFinalizer(m) \/ Close(m) \/ DropFinalizer(m) \/ DeleteMachine(m)
      PROVE  FALSE
    <2>1. machine'[k].deleting
        <3>1. CASE AddFinalizer(m)
            BY <3>1 DEF AddFinalizer, KKMachine
        <3>2. CASE Close(m)
            BY <3>2 DEF Close, KKMachine
        <3>3. CASE DropFinalizer(m)
            BY <3>3 DEF DropFinalizer, KKMachine
        <3>4. CASE DeleteMachine(m)
            BY <3>4 DEF DeleteMachine, KKMachine
        <3> QED
            BY <1>1, <3>1, <3>2, <3>3, <3>4
    <2> QED
        BY <2>1
<1>2. ASSUME NEW m \in Machines,
             Begin(m) \/ TryLock(m) \/ Create(m) \/ DeleteInstance(m) \/ SeeMachine(m)
      PROVE  FALSE
    BY <1>2 DEF Begin, TryLock, Create, DeleteInstance, SeeMachine
<1>3. ASSUME NEW h \in Hosts, Bootstrap(h) \/ CleanUp(h) \/ SeeInstance(h) PROVE FALSE
    BY <1>3 DEF Bootstrap, CleanUp, SeeInstance
<1>4. ASSUME NEW S \in SUBSET Machines, BreakOff(S) PROVE FALSE
    BY <1>4 DEF BreakOff
<1>5. CASE UNCHANGED vars
    BY <1>5 DEF vars
<1> QED
    BY <1>1, <1>2, <1>3, <1>4, <1>5 DEF Next, Reconcile

LEMMA SettledStep ==
    TypeOK /\ (NobodyDeleted => Settled) /\ [Next]_vars => (NobodyDeleted => Settled)'
<1> SUFFICES ASSUME TypeOK, Settled, [Next]_vars, NobodyDeleted' PROVE Settled'
    BY DeletionIsFinal
<1> USE DEF TypeOK, Settled, Exists, Goto
<1>1. ASSUME NEW m \in Machines, Begin(m) PROVE Settled'
    <2>1. ~Read(m).deleting /\ \A h \in Hosts : Read(m).providerID = h => inst[h].owner = m
        BY DEF Read
    <2>2. pc'[m] \notin {"delete", "drop"} /\ copy'[m] = Read(m)
        BY <1>1, <2>1 DEF Begin
    <2> QED
        BY <1>1, <2>1, <2>2 DEF Begin
<1>2. ASSUME NEW m \in Machines, AddFinalizer(m) PROVE Settled'
    <2>1. \A k \in Machines : /\ machine'[k].providerID = machine[k].providerID
                              /\ machine'[k].live = machine[k].live
                              /\ machine'[k].deleting = machine[k].deleting
        BY <1>2 DEF AddFinalizer, KKMachine
    <2>2. /\ UNCHANGED <<machineSeen, inst>>
          /\ \A k \in Machines : k # m => pc'[k] = pc[k] /\ copy'[k] = copy[k]
          /\ pc'[m] \in {"tryLock", "idle"}
        BY <1>2 DEF AddFinalizer
    <2> QED
        BY <2>1, <2>2
<1>3. ASSUME NEW m \in Machines, TryLock(m) PROVE Settled'
    <2>1. /\ UNCHANGED <<machine, machineSeen, inst>>
          /\ \A k \in Machines : k # m => pc'[k] = pc[k] /\ copy'[k] = copy[k]
          /\ pc'[m] \in {"create", "idle"}
        BY <1>3 DEF TryLock, ChooseHost
    <2> QED
        BY <2>1
<1>4. ASSUME NEW m \in Machines, Create(m) PROVE Settled'
    <2> DEFINE n == [NoInstance EXCEPT !.owner = m]
    <2>1. n.owner = m /\ ~n.deleting
        BY DEF NoInstance
    <2> HIDE DEF n
    <2>2. CASE inst' = inst /\ pc' = [pc EXCEPT ![m] = "idle"]
        BY <1>4, <2>2 DEF Create
    <2>3. CASE /\ inst[copy[m].providerID].owner = None
               /\ inst' = [inst EXCEPT ![copy[m].providerID] = n]
               /\ pc' = [pc EXCEPT ![m] = "close"]
        <3>1. \A h \in Hosts : /\ ~inst'[h].deleting
                               /\ inst[h].owner # None => inst'[h].owner = inst[h].owner
                               /\ h = copy[m].providerID => inst'[h].owner = m
            BY <2>1, <2>3
        <3>2. UNCHANGED <<machine, machineSeen, copy>>
            BY <1>4 DEF Create
        <3> QED
            BY <2>3, <3>1, <3>2, NoneAssumption
    <2> QED
        BY <1>4, <2>2, <2>3 DEF Create, n
<1>5. ASSUME NEW m \in Machines, Close(m) PROVE Settled'
    <2>1. /\ \A k \in Machines : k # m => machine'[k] = machine[k] /\ pc'[k] = pc[k]
          /\ machine'[m].providerID = copy[m].providerID
          /\ machine'[m].live = machine[m].live /\ machine'[m].deleting = machine[m].deleting
          /\ pc'[m] = "idle"
          /\ UNCHANGED <<machineSeen, inst, copy>>
        BY <1>5 DEF Close, KKMachine
    <2> QED
        BY <1>5, <2>1 DEF Close
<1>6. ASSUME NEW m \in Machines,
             DeleteInstance(m) \/ DropFinalizer(m) \/ DeleteMachine(m)
      PROVE  FALSE
    <2>1. CASE DeleteMachine(m)
        <3>1. machine'[m].deleting
            BY <2>1 DEF DeleteMachine, KKMachine
        <3> QED
            BY <3>1 DEF NobodyDeleted
    <2> QED
        BY <1>6, <2>1 DEF DeleteInstance, DropFinalizer
<1>7. ASSUME NEW m \in Machines, SeeMachine(m) PROVE Settled'
    BY <1>7 DEF SeeMachine
<1>8. ASSUME NEW h \in Hosts, Bootstrap(h) PROVE Settled'
    <2>1. PICK o : /\ o.owner = inst[h].owner /\ o.deleting = inst[h].deleting
                   /\ UNCHANGED inst \/ inst' = [inst EXCEPT ![h] = o]
        BY <1>8, Finalized DEF Bootstrap
    <2>2. \A k \in Hosts : inst'[k].owner = inst[k].owner /\ inst'[k].deleting = inst[k].deleting
        BY <2>1
    <2> QED
        BY <1>8, <2>2 DEF Bootstrap
<1>9. ASSUME NEW h \in Hosts, CleanUp(h) PROVE FALSE
    BY <1>9 DEF CleanUp
<1>10. ASSUME NEW h \in Hosts, SeeInstance(h) PROVE Settled'
    BY <1>10 DEF SeeInstance
<1>11. ASSUME NEW S \in SUBSET Machines, BreakOff(S) PROVE Settled'
    BY <1>11 DEF BreakOff
<1>12. CASE UNCHANGED vars
    BY <1>12 DEF vars
<1> QED
    BY <1>1, <1>2, <1>3, <1>4, <1>5, <1>6, <1>7, <1>8, <1>9, <1>10, <1>11, <1>12
    DEF Next, Reconcile

(* While no KKMachine is deleted, no two KKMachines record the same host,   *)
(* although each chooses from a stale cache and a choice may be lost before *)
(* it is recorded (createInstance).                                         *)
THEOREM UniqueProviderIDAlways == Spec => []UniqueProviderID
<1>1. Init => Settled
    BY NoneAssumption DEF Init, Settled, NewMachine, NoInstance
<1>2. TypeOK /\ (NobodyDeleted => Settled) => UniqueProviderID
    <2> SUFFICES ASSUME TypeOK, Settled,
                        NEW m1 \in Machines, NEW m2 \in Machines,
                        machine[m1].providerID # None,
                        machine[m1].providerID = machine[m2].providerID
                 PROVE  m1 = m2
        BY DEF UniqueProviderID, NobodyDeleted
    <2>1. machine[m1].providerID \in Hosts
        BY MachineForm DEF TypeOK
    <2> QED
        BY <2>1 DEF Settled
<1> QED
    BY <1>1, <1>2, TypeCorrect, SettledStep, PTL DEF Spec

-----------------------------------------------------------------------------
(* Where the caches keep up and nothing fails *)

(* A KKInstance is recorded by its KKMachine, or about to be; and the       *)
(* KKMachine has its finalizer, without which it would go at once.  One     *)
(* that looks for a host, or is about to drop its finalizer, has none.      *)
Backed(m) ==
    /\ \A h \in Hosts : inst[h].owner = m =>
         /\ machine[m].live /\ machine[m].finalizer
         /\ machine[m].providerID = h \/ (pc[m] = "close" /\ copy[m].providerID = h)
         /\ pc[m] \notin {"finalizer", "tryLock", "create", "drop"}
    /\ machine[m].providerID # None => machine[m].finalizer
    /\ pc[m] \in {"tryLock", "create", "close"} => machine[m].live /\ machine[m].finalizer
    /\ pc[m] \in {"finalizer", "tryLock", "create"} => machine[m].providerID = None
    /\ pc[m] = "close" => machine[m].providerID \in {None, copy[m].providerID}

Calm == lag = {} /\ faults = 0

(* What a KKMachine has is changed by its own reconciliation only: the      *)
(* others may at most take its KKInstance away.                             *)
LEMMA BackedKept ==
    ASSUME NEW m, Backed(m), machine'[m] = machine[m], pc'[m] = pc[m], copy'[m] = copy[m],
           \A h \in Hosts : inst'[h].owner = m => inst[h].owner = m
    PROVE  Backed(m)'
BY DEF Backed

LEMMA BackedStep ==
    ASSUME TypeOK, \A m \in Machines : Backed(m), lag = {}, [Next]_vars, faults' = faults
    PROVE  \A m \in Machines : Backed(m)'
<1> USE NoneAssumption
<1> USE DEF TypeOK, Exists, Goto
<1>1. ASSUME NEW m \in Machines, Begin(m) PROVE \A k \in Machines : Backed(k)'
    <2>1. /\ UNCHANGED <<machine, inst>> /\ pc[m] = "idle" /\ machine[m].live
          /\ copy'[m] = machine[m]
          /\ \A k \in Machines : k # m => pc'[k] = pc[k] /\ copy'[k] = copy[k]
        BY <1>1 DEF Begin, Read
    <2>2. \A h \in Hosts : inst[h].owner = m => machine[m].providerID = h /\ h \in Listed
        BY <2>1 DEF Backed, Listed
    <2>3. /\ pc'[m] = "drop" => machine[m].providerID \notin Listed
          /\ pc'[m] = "close" => machine[m].providerID \in Listed
          /\ pc'[m] \in {"finalizer", "tryLock"} => machine[m].providerID = None
          /\ pc'[m] = "tryLock" => machine[m].finalizer
          /\ pc'[m] # "create"
        BY <1>1 DEF Begin, Read
    <2>4. Listed \subseteq Hosts
        BY DEF Listed
    <2>5. Backed(m)'
        BY <2>1, <2>2, <2>3, <2>4 DEF Backed
    <2> QED
        BY <2>1, <2>5, BackedKept
<1>2. ASSUME NEW m \in Machines, AddFinalizer(m) PROVE \A k \in Machines : Backed(k)'
    <2>1. /\ pc[m] = "finalizer" /\ UNCHANGED inst
          /\ \A k \in Machines : /\ k # m => /\ machine'[k] = machine[k]
                                             /\ pc'[k] = pc[k] /\ copy'[k] = copy[k]
        BY <1>2 DEF AddFinalizer
    <2>2. /\ machine'[m].providerID = machine[m].providerID
          /\ \/ pc'[m] = "tryLock" /\ machine'[m].live /\ machine'[m].finalizer
             \/ pc'[m] = "idle" /\ machine'[m] = machine[m]
        <3>1. CASE machine[m].live /\ ~machine[m].deleting
            <4>1. machine'[m] = [machine[m] EXCEPT !.finalizer = TRUE] /\ pc'[m] = "tryLock"
                BY <1>2, <3>1 DEF AddFinalizer
            <4>2. PICK o \in KKMachine : o = machine[m]
                OBVIOUS
            <4>3. /\ [o EXCEPT !.finalizer = TRUE].finalizer
                  /\ [o EXCEPT !.finalizer = TRUE].live = o.live
                  /\ [o EXCEPT !.finalizer = TRUE].providerID = o.providerID
                BY DEF KKMachine
            <4> QED
                BY <3>1, <4>1, <4>2, <4>3
        <3>2. CASE ~(machine[m].live /\ ~machine[m].deleting)
            BY <1>2, <3>2 DEF AddFinalizer
        <3> QED
            BY <3>1, <3>2
    <2>3. Backed(m)'
        BY <2>1, <2>2 DEF Backed
    <2> QED
        BY <2>1, <2>3, BackedKept
<1>3. ASSUME NEW m \in Machines, TryLock(m) PROVE \A k \in Machines : Backed(k)'
    <2>1. /\ pc[m] = "tryLock" /\ pc'[m] \in {"create", "idle"} /\ UNCHANGED <<machine, inst>>
          /\ \A k \in Machines : k # m => pc'[k] = pc[k] /\ copy'[k] = copy[k]
        BY <1>3 DEF TryLock, ChooseHost
    <2>2. Backed(m)'
        BY <2>1 DEF Backed
    <2> QED
        BY <2>1, <2>2, BackedKept
<1>4. ASSUME NEW m \in Machines, Create(m) PROVE \A k \in Machines : Backed(k)'
    <2>1. /\ pc[m] = "create" /\ UNCHANGED <<machine, copy>>
          /\ \A k \in Machines : k # m => pc'[k] = pc[k]
        BY <1>4 DEF Create
    <2>2. \/ pc'[m] = "idle" /\ UNCHANGED inst
          \/ /\ pc'[m] = "close"
             /\ \A h \in Hosts : IF h = copy[m].providerID THEN inst'[h].owner = m
                                                           ELSE inst'[h] = inst[h]
        BY <1>4, Created DEF Create
    <2>3. Backed(m)'
        BY <2>1, <2>2 DEF Backed
    <2>4. ASSUME NEW k \in Machines, k # m PROVE Backed(k)'
        BY <2>1, <2>2, <2>4, BackedKept
    <2> QED
        BY <2>3, <2>4
<1>5. ASSUME NEW m \in Machines, Close(m) PROVE \A k \in Machines : Backed(k)'
    <2>1. /\ pc[m] = "close" /\ pc'[m] = "idle" /\ UNCHANGED <<inst, copy>>
          /\ \A k \in Machines : k # m => machine'[k] = machine[k] /\ pc'[k] = pc[k]
        BY <1>5 DEF Close
    <2>2. machine[m].live
        BY <2>1 DEF Backed
    <2>3. /\ machine'[m].providerID = copy[m].providerID
          /\ machine'[m].live = machine[m].live /\ machine'[m].finalizer = machine[m].finalizer
        <3>1. machine'[m] = [machine[m] EXCEPT !.providerID = copy[m].providerID]
            BY <1>5, <2>2 DEF Close
        <3>2. PICK o \in KKMachine, h \in Hosts \cup {None} :
                     o = machine[m] /\ h = copy[m].providerID
            BY MachineForm
        <3>3. /\ [o EXCEPT !.providerID = h].providerID = h
              /\ [o EXCEPT !.providerID = h].live = o.live
              /\ [o EXCEPT !.providerID = h].finalizer = o.finalizer
            BY DEF KKMachine
        <3> QED
            BY <3>1, <3>2, <3>3
    <2>4. Backed(m)'
        BY <2>1, <2>3 DEF Backed
    <2> QED
        BY <2>1, <2>4, BackedKept
<1>6. ASSUME NEW m \in Machines, DeleteInstance(m) PROVE \A k \in Machines : Backed(k)'
    <2> DEFINE h == copy[m].providerID
    <2>1. /\ pc[m] = "delete" /\ pc'[m] = "idle" /\ UNCHANGED <<machine, copy>>
          /\ \A k \in Machines : k # m => pc'[k] = pc[k]
          /\ \/ UNCHANGED inst
             \/ inst' = [inst EXCEPT ![h] = NoInstance]
             \/ Exists(h) /\ inst' = [inst EXCEPT ![h] = [inst[h] EXCEPT !.deleting = TRUE]]
        BY <1>6 DEF DeleteInstance
    <2> HIDE DEF h
    <2>2. \A g \in Hosts : inst'[g].owner = inst[g].owner \/ inst'[g].owner = None
        <3> TAKE g \in Hosts
        <3>1. /\ inst[g] \in KKInstance
              /\ inst'[g] \in {inst[g], NoInstance, [inst[g] EXCEPT !.deleting = TRUE]}
            BY <2>1
        <3> QED
            BY <3>1, Marked, Absent
    <2>3. Backed(m)'
        BY <2>1, <2>2 DEF Backed
    <2>4. ASSUME NEW k \in Machines, k # m PROVE Backed(k)'
        BY <2>1, <2>2, <2>4, BackedKept
    <2> QED
        BY <2>3, <2>4
<1>7. ASSUME NEW m \in Machines, DropFinalizer(m) PROVE \A k \in Machines : Backed(k)'
    <2>1. /\ pc[m] = "drop" /\ pc'[m] = "idle" /\ UNCHANGED <<inst, copy>>
          /\ \A k \in Machines : k # m => machine'[k] = machine[k] /\ pc'[k] = pc[k]
        BY <1>7 DEF DropFinalizer
    <2>2. /\ machine'[m].providerID = machine[m].providerID
          /\ machine'[m].finalizer = machine[m].finalizer
        BY <1>7 DEF DropFinalizer, KKMachine
    <2>3. Backed(m)'
        BY <2>1, <2>2 DEF Backed
    <2> QED
        BY <2>1, <2>3, BackedKept
<1>8. ASSUME NEW m \in Machines, DeleteMachine(m) PROVE \A k \in Machines : Backed(k)'
    <2>1. /\ UNCHANGED <<inst, copy, pc>>
          /\ \A k \in Machines : k # m => machine'[k] = machine[k]
        BY <1>8 DEF DeleteMachine
    <2>2. /\ machine'[m].providerID = machine[m].providerID
          /\ machine'[m].finalizer = machine[m].finalizer
          /\ machine'[m].live = machine[m].finalizer
        BY <1>8 DEF DeleteMachine, KKMachine
    <2>3. Backed(m)'
        BY <2>1, <2>2 DEF Backed
    <2> QED
        BY <2>1, <2>3, BackedKept
<1>9. ASSUME NEW h \in Hosts, Bootstrap(h) \/ CleanUp(h) PROVE \A k \in Machines : Backed(k)'
    <2>1. /\ UNCHANGED <<machine, copy, pc>>
          /\ \/ UNCHANGED inst
             \/ inst' = [inst EXCEPT ![h] = NoInstance]
             \/ inst' = [inst EXCEPT ![h] = [inst[h] EXCEPT !.finalizer = TRUE]]
        BY <1>9 DEF Bootstrap, CleanUp
    <2>2. \A g \in Hosts : inst'[g].owner = inst[g].owner \/ inst'[g].owner = None
        <3> TAKE g \in Hosts
        <3>1. /\ inst[g] \in KKInstance
              /\ inst'[g] \in {inst[g], NoInstance, [inst[g] EXCEPT !.finalizer = TRUE]}
            BY <2>1
        <3> QED
            BY <3>1, Finalized, Absent
    <2>3. ASSUME NEW k \in Machines PROVE Backed(k)'
        BY <2>1, <2>2, <2>3, BackedKept
    <2> QED
        BY <2>3
<1>10. CASE \/ \E m \in Machines : SeeMachine(m)
            \/ \E h \in Hosts : SeeInstance(h)
            \/ \E S \in SUBSET Machines : BreakOff(S)
    BY <1>10, FaultAssumption DEF SeeMachine, SeeInstance, BreakOff
<1>11. CASE UNCHANGED vars
    BY <1>11, BackedKept DEF vars
<1> QED
    BY <1>1, <1>2, <1>3, <1>4, <1>5, <1>6, <1>7, <1>8, <1>9, <1>10, <1>11 DEF Next, Reconcile

LEMMA FaultsGrow == TypeOK /\ [Next]_vars /\ Calm' => Calm /\ faults' = faults
<1> SUFFICES ASSUME TypeOK, [Next]_vars, Calm' PROVE Calm /\ faults' = faults
    OBVIOUS
<1>1. lag' = lag
    BY DEF Next, vars
<1>2. ASSUME NEW S \in SUBSET Machines, BreakOff(S) PROVE FALSE
    BY <1>2, FaultAssumption DEF BreakOff, Calm, TypeOK
<1>3. faults' = faults
    BY <1>2 DEF Next, Reconcile, vars, Begin, AddFinalizer, TryLock, Create, Close, DeleteInstance,
                DropFinalizer, DeleteMachine, SeeMachine, Bootstrap, CleanUp, SeeInstance
<1> QED
    BY <1>1, <1>3 DEF Calm

(* While caches keep up and nothing has failed, a KKInstance does not       *)
(* outlive its KKMachine: the finalizer is saved before the KKInstance is   *)
(* created, and removed only when the KKInstance is gone (reconcileNormal,  *)
(* reconcileDelete).                                                        *)
THEOREM NotOrphanedAlways == Spec => []NotOrphaned
<1> DEFINE I == Calm => \A m \in Machines : Backed(m)
<1>1. Init => I
    <2> SUFFICES ASSUME Init, NEW m \in Machines PROVE Backed(m)
        OBVIOUS
    <2>1. /\ machine[m] = NewMachine /\ pc[m] = "idle"
          /\ \A h \in Hosts : inst[h] = NoInstance
        BY DEF Init
    <2>2. NewMachine.providerID = None /\ NoInstance.owner # m
        BY NoneAssumption DEF NewMachine, NoInstance
    <2> QED
        BY <2>1, <2>2 DEF Backed
<1>2. TypeOK /\ I /\ [Next]_vars => I'
    BY FaultsGrow, BackedStep DEF Calm
<1>3. TypeOK /\ I => NotOrphaned
    <2> SUFFICES ASSUME TypeOK, I, Calm, NEW h \in Hosts, Exists(h)
                 PROVE  machine[inst[h].owner].live
        BY DEF NotOrphaned, Calm
    <2>1. inst[h].owner \in Machines
        BY DEF TypeOK, KKInstance, Exists
    <2> QED
        BY <2>1 DEF Backed
<1> QED
    BY <1>1, <1>2, <1>3, TypeCorrect, PTL DEF Spec
=============================================================================
