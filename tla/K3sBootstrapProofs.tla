------------------------- MODULE K3sBootstrapProofs -------------------------
(***************************************************************************)
(* Proofs about K3sBootstrap for any number of machines, tokens and        *)
(* restarts: what the init lock guarantees.                                *)
(***************************************************************************)
EXTENDS K3sBootstrap, TLAPS

(* No machine has been deleted and the control plane is not initialized. *)
Undisturbed == machines = Machine /\ ~initialized

(* What a reconcile's step says about the lock and the token: past Lock and *)
(* on the way through Unlock the machine holds the lock, and what it has    *)
(* generated is what is stored.                                             *)
Holds(m) ==
    /\ pc[m] \in {"token", "store", "unlock", "delete", "patch"} => lock = m
    /\ pc[m] = "holder" => holder[m] \in Machine
    /\ pc[m] # "join"
    /\ pc[m] = "store" => mine[m] = token
    /\ pc[m] = "patch" => data[m].kind = "init" /\ data[m].token = token
    /\ pc[m] \in {"unlock", "delete"} => after[m] = "idle"
    /\ ready[m] => /\ lock = m
                   /\ data[m].kind = "init"
                   /\ data[m].token = token

IInv ==
    /\ TypeOK
    /\ \A m \in Machine : ready[m] => pc[m] = "idle"
    /\ Undisturbed => \A m \in Machine : Holds(m)

-----------------------------------------------------------------------------
(* The initial state satisfies the invariant. *)
LEMMA InitIInv == Init => IInv
<1>. SUFFICES ASSUME Init PROVE IInv
  OBVIOUS
<1>1. TypeOK
  BY DEF Init, TypeOK, Steps, Data
<1>2. \A m \in Machine : ready[m] => pc[m] = "idle"
  BY DEF Init
<1>3. \A m \in Machine : Holds(m)
  BY DEF Init, Holds
<1>4. QED
  BY <1>1, <1>2, <1>3 DEF IInv

(* The steps keep the state well typed. *)
LEMMA NextTypeOK == TypeOK /\ Next => TypeOK'
<1>. SUFFICES ASSUME TypeOK, Next PROVE TypeOK'
  OBVIOUS
<1>. USE MachineAssumption, BoundAssumption DEF TypeOK, Steps, Goto, CallUnlock, api, local
<1>1. ASSUME NEW m \in Machine, Reconcile(m) \/ GiveUp(m) \/ InitFails(m) \/ HolderGet(m)
      PROVE  TypeOK'
  BY <1>1 DEF Reconcile, GiveUp, InitFails, HolderGet
<1>2. ASSUME NEW m \in Machine, StoreToken(m) PROVE TypeOK'
  BY <1>2 DEF StoreToken
<1>3. ASSUME NEW m \in Machine, StoreInitData(m) \/ Join(m) \/ JoinFails(m) PROVE TypeOK'
  <2>1. \A k \in {"init", "join"}, t \in Nat : [kind |-> k, token |-> t] \in Data
    BY DEF Data
  <2>2. mine[m] \in Nat /\ Discovered(m) \in Nat
    BY DEF Discovered
  <2>3. data' \in [Machine -> Data]
    BY <1>3, <2>1, <2>2 DEF StoreInitData, Join, JoinFails, StoreJoinData
  <2>4. QED
    BY <1>3, <2>2, <2>3 DEF StoreInitData, Join, JoinFails
<1>4. ASSUME NEW m \in Machine, Patch(m) PROVE TypeOK'
  <2>1. data[m].token \in Nat
    BY DEF Data
  <2>2. QED
    BY <1>4, <2>1 DEF Patch
<1>5. ASSUME NEW m \in Machine, LockGet(m) \/ LockCreate(m) PROVE TypeOK'
  BY <1>5 DEF LockGet, LockCreate
<1>6. ASSUME NEW m \in Machine, UnlockGet(m) \/ UnlockDelete(m) PROVE TypeOK'
  <2>1. after[m] \in Steps
    BY <1>6
  <2>2. QED
    BY <1>6, <2>1 DEF UnlockGet, UnlockDelete
<1>7. ASSUME NEW m \in Machine, DeleteMachine(m) PROVE TypeOK'
  BY <1>7 DEF DeleteMachine
<1>8. CASE ControlPlaneUp
  BY <1>8 DEF ControlPlaneUp
<1>9. CASE Restart
  <2>1. pc' \in [Machine -> Steps]
    BY <1>9 DEF Restart
  <2>2. QED
    BY <1>9, <2>1 DEF Restart
<1>10. QED
  BY <1>1, <1>2, <1>3, <1>4, <1>5, <1>6, <1>7, <1>8, <1>9 DEF Next, Progress, Failure

(* A config that is Ready is not being reconciled. *)
LEMMA NextReadyIdle ==
    ASSUME IInv, Next
    PROVE  \A m \in Machine : ready'[m] => pc'[m] = "idle"
<1>. USE DEF IInv, TypeOK, Goto, CallUnlock, api
<1>1. ASSUME NEW m \in Machine,
             Progress(m) \/ Failure(m) \/ DeleteMachine(m),
             NEW n \in Machine, ready'[n]
      PROVE  pc'[n] = "idle"
  <2>1. CASE Reconcile(m) \/ Failure(m) \/ StoreToken(m) \/ StoreInitData(m) \/ Join(m)
    BY <1>1, <2>1 DEF Reconcile, Failure, GiveUp, InitFails, JoinFails, StoreToken, StoreInitData, Join
  <2>2. CASE Patch(m) \/ DeleteMachine(m)
    BY <1>1, <2>2 DEF Patch, DeleteMachine
  <2>3. CASE LockGet(m) \/ HolderGet(m) \/ LockCreate(m) \/ UnlockGet(m) \/ UnlockDelete(m)
    BY <1>1, <2>3 DEF LockGet, HolderGet, LockCreate, UnlockGet, UnlockDelete
  <2>4. QED
    BY <1>1, <2>1, <2>2, <2>3 DEF Progress
<1>2. CASE ControlPlaneUp \/ Restart
  BY <1>2 DEF ControlPlaneUp, Restart
<1>3. QED
  BY <1>1, <1>2 DEF Next

(* A step that leaves the cluster undisturbed started from an undisturbed   *)
(* cluster: machines do not come back, nor is the condition withdrawn.      *)
LEMMA UndisturbedBefore == ASSUME IInv, Next, Undisturbed' PROVE Undisturbed
<1>1. machines' \subseteq machines /\ (initialized => initialized')
  BY DEF Next, Progress, Failure, Reconcile, GiveUp, InitFails, JoinFails,
         StoreToken, StoreInitData, Join, Patch,
         LockGet, HolderGet, LockCreate, UnlockGet, UnlockDelete, ControlPlaneUp,
         DeleteMachine, Restart, api
<1>2. QED
  BY <1>1 DEF Undisturbed, IInv, TypeOK

(* A step of one reconcile, or of the environment, keeps every machine's    *)
(* claims about the lock and the token.                                     *)
LEMMA NextHolds ==
    ASSUME IInv, Next, Undisturbed, Undisturbed', NEW n \in Machine
    PROVE  Holds(n)'
<1>. USE DEF IInv, TypeOK, Goto, CallUnlock, api, local
<1>0. None \notin Machine /\ \A m \in Machine : Holds(m)
  BY MachineAssumption
<1>1. ASSUME NEW m \in Machine, Reconcile(m) PROVE Holds(n)'
  BY <1>1, <1>0 DEF Reconcile, Holds, Undisturbed
<1>2. ASSUME NEW m \in Machine, GiveUp(m) PROVE Holds(n)'
  BY <1>2, <1>0 DEF GiveUp, Holds
<1>3. ASSUME NEW m \in Machine, InitFails(m) PROVE Holds(n)'
  BY <1>3, <1>0 DEF InitFails, Holds
<1>4. ASSUME NEW m \in Machine, StoreToken(m) PROVE Holds(n)'
  BY <1>4, <1>0 DEF StoreToken, Holds
<1>5. ASSUME NEW m \in Machine, StoreInitData(m) PROVE Holds(n)'
  BY <1>5, <1>0 DEF StoreInitData, Holds
<1>6. ASSUME NEW m \in Machine, Join(m) PROVE Holds(n)'
  BY <1>6, <1>0 DEF Join, Holds, Undisturbed
<1>6a. ASSUME NEW m \in Machine, JoinFails(m) PROVE Holds(n)'
  BY <1>6a, <1>0 DEF JoinFails, Holds
<1>7. ASSUME NEW m \in Machine, Patch(m) PROVE Holds(n)'
  BY <1>7, <1>0 DEF Patch, Holds
<1>8. ASSUME NEW m \in Machine, LockGet(m) PROVE Holds(n)'
  BY <1>8, <1>0 DEF LockGet, Holds
<1>9. ASSUME NEW m \in Machine, HolderGet(m) PROVE Holds(n)'
  BY <1>9, <1>0 DEF HolderGet, Holds, Undisturbed
<1>10. ASSUME NEW m \in Machine, LockCreate(m) PROVE Holds(n)'
  BY <1>10, <1>0 DEF LockCreate, Holds
<1>11. ASSUME NEW m \in Machine, UnlockGet(m) PROVE Holds(n)'
  BY <1>11, <1>0 DEF UnlockGet, Holds
<1>12. ASSUME NEW m \in Machine, UnlockDelete(m) PROVE Holds(n)'
  BY <1>12, <1>0 DEF UnlockDelete, Holds
<1>13. ASSUME NEW m \in Machine, DeleteMachine(m) PROVE Holds(n)'
  BY <1>13, <1>0 DEF DeleteMachine, Holds
<1>14. CASE ControlPlaneUp \/ Restart
  BY <1>14, <1>0 DEF ControlPlaneUp, Restart, Holds, Undisturbed
<1>15. QED
  BY <1>1, <1>2, <1>3, <1>4, <1>5, <1>6, <1>7, <1>8, <1>9, <1>10, <1>11, <1>12, <1>13, <1>14, <1>6a DEF Next, Progress, Failure

(* The inductive invariant holds in every reachable state. *)
THEOREM Invariance == Spec => []IInv
<1>1. Init => IInv
  BY InitIInv
<1>2. IInv /\ [Next]_vars => IInv'
  <2>. SUFFICES ASSUME IInv, [Next]_vars PROVE IInv'
    OBVIOUS
  <2>1. CASE Next
    <3>1. TypeOK'
      BY <2>1, NextTypeOK DEF IInv
    <3>2. \A m \in Machine : ready'[m] => pc'[m] = "idle"
      BY <2>1, NextReadyIdle
    <3>3. Undisturbed' => \A m \in Machine : Holds(m)'
      BY <2>1, UndisturbedBefore, NextHolds
    <3>4. QED
      BY <3>1, <3>2, <3>3 DEF IInv
  <2>2. CASE UNCHANGED vars
    BY <2>2 DEF IInv, TypeOK, Undisturbed, Holds, vars
  <2>3. QED
    BY <2>1, <2>2
<1>3. QED
  BY <1>1, <1>2, PTL DEF Spec

(* The state of the K3sConfig controller is well typed.                     *)
THEOREM TypeCorrect == Spec => []TypeOK
<1>1. IInv => TypeOK
  BY DEF IInv
<1>2. QED
  BY <1>1, Invariance, PTL

(* The lock keeps its promise while nothing releases it behind the holder's *)
(* back: ControlPlaneInitMutex admits one machine only.                     *)
THEOREM LockIsExclusive == Spec => []FirstAndOnlyWhileUndisturbed
<1>1. IInv => FirstAndOnlyWhileUndisturbed
  BY DEF IInv, Undisturbed, Holds, FirstAndOnlyWhileUndisturbed, InitData
<1>2. QED
  BY <1>1, Invariance, PTL

(* Until then the token Secret is the one of the first control plane.       *)
THEOREM TokenAgrees == Spec => []TokenIsTheFirstNodes
<1>1. IInv => TokenIsTheFirstNodes
  BY DEF IInv, Undisturbed, Holds, TokenIsTheFirstNodes, InitData
<1>2. QED
  BY <1>1, Invariance, PTL

(* Bootstrap data a node may have used never changes (Reconcile leaves a    *)
(* config that is Ready alone).                                             *)
THEOREM DataIsFinal == Spec => ReadyDataIsFinal
<1>1. ASSUME IInv, [Next]_vars, NEW n \in Machine, ready[n]
      PROVE  ready'[n] /\ data'[n] = data[n]
  <2>. USE DEF IInv, TypeOK, api
  <2>1. ASSUME NEW m \in Machine, StoreInitData(m) \/ Join(m) \/ JoinFails(m)
        PROVE  ready'[n] /\ data'[n] = data[n]
    BY <1>1, <2>1 DEF StoreInitData, Join, JoinFails, StoreJoinData
  <2>2. ASSUME NEW m \in Machine, Patch(m) PROVE ready'[n] /\ data'[n] = data[n]
    BY <1>1, <2>2 DEF Patch
  <2>3. ASSUME NEW m \in Machine, \/ Reconcile(m) \/ GiveUp(m) \/ InitFails(m) \/ StoreToken(m)
                                  \/ LockGet(m) \/ HolderGet(m) \/ LockCreate(m)
                                  \/ UnlockGet(m) \/ UnlockDelete(m) \/ DeleteMachine(m)
        PROVE  ready'[n] /\ data'[n] = data[n]
    BY <1>1, <2>3 DEF Reconcile, GiveUp, InitFails, StoreToken, LockGet, HolderGet, LockCreate,
                      UnlockGet, UnlockDelete, DeleteMachine
  <2>4. CASE ControlPlaneUp \/ Restart \/ UNCHANGED vars
    BY <1>1, <2>4 DEF ControlPlaneUp, Restart, vars
  <2>5. QED
    BY <1>1, <2>1, <2>2, <2>3, <2>4 DEF Next, Progress, Failure
<1>2. IInv /\ [Next]_vars => [\A m \in Machine : ready[m] => ready'[m] /\ data'[m] = data[m]]_vars
  BY <1>1
<1>3. QED
  BY <1>2, Invariance, PTL DEF Spec, ReadyDataIsFinal

(* A reconcile on its way to join has seen the control plane initialized. *)
Joining(m) == pc[m] = "join" \/ (pc[m] \in {"unlock", "delete"} /\ after[m] = "join")

JInv == TypeOK /\ JoinAfterInit /\ \A m \in Machine : Joining(m) => initialized

(* Steps other than Join keep JInv: they write no join data, and only       *)
(* Reconcile, which tests the condition, sends a machine on its way.        *)
LEMMA NextJInv == ASSUME JInv, Next PROVE JInv'
<1>. USE DEF JInv, TypeOK, Goto, CallUnlock, api, local
<1>1. TypeOK'
  BY NextTypeOK
<1>2. JoinAfterInit'
  <2>1. ASSUME NEW m \in Machine, Join(m) \/ JoinFails(m) PROVE JoinAfterInit'
    <3>1. initialized /\ initialized' = initialized
      BY <2>1 DEF Join, JoinFails, Joining
    <3>2. \A n \in Machine : \/ data'[n] = data[n]
                             \/ data'[n].kind = "join" /\ data'[n].token # 0
      BY <2>1 DEF Join, JoinFails, StoreJoinData
    <3>3. QED
      BY <3>1, <3>2 DEF JoinAfterInit
  <2>2. ASSUME NEW m \in Machine, StoreInitData(m) PROVE JoinAfterInit'
    <3>1. initialized' = initialized
      BY <2>2 DEF StoreInitData
    <3>2. \A n \in Machine : data'[n] = data[n] \/ data'[n].kind = "init"
      BY <2>2 DEF StoreInitData
    <3>3. QED
      BY <3>1, <3>2 DEF JoinAfterInit
  <2>3. CASE UNCHANGED data /\ (initialized => initialized')
    BY <2>3 DEF JoinAfterInit
  <2>4. QED
    BY <2>1, <2>2, <2>3
    DEF Next, Progress, Failure, Reconcile, GiveUp, InitFails, StoreToken, Patch, LockGet, HolderGet,
        LockCreate, UnlockGet, UnlockDelete, ControlPlaneUp, DeleteMachine, Restart
<1>3. ASSUME NEW n \in Machine, Joining(n)' PROVE initialized'
  <2>1. ASSUME NEW m \in Machine, Reconcile(m) \/ Failure(m) \/ HolderGet(m)
        PROVE  initialized'
    BY <1>3, <2>1 DEF Joining, Reconcile, Failure, GiveUp, InitFails, JoinFails, HolderGet
  <2>2. ASSUME NEW m \in Machine, StoreToken(m) \/ StoreInitData(m) \/ Join(m) \/ Patch(m)
        PROVE  initialized'
    BY <1>3, <2>2 DEF Joining, StoreToken, StoreInitData, Join, Patch
  <2>3. ASSUME NEW m \in Machine, LockGet(m) \/ LockCreate(m) \/ DeleteMachine(m)
        PROVE  initialized'
    BY <1>3, <2>3 DEF Joining, LockGet, LockCreate, DeleteMachine
  <2>4. ASSUME NEW m \in Machine, UnlockGet(m) \/ UnlockDelete(m) PROVE initialized'
    BY <1>3, <2>4 DEF Joining, UnlockGet, UnlockDelete
  <2>5. CASE ControlPlaneUp \/ Restart
    BY <1>3, <2>5 DEF Joining, ControlPlaneUp, Restart
  <2>6. QED
    BY <2>1, <2>2, <2>3, <2>4, <2>5 DEF Next, Progress, Failure
<1>4. QED
  BY <1>1, <1>2, <1>3

(* No machine is told to join a control plane that is not initialized, in   *)
(* any interleaving of reconciles, deletions and restarts.                  *)
THEOREM JoinsAreLate == Spec => []JoinAfterInit
<1>1. Init => JInv
  <2>. SUFFICES ASSUME Init PROVE JInv
    OBVIOUS
  <2>1. TypeOK
    BY InitIInv DEF IInv
  <2>2. QED
    BY <2>1 DEF Init, JInv, Joining, JoinAfterInit
<1>2. JInv /\ [Next]_vars => JInv'
  <2>1. ASSUME JInv, UNCHANGED vars PROVE JInv'
    BY <2>1 DEF JInv, TypeOK, Joining, JoinAfterInit, vars
  <2>2. QED
    BY <2>1, NextJInv
<1>3. JInv => JoinAfterInit
  BY DEF JInv
<1>4. QED
  BY <1>1, <1>2, <1>3, PTL DEF Spec

=============================================================================
