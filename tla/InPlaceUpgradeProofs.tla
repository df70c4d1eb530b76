------------------------ MODULE InPlaceUpgradeProofs ------------------------
(***************************************************************************)
(* Proofs about the KKInstance controller's part of the in-place upgrade,  *)
(* for any number of control planes and workers, any cache lag and any     *)
(* number of faults: its order, and the lock where its ConfigMap cannot be *)
(* deleted.                                                                *)
(***************************************************************************)
EXTENDS InPlaceUpgrade, FiniteSetTheorems, TLAPS

Upgraded == {n \in Node : config[n] = "new"}
Restarted == {n \in Node : kubelet[n] = "new"}

(* What the cached versions, the program counters and the kubelets entail:  *)
(* the strengthening that makes the order inductive.                        *)
Behind ==
    /\ \A n \in Node : seen[n] = "new" => spec[n] = "new"
    /\ \A n \in applied : config[n] = "new"
    /\ \A n \in Node : pc[n] \in {"patchFirst", "patch"} => config[n] = "new"
    /\ \A w \in Workers : pc[w] \in {"node", "patch"} => \A c \in CP : spec[c] = "new"
    /\ \A n \in Node : kubelet[n] = "new" => \A m \in CP \cup {n} : config[m] = "new"

Order == FinishesLast /\ ApplyBeforeNode /\ Behind

(* Type correctness is inductive by itself. *)
LEMMA InitType == Init => TypeOK
BY RolesAssumption, FaultAssumption DEF Init, TypeOK, Node, Version, Steps, None, Finishing

LEMMA TypeStep == TypeOK /\ [Next]_vars => TypeOK'
<1> SUFFICES ASSUME TypeOK, [Next]_vars PROVE TypeOK'
    OBVIOUS
<1> USE RolesAssumption, FaultAssumption
<1> USE DEF TypeOK, Version, Steps, Finishing, Goto, Fault, machines, locks, host, conds
<1>1. ASSUME NEW n \in Node, Start(n) PROVE TypeOK'
    <2>1. pc' \in [Node -> Steps] /\ \A m \in Node : pc'[m] = pc[m] \/ pc'[m] \in {"count", "download"}
        BY <1>1 DEF Start
    <2>2. own' \in [Node -> Version] /\ done' \subseteq Node
        BY <1>1 DEF Start
    <2> QED
        BY <1>1, <2>1, <2>2 DEF Start, Node
<1>2. ASSUME NEW n \in Node, Download(n) PROVE TypeOK'
    <2>1. CASE GiveUp(n)
        BY <2>1 DEF GiveUp
    <2>2. CASE ~GiveUp(n)
        <3>1. pc' \in [Node -> Steps] /\ \A m \in Node : pc'[m] = pc[m] \/ pc'[m] = "count"
            BY <1>2, <2>2 DEF Download
        <3> QED
            BY <1>2, <2>2, <3>1 DEF Download, Node
    <2> QED
        BY <2>1, <2>2
<1>3. ASSUME NEW n \in Node, Count(n) PROVE TypeOK'
    BY <1>3 DEF Count, Node
<1>4. ASSUME NEW n \in Node, Recheck(n) PROVE TypeOK'
    BY <1>4 DEF Recheck
<1>5. ASSUME NEW n \in Node, Lock(n) PROVE TypeOK'
    BY <1>5 DEF Lock
<1>6. ASSUME NEW n \in Node, Create(n) PROVE TypeOK'
    BY <1>6 DEF Create, GiveUp, Node
<1>7. ASSUME NEW n \in Node, Delete(n) PROVE TypeOK'
    BY <1>7 DEF Delete
<1>8. ASSUME NEW n \in Node, Apply(n) PROVE TypeOK'
    <2>1. /\ pc' \in [Node -> Steps] /\ \A m \in Node : m # n => pc'[m] = pc[m]
          /\ own' \in [Node -> Version]
        BY <1>8 DEF Apply, Abort
    <2>2. config' \in [Node -> Version] /\ faults' \in 0..MaxFaults
        BY <1>8 DEF Apply, Effect
    <2>3. n \in CP
        BY <1>8 DEF Apply, Node
    <2> QED
        BY <1>8, <2>1, <2>2, <2>3 DEF Apply, Node
<1>9. ASSUME NEW n \in Node, UpgradeNode(n) PROVE TypeOK'
    <2>1. pc' \in [Node -> Steps] /\ \A m \in Node : pc'[m] = pc[m] \/ pc'[m] \in {"patch", "idle"}
        BY <1>9 DEF UpgradeNode
    <2>2. config' \in [Node -> Version] /\ faults' \in 0..MaxFaults
        BY <1>9 DEF UpgradeNode, Effect
    <2> QED
        BY <1>9, <2>1, <2>2 DEF UpgradeNode, Node
<1>10. ASSUME NEW n \in Node, Patch(n) PROVE TypeOK'
    <2>1. /\ pc' \in [Node -> Steps] /\ \A m \in Node : m # n => pc'[m] = pc[m]
          /\ own' \in [Node -> Version]
        BY <1>10 DEF Patch, Abort
    <2>2. n \in Workers => pc'[n] \in {"drain", "idle"}
        BY <1>10 DEF Patch, Node
    <2>3. spec' \in [Node -> Version] /\ faults' \in 0..MaxFaults
        BY <1>10 DEF Patch
    <2> QED
        BY <1>10, <2>1, <2>2, <2>3 DEF Patch, Node
<1>11. ASSUME NEW n \in Node, Drain(n) PROVE TypeOK'
    <2>1. pc' \in [Node -> Steps] /\ \A m \in Node : pc'[m] = pc[m] \/ pc'[m] \in {"restart", "idle"}
        BY <1>11 DEF Drain
    <2>2. cordoned' \subseteq Node \ NoDrain /\ faults' \in 0..MaxFaults
        BY <1>11 DEF Drain
    <2> QED
        BY <1>11, <2>1, <2>2 DEF Drain, Node
<1>12. ASSUME NEW n \in Node, RestartKubelet(n) PROVE TypeOK'
    BY <1>12 DEF RestartKubelet
<1>13. ASSUME NEW n \in Node, Uncordon(n) PROVE TypeOK'
    BY <1>13 DEF Uncordon
<1>14. ASSUME NEW n \in Node, SeeMachine(n) PROVE TypeOK'
    BY <1>14 DEF SeeMachine
<1>15. ASSUME NEW n \in Node, Report(n) PROVE TypeOK'
    BY <1>15 DEF Report
<1>16. CASE SeeLock
    BY <1>16 DEF SeeLock
<1>17. CASE Crash
    <2>1. binaries' \subseteq installed' /\ unsaved' \subseteq binaries' /\ installed' \subseteq Node
        BY <1>17 DEF Crash
    <2>2. pc' = [n \in Node |-> "idle"]
        BY <1>17 DEF Crash
    <2> QED
        BY <1>17, <2>1, <2>2 DEF Crash, Node
<1>18. CASE UNCHANGED vars
    BY <1>18 DEF vars
<1> QED
    BY <1>1, <1>2, <1>3, <1>4, <1>5, <1>6, <1>7, <1>8, <1>9, <1>10, <1>11, <1>12, <1>13,
       <1>14, <1>15, <1>16, <1>17, <1>18 DEF Next, Reconcile

-----------------------------------------------------------------------------
(* The order *)

LEMMA InitOrder == Init => Order
BY DEF Init, Order, FinishesLast, ApplyBeforeNode, Behind, Node, Finishing

(* A control plane counted as upgraded in the cache is upgraded. *)
LEMMA CountedIsUpgraded ==
    ASSUME TypeOK, Order, NEW S \in SUBSET Node
    PROVE  \A n \in NewIn(S) : n \in S /\ spec[n] = "new" /\ config[n] = "new" /\ applied # {}
BY DEF TypeOK, Order, Behind, FinishesLast, ApplyBeforeNode, NewIn, Node

LEMMA OrderStep == TypeOK /\ Order /\ [Next]_vars => Order'
<1> SUFFICES ASSUME TypeOK, Order, [Next]_vars PROVE Order'
    OBVIOUS
<1> USE RolesAssumption
<1> USE DEF TypeOK, Order, Behind, FinishesLast, ApplyBeforeNode, Finishing, Goto, Fault,
            machines, locks, host, conds
<1>1. ASSUME NEW n \in Node, Start(n) PROVE Order'
    BY <1>1 DEF Start, Node
<1>2. ASSUME NEW n \in Node, Download(n) PROVE Order'
    BY <1>2 DEF Download, GiveUp, Node
<1>3. ASSUME NEW n \in Node, Count(n) PROVE Order'
    <2>1. /\ \A m \in NewIn(CP) : m \in CP /\ spec[m] = "new" /\ config[m] = "new" /\ applied # {}
          /\ \A m \in NewIn(Workers) : m \in Workers /\ spec[m] = "new" /\ config[m] = "new"
        BY CountedIsUpgraded DEF Node
    <2>2. /\ pc'[n] \in Finishing => \A m \in CP \cup {n} : spec[m] = "new"
          /\ pc'[n] \in {"node", "release"} => applied # {}
          /\ n \in Workers /\ pc'[n] = "node" => \A c \in CP : spec[c] = "new"
          /\ pc'[n] \notin {"patchFirst", "patch"}
        BY <1>3, <2>1 DEF Count, Node
    <2> QED
        BY <1>3, <2>2 DEF Count, Node
<1>4. ASSUME NEW n \in Node, Recheck(n) PROVE Order'
    BY <1>4 DEF Recheck, Node
<1>5. ASSUME NEW n \in Node, Lock(n) PROVE Order'
    BY <1>5 DEF Lock, Node
<1>6. ASSUME NEW n \in Node, Create(n) PROVE Order'
    BY <1>6 DEF Create, GiveUp, Node
<1>7. ASSUME NEW n \in Node, Delete(n) PROVE Order'
    BY <1>7 DEF Delete, Node
<1>8. ASSUME NEW n \in Node, Apply(n) PROVE Order'
    BY <1>8 DEF Apply, Effect, Abort, Node
<1>9. ASSUME NEW n \in Node, UpgradeNode(n) PROVE Order'
    BY <1>9 DEF UpgradeNode, Effect, Node
<1>10. ASSUME NEW n \in Node, Patch(n) PROVE Order'
    BY <1>10 DEF Patch, Abort, Node
<1>11. ASSUME NEW n \in Node, Drain(n) PROVE Order'
    BY <1>11 DEF Drain, Node
<1>12. ASSUME NEW n \in Node, RestartKubelet(n) PROVE Order'
    BY <1>12 DEF RestartKubelet, Node
<1>13. ASSUME NEW n \in Node, Uncordon(n) PROVE Order'
    BY <1>13 DEF Uncordon, Node
<1>14. ASSUME NEW n \in Node, SeeMachine(n) PROVE Order'
    BY <1>14 DEF SeeMachine, Node
<1>15. ASSUME NEW n \in Node, Report(n) PROVE Order'
    BY <1>15 DEF Report, Node
<1>16. CASE SeeLock
    BY <1>16 DEF SeeLock
<1>17. CASE Crash
    BY <1>17 DEF Crash, Node
<1>18. CASE UNCHANGED vars
    BY <1>18 DEF vars
<1> QED
    BY <1>1, <1>2, <1>3, <1>4, <1>5, <1>6, <1>7, <1>8, <1>9, <1>10, <1>11, <1>12, <1>13,
       <1>14, <1>15, <1>16, <1>17, <1>18 DEF Next, Reconcile
LEMMA OrderInvariant == Spec => [](TypeOK /\ Order)
<1>1. Init => TypeOK /\ Order
    BY InitType, InitOrder
<1>2. TypeOK /\ Order /\ [Next]_vars => (TypeOK /\ Order)'
    BY TypeStep, OrderStep
<1> QED
    BY <1>1, <1>2, PTL DEF Spec

(* Every variable keeps its type; a worker takes only the steps of a worker *)
(* (reconcileInPlaceKubeadmUpgrade).                                        *)
THEOREM TypeCorrect == Spec => []TypeOK
BY OrderInvariant, PTL

(* An instance that drains, or restarts its kubelet, finds every control    *)
(* plane and itself recorded as upgraded, and what is recorded in a Machine *)
(* has been done on its host, whatever the cache of Machines shows          *)
(* (kubeadmUpgrade, patchMachineSpecVersion).                               *)
THEOREM FinishesLastAlways == Spec => []FinishesLast
BY OrderInvariant, PTL DEF Order

(* No instance runs "kubeadm upgrade node" before "kubeadm upgrade apply"   *)
(* has succeeded on a control plane (kubeadmUpgrade).                       *)
THEOREM ApplyBeforeNodeAlways == Spec => []ApplyBeforeNode
BY OrderInvariant, PTL DEF Order

-----------------------------------------------------------------------------
(* The refinement *)

(* A host that kubeadm upgrades is a step of the contract, or none. *)
LEMMA KubeadmRefines ==
    ASSUME TypeOK, Order, NEW n \in Node, Effect(n), UNCHANGED kubelet,
           n \in CP => Upgraded # {} \/ pc[n] = "apply",
           n \in Workers => CP \subseteq Upgraded
    PROVE  [Contract!UNext]_(Contract!uvars)
<1>1. /\ {m \in Node : config'[m] = "new"} = Upgraded \cup {n}
      /\ {m \in Node : kubelet'[m] = "new"} = {m \in Node : kubelet[m] = "new"}
    BY DEF Effect, Upgraded, TypeOK
<1>2. CASE n \in CP /\ Upgraded = {}
    <2>1. Contract!First(n)
        BY <1>1, <1>2 DEF Contract!First, Upgraded
    <2> QED
        BY <1>2, <2>1 DEF Contract!UNext
<1>3. CASE n \in CP /\ Upgraded # {}
    <2>1. Contract!Other(n)
        BY <1>1, <1>3 DEF Contract!Other, Upgraded
    <2> QED
        BY <1>3, <2>1 DEF Contract!UNext
<1>4. CASE n \in Workers
    <2>1. Contract!Worker(n)
        BY <1>1, <1>4 DEF Contract!Worker, Upgraded
    <2> QED
        BY <1>4, <2>1 DEF Contract!UNext
<1> QED
    BY <1>2, <1>3, <1>4 DEF Node

LEMMA StepRefines == TypeOK /\ Order /\ [Next]_vars => [Contract!UNext]_(Contract!uvars)
<1> SUFFICES ASSUME TypeOK, Order, [Next]_vars PROVE [Contract!UNext]_(Contract!uvars)
    OBVIOUS
<1> USE DEF machines, locks, host, conds
<1>1. ASSUME UNCHANGED <<config, kubelet>> PROVE [Contract!UNext]_(Contract!uvars)
    BY <1>1 DEF Contract!uvars
<1>2. ASSUME NEW n \in Node, Apply(n) PROVE [Contract!UNext]_(Contract!uvars)
    <2>1. n \in CP /\ UNCHANGED kubelet
        BY <1>2 DEF Apply, TypeOK, Node, Finishing
    <2>2. CASE UNCHANGED config
        BY <1>1, <2>1, <2>2
    <2>3. CASE Effect(n)
        BY <1>2, <2>1, <2>3, KubeadmRefines, RolesAssumption DEF Apply
    <2> QED
        BY <1>2, <2>2, <2>3 DEF Apply
<1>3. ASSUME NEW n \in Node, UpgradeNode(n) PROVE [Contract!UNext]_(Contract!uvars)
    <2>1. UNCHANGED kubelet
        BY <1>3 DEF UpgradeNode
    <2>2. Upgraded # {}
        BY <1>3 DEF UpgradeNode, Order, ApplyBeforeNode, Behind, TypeOK, Upgraded, Node
    <2>3. n \in Workers => CP \subseteq Upgraded
        BY <1>3 DEF UpgradeNode, Order, FinishesLast, Behind, Upgraded, Node
    <2>4. CASE UNCHANGED config
        BY <1>1, <2>1, <2>4
    <2>5. CASE Effect(n)
        BY <2>1, <2>2, <2>3, <2>5, KubeadmRefines
    <2> QED
        BY <1>3, <2>4, <2>5 DEF UpgradeNode
<1>4. ASSUME NEW n \in Node, RestartKubelet(n) PROVE [Contract!UNext]_(Contract!uvars)
    <2>1. UNCHANGED config
        BY <1>4 DEF RestartKubelet
    <2>2. CASE UNCHANGED kubelet
        BY <1>1, <2>1, <2>2
    <2>3. CASE kubelet' # kubelet
        <3>1. {m \in Node : kubelet'[m] = "new"} = {m \in Node : kubelet[m] = "new"} \cup {n}
            BY <1>4, <2>3 DEF RestartKubelet, TypeOK
        <3>2. CP \cup {n} \subseteq {m \in Node : config[m] = "new"}
            BY <1>4 DEF RestartKubelet, Order, FinishesLast, Finishing, Node
        <3>3. Contract!Restart(n)
            BY <2>1, <3>1, <3>2 DEF Contract!Restart
        <3> QED
            BY <3>3 DEF Contract!UNext, Node
    <2> QED
        BY <2>2, <2>3
<1>5. ASSUME NEW n \in Node,
             \/ Start(n) \/ Download(n) \/ Count(n) \/ Patch(n) \/ Recheck(n) \/ Lock(n)
             \/ Create(n) \/ Delete(n) \/ Drain(n) \/ Uncordon(n) \/ SeeMachine(n) \/ Report(n)
      PROVE  UNCHANGED <<config, kubelet>>
    BY <1>5 DEF Start, Download, GiveUp, Count, Patch, Recheck, Lock, Create, Delete, Drain,
                Uncordon, SeeMachine, Report
<1>6. ASSUME SeeLock \/ Crash \/ UNCHANGED vars PROVE UNCHANGED <<config, kubelet>>
    BY <1>6 DEF SeeLock, Crash, vars
<1> QED
    BY <1>1, <1>2, <1>3, <1>4, <1>5, <1>6 DEF Next, Reconcile

(* The KKInstance controller implements UpgradeContract: whatever it reads  *)
(* from its cache and wherever it fails, kubeadm upgrades a control plane,  *)
(* the other control planes and then the workers, and every kubelet         *)
(* restarts after all of the control plane.                                 *)
THEOREM Implements == Spec => UpgradesInOrder
<1>1. Init => Contract!UInit
    BY DEF Init, Contract!UInit
<1> QED
    BY <1>1, OrderInvariant, StepRefines, PTL DEF Spec, UpgradesInOrder, Contract!USpec
-----------------------------------------------------------------------------
(* The lock *)

(* The cached lock is the lock or not yet there, and who has run, or is     *)
(* running, "kubeadm upgrade apply" holds it.                               *)
Held ==
    /\ lockSeen \in {None, lock}
    /\ \A n \in applied \cup Applying : lock = n

LEMMA HeldStep ==
    ASSUME ~CanDelete
    PROVE  TypeOK /\ Held /\ [Next]_vars => Held'
<1> SUFFICES ASSUME TypeOK, Held, [Next]_vars PROVE Held'
    OBVIOUS
<1> USE RolesAssumption
<1> USE DEF TypeOK, Held, Applying, Goto, Fault, machines, locks, host, conds
<1>1. ASSUME NEW n \in Node, Create(n) PROVE Held'
    BY <1>1 DEF Create, GiveUp, Node
<1>2. ASSUME NEW n \in Node, Delete(n) PROVE Held'
    BY <1>2 DEF Delete
<1>3. ASSUME NEW n \in Node, Lock(n) PROVE Held'
    BY <1>3 DEF Lock
<1>4. ASSUME NEW n \in Node, Apply(n) PROVE Held'
    BY <1>4 DEF Apply, Abort
<1>5. ASSUME NEW n \in Node,
             \/ Start(n) \/ Download(n) \/ Count(n) \/ Recheck(n) \/ UpgradeNode(n) \/ Patch(n)
             \/ Drain(n) \/ RestartKubelet(n) \/ Uncordon(n) \/ SeeMachine(n) \/ Report(n)
      PROVE  Held'
    <2>1. UNCHANGED <<lock, lockSeen, applied>>
        BY <1>5 DEF Start, Download, GiveUp, Count, Recheck, UpgradeNode, Patch, Drain,
                    RestartKubelet, Uncordon, SeeMachine, Report
    <2>2. \A m \in Node : pc'[m] = "apply" => pc[m] = "apply"
        <3>1. CASE Start(n) \/ Download(n) \/ Count(n) \/ Recheck(n) \/ UpgradeNode(n)
            BY <3>1 DEF Start, Download, GiveUp, Count, Recheck, UpgradeNode
        <3>2. CASE Patch(n) \/ Drain(n) \/ RestartKubelet(n) \/ Uncordon(n)
            BY <3>2 DEF Patch, Abort, Drain, RestartKubelet, Uncordon
        <3>3. CASE SeeMachine(n) \/ Report(n)
            BY <3>3 DEF SeeMachine, Report
        <3> QED
            BY <1>5, <3>1, <3>2, <3>3
    <2> QED
        BY <2>1, <2>2
<1>6. CASE SeeLock
    BY <1>6 DEF SeeLock
<1>7. CASE Crash
    BY <1>7 DEF Crash
<1>8. CASE UNCHANGED vars
    BY <1>8 DEF vars
<1> QED
    BY <1>1, <1>2, <1>3, <1>4, <1>5, <1>6, <1>7, <1>8 DEF Next, Reconcile

(* Where the manager may not delete ConfigMaps in the cluster's namespace,  *)
(* at most one control plane ever runs "kubeadm upgrade apply" (Lock).      *)
THEOREM OnlyFirstAppliesAlways ==
    ASSUME ~CanDelete
    PROVE  Spec => []OnlyFirstApplies
<1>1. Init => Held
    BY DEF Init, Held, Applying
<1>2. ASSUME TypeOK, Held PROVE OnlyFirstApplies
    <2>1. applied \cup Applying \subseteq {lock}
        BY <1>2 DEF Held
    <2>2. IsFiniteSet({lock}) /\ Cardinality({lock}) = 1
        BY FS_Singleton
    <2>3. Cardinality(applied \cup Applying) <= Cardinality({lock})
        BY <2>1, <2>2, FS_Subset
    <2> QED
        BY <2>2, <2>3 DEF OnlyFirstApplies
<1> QED
    BY <1>1, <1>2, TypeCorrect, HeldStep, PTL DEF Spec
=============================================================================
