------------------------ MODULE ClusterUpgradeProofs ------------------------
(***************************************************************************)
(* The KKCluster controller keeps the Cluster paused while some Machine and *)
(* its owner disagree on the version, for any number of nodes, any cache   *)
(* lag and any number of faults.                                           *)
(***************************************************************************)
EXTENDS ClusterUpgrade, TLAPS

(* From the first pause on, the Cluster is unpaused only when all owners    *)
(* have the new version; before it, nothing has been annotated.             *)
NotYet ==
    /\ upgraded = {} /\ ann = {} /\ annSeen = {} /\ ~pausedSeen
    /\ pc \in {"idle", "pause", "clean"}

(* What the phases already passed have established. *)
Progress ==
    /\ pc \in Owners \cup {"unpause"} => upgraded = Node
    /\ pc \in Owners \cup {"unpause", "annotateWorkers", "check"} => Workers # {}
    /\ pc \in {"machineSets", "machineDeployments", "unpause"} => "controlPlane" \in owners
    /\ pc \in {"machineDeployments", "unpause"} => "machineSets" \in owners
    /\ pc = "unpause" => "machineDeployments" \in owners

ClusterInv == TypeOK /\ Progress /\ (paused \/ owners = Owners \/ NotYet)

LEMMA ClusterInit == Init => ClusterInv
<1> SUFFICES ASSUME Init PROVE ClusterInv
    OBVIOUS
<1>1. TypeOK
    <2>1. /\ paused \in BOOLEAN /\ pausedSeen \in BOOLEAN /\ pausedFresh \in BOOLEAN
          /\ mine \in BOOLEAN /\ pc = "idle"
        BY Zenon DEF Init
    <2>2. faults \in 0..MaxFaults
        BY FaultAssumption DEF Init
    <2> QED
        BY <2>1, <2>2 DEF Init, TypeOK, Upgrade!UInit
<1>2. Progress
    BY DEF Init, Progress, Owners
<1>3. NotYet
    BY DEF Init, NotYet, Upgrade!UInit
<1> QED
    BY <1>1, <1>2, <1>3 DEF ClusterInv

(* The steps of the workload cluster's instances. *)
LEMMA WorkStep ==
    ASSUME ClusterInv, NEW n \in Node, Work(n)
    PROVE  ClusterInv'
<1> USE DEF api, cache, local
<1>1. /\ upgraded \subseteq upgraded' /\ upgraded' \subseteq Node
      /\ restarted' \subseteq upgraded' /\ restarted \subseteq restarted'
    BY DEF Work, ClusterInv, TypeOK, Node, Upgrade!First,
           Upgrade!Other, Upgrade!Worker, Upgrade!Restart
<1>2. n \in ann /\ UNCHANGED <<api, cache, local, pc, faults>>
    BY DEF Work
<1>3. TypeOK'
    BY <1>1, <1>2 DEF ClusterInv, TypeOK
<1>4. Progress'
    BY <1>1, <1>2 DEF ClusterInv, Progress
<1> QED
    BY <1>2, <1>3, <1>4 DEF ClusterInv, NotYet

LEMMA ClusterStep == ClusterInv /\ [Next]_vars => ClusterInv'
<1> SUFFICES ASSUME ClusterInv, [Next]_vars PROVE ClusterInv'
    OBVIOUS
<1> USE FaultAssumption, RolesAssumption
<1> USE DEF ClusterInv, TypeOK, Progress, NotYet, Owners, Goto,
            Requeue, List, Touch, api, cache,
            local, contract
<1>1. CASE Ask
    BY <1>1 DEF Ask
<1>2. CASE Begin
    BY <1>2 DEF Begin, Annotated, Fresh
<1>3. ASSUME NEW desired \in BOOLEAN, SetPaused(desired) PROVE ClusterInv'
    <2>1. CASE Requeue
        BY <2>1
    <2>2. CASE ~Requeue
        <3>1. todo' \subseteq Node /\ copied' \subseteq Node
            BY <1>3, <2>2 DEF SetPaused, AfterPaused, Annotated,
                   Fresh, Node
        <3>2. \/ pc = "pause" /\ pc' = "annotateCP"
              \/ pc = "unpause" /\ pc' = "clean"
            BY <1>3, <2>2 DEF SetPaused, AfterPaused
        <3>3. UNCHANGED <<request, ann, done, owners, requestSeen, pausedSeen, annSeen,
                          doneSeen, fresh, mine, contract, faults>>
            BY <1>3, <2>2 DEF SetPaused, AfterPaused
        <3>4. paused' \in BOOLEAN /\ pausedFresh' \in BOOLEAN
            BY <1>3, <2>2 DEF SetPaused
        <3>5. TypeOK'
            BY <3>1, <3>2, <3>3, <3>4
        <3>6. pc = "pause" => paused' \/ owners = Owners
            BY <1>3, <2>2 DEF SetPaused, Paused
        <3> QED
            BY <3>2, <3>3, <3>5, <3>6
    <2> QED
        BY <2>1, <2>2
<1>4. ASSUME NEW n \in Node, Annotate(n) PROVE ClusterInv'
    <2>1. CASE Requeue
        BY <2>1
    <2>2. CASE ~Requeue
        <3>1. /\ ann' \subseteq Node /\ fresh' \subseteq Node
              /\ copied' \subseteq Node /\ todo' \subseteq Node
            BY <1>4, <2>2 DEF Annotate
        <3>2. paused \/ owners = Owners \/ (NotYet /\ ann' = {})
            BY <1>4, <2>2 DEF Annotate
        <3> QED
            <4>1. UNCHANGED <<request, paused, done, owners, requestSeen, pausedSeen, pausedFresh,
                              annSeen, doneSeen, mine, contract, pc, faults>>
                BY <1>4, <2>2 DEF Annotate
            <4>2. TypeOK'
                BY <3>1, <4>1
            <4> QED
                BY <3>2, <4>1, <4>2
    <2> QED
        BY <2>1, <2>2
<1>5. CASE RoleAnnotated
    BY <1>5 DEF RoleAnnotated, Annotated, Fresh, Node
<1>6. CASE Check
    BY <1>6 DEF Check, Completed
<1>7. CASE PatchOwner
    BY <1>7 DEF PatchOwner, AfterOwner, Node
<1>8. ASSUME NEW n \in Node, Clean(n) PROVE ClusterInv'
    <2>1. CASE Requeue
        BY <2>1
    <2>2. CASE ~Requeue
        <3>1. /\ ann' \subseteq Node /\ fresh' \subseteq Node
              /\ copied' \subseteq Node /\ todo' \subseteq Node
            BY <1>8, <2>2 DEF Clean
        <3>2. paused \/ owners = Owners \/ (NotYet /\ ann' = {})
            BY <1>8, <2>2 DEF Clean
        <3> QED
            <4>1. UNCHANGED <<request, paused, done, owners, requestSeen, pausedSeen, pausedFresh,
                              annSeen, doneSeen, mine, contract, pc, faults>>
                BY <1>8, <2>2 DEF Clean
            <4>2. TypeOK'
                BY <3>1, <4>1
            <4> QED
                BY <3>2, <4>1, <4>2
    <2> QED
        BY <2>1, <2>2
<1>9. CASE Close
    BY <1>9 DEF Close
<1>10. CASE Fail
    BY <1>10 DEF Fail
<1>11. ASSUME NEW n \in Node, Work(n) PROVE ClusterInv'
    BY <1>11, WorkStep
<1>12. ASSUME NEW n \in Node, Complete(n) PROVE ClusterInv'
    BY <1>12 DEF Complete
<1>13. CASE SeeKKCluster
    BY <1>13 DEF SeeKKCluster
<1>14. CASE SeeCluster
    BY <1>14 DEF SeeCluster
<1>15. ASSUME NEW n \in Node, SeeKKInstance(n) PROVE ClusterInv'
    BY <1>15 DEF SeeKKInstance
<1>16. CASE UNCHANGED vars
    BY <1>16 DEF vars
<1> QED
    BY <1>1, <1>2, <1>3, <1>4, <1>5, <1>6, <1>7, <1>8, <1>9, <1>10, <1>11, <1>12, <1>13,
       <1>14, <1>15, <1>16 DEF Next, Reconcile

LEMMA ClusterInvariant == Spec => []ClusterInv
BY ClusterInit, ClusterStep, PTL DEF Spec

(* Every variable keeps its type, what is reported has happened, and a      *)
(* phase runs only for an annotated KKCluster (reconcileNormal).            *)
THEOREM ClusterTypeCorrect == Spec => []TypeOK
BY ClusterInvariant, PTL DEF ClusterInv

(* The Cluster is paused for as long as a Machine has a version its owner   *)
(* does not have, whatever the caches return and wherever a reconciliation  *)
(* breaks off (reconcileInPlaceUpgrade).                                    *)
THEOREM PausedWhileDivergedAlways == Spec => []PausedWhileDiverged
<1>1. ClusterInv => PausedWhileDiverged
    BY DEF ClusterInv, NotYet, PausedWhileDiverged, Owners
<1> QED
    BY <1>1, ClusterInvariant, PTL
=============================================================================
