------------------------ MODULE K3sControlPlaneProofs ------------------------
(***************************************************************************)
(* Proofs about K3sControlPlane for any number of Machines and workers, in *)
(* every setting: whatever sizes, surge, stale caches, failing requests,   *)
(* restarts and failing nodes.                                             *)
(***************************************************************************)
EXTENDS K3sControlPlane, FiniteSetTheorems, WellFoundedInduction, TLAPS

ObjectType == kcp \in KCP /\ kcpSeen \in KCP /\ rec \in KCP

MachineType == machines \in [Names -> Machine]

ControlType ==
    /\ setting \in Settings
    /\ pc \in {"idle", "reconcile", "clone", "config", "machine", "cleanInfra",
               "cleanBoth", "remove", "teardown", "status", "release"}
    /\ targets \subseteq Names
    /\ pc \notin {"remove", "cleanBoth"} => targets = {}
    /\ edits \in 0..setting.maxEdits /\ errors \in 0..setting.maxErrors
    /\ crashes \in 0..setting.maxCrashes

(* The Machine cache is late, but workers only ever leave. *)
WorkersSeen ==
    /\ listed \in [owned : SUBSET Names, workers : SUBSET Workers]
    /\ workers \subseteq listed.workers

(* Clones without a Machine: one for each crash, and those being made. *)
InfraMade == targets = {} /\ pc \in {"config", "machine", "cleanInfra", "cleanBoth"}
ConfigMade == targets = {} /\ pc \in {"machine", "cleanBoth"}

Spares ==
    /\ spare \in [infra : Nat, config : Nat]
    /\ spare.infra <= crashes + IF InfraMade THEN 1 ELSE 0
    /\ spare.config <= crashes + IF ConfigMade THEN 1 ELSE 0
    /\ InfraMade => spare.infra > 0
    /\ ConfigMade => spare.config > 0

(* Without the finalizer nothing has been done for the object yet. *)
Untouched ==
    kcp.st # "gone" /\ ~kcp.finalizer =>
      pc = "idle" /\ ~kcpSeen.finalizer /\ Owned = {}

Released == "machines" \notin setting.lag /\ pc = "release" => Owned = {}

(* A decision to grow stays right until the Machine is created. *)
Limit == rec.replicas + IF \E n \in Owned : machines[n].revision # rec.revision
                          THEN setting.maxSurge ELSE 0

Room == pc \in {"clone", "config", "machine"} => Cardinality(Owned) < Limit

(* While nodes do not fail, AgentHealthy is never outdated when it is True. *)
TrueIsReady ==
    ~setting.nodesFail =>
      \A m \in Owned : machines[m].agentHealthy = "True" => machines[m].node = "ready"

IInv ==
    /\ ObjectType /\ MachineType /\ ControlType
    /\ WorkersSeen /\ Spares /\ Untouched /\ Released /\ Room /\ TrueIsReady

-----------------------------------------------------------------------------
(* Lemmas *)

LEMMA Least == ASSUME NEW T, T \subseteq Nat, T # {} PROVE \E x \in T : \A y \in T : x <= y
<1>1. PICK x \in T : \A y \in T : <<y, x>> \notin OpToRel(<, Nat)
  BY NatLessThanWellFounded, WFMin
<1>2. \A y \in T : ~(y < x)
  BY <1>1 DEF OpToRel
<1> QED
  BY <1>2

LEMMA OwnedFinite ==
    /\ IsFiniteSet(Names) /\ IsFiniteSet(Owned) /\ Cardinality(Owned) \in Nat
    /\ Names \subseteq Nat /\ Owned \subseteq Names
<1>1. IsFiniteSet(Names) /\ Names \subseteq Nat
  BY FS_Interval, BoundAssumption DEF Names
<1>2. Owned \subseteq Names
  BY DEF Owned
<1> QED
  BY <1>1, <1>2, FS_Subset, FS_CardinalityType

(* Oldest picks exactly one of any Machines there are. *)
LEMMA OldestIsOne ==
    ASSUME NEW ms, ms \subseteq Names, ms # {}
    PROVE  /\ \E m \in ms : Oldest(ms) = {m}
           /\ Cardinality(Oldest(ms)) = 1
<1>1. ms \subseteq Nat
  BY OwnedFinite
<1>2. PICK m \in ms : \A n \in ms : m <= n
  BY <1>1, Least
<1>3. Oldest(ms) = {m}
  <2>1. \A k \in ms : (\A n \in ms : k <= n) <=> k = m
    BY <1>1, <1>2
  <2> QED
    BY <2>1 DEF Oldest
<1> QED
  BY <1>3, FS_Singleton

LEMMA SettingFacts ==
    ASSUME ControlType
    PROVE  /\ setting.maxSurge \in {0, 1}
           /\ setting.sizes \subseteq Nat \ {0}
           /\ setting.maxEdits \in Nat /\ setting.maxErrors \in Nat /\ setting.maxCrashes \in Nat
           /\ setting.workers \subseteq Workers
BY SettingAssumption DEF ControlType, Setting

LEMMA SameObject ==
    ObjectType /\ UNCHANGED <<setting, kcp, kcpSeen, rec>> => ObjectType'
BY DEF ObjectType, KCP

LEMMA SameMachines ==
    MachineType /\ UNCHANGED <<setting, machines>> => MachineType' /\ Owned' = Owned
BY DEF MachineType, Machine, Owned

LEMMA SameSpares ==
    ASSUME Spares, UNCHANGED spare, crashes \in Nat, crashes' = crashes,
           InfraMade' = InfraMade, ConfigMade' = ConfigMade
    PROVE  Spares'
BY DEF Spares

(* Machines may have new conditions and nothing else. *)
Refreshed ==
    /\ machines' \in [Names -> Machine]
    /\ \A m \in Names :
         /\ machines'[m].st = machines[m].st
         /\ machines'[m].revision = machines[m].revision
         /\ machines'[m].node = machines[m].node
         /\ machines'[m].agentHealthy = "True" =>
              machines[m].agentHealthy = "True" \/ machines[m].node = "ready"

LEMMA RefreshedFacts ==
    ASSUME MachineType, TrueIsReady, Refreshed, UNCHANGED setting
    PROVE  MachineType' /\ Owned' = Owned /\ TrueIsReady'
<1>1. MachineType'
  BY DEF Refreshed, MachineType, Machine
<1>2. Owned' = Owned
  BY DEF Refreshed, Owned
<1>3. TrueIsReady'
  <2>1. \A m \in Owned : m \in Names
    BY DEF Owned
  <2> QED
    BY <1>2, <2>1 DEF Refreshed, TrueIsReady
<1> QED
  BY <1>1, <1>2, <1>3

LEMMA InspectedFacts ==
    ASSUME MachineType, NEW m \in Names
    PROVE  /\ Inspected(m) \in {"none", "True", "False", "Unknown"}
           /\ Inspected(m) = "True" => machines[m].agentHealthy = "True" \/ machines[m].node = "ready"
BY DEF MachineType, Machine, Inspected

LEMMA PatchRefreshes ==
    ASSUME MachineType, NEW ms \in SUBSET Names, NEW conds,
           \A m \in ms : /\ conds[m] \in {"none", "True", "False", "Unknown"}
                         /\ conds[m] = "True" => machines[m].agentHealthy = "True"
                                                \/ machines[m].node = "ready",
           machines' = [m \in Names |-> IF m \in ms
                                         THEN [machines[m] EXCEPT !.agentHealthy = conds[m]]
                                         ELSE machines[m]]
    PROVE  Refreshed
<1>1. ASSUME NEW m \in Names
      PROVE  /\ machines'[m] \in Machine
             /\ machines'[m].st = machines[m].st
             /\ machines'[m].revision = machines[m].revision
             /\ machines'[m].node = machines[m].node
             /\ machines'[m].agentHealthy = "True" =>
                  machines[m].agentHealthy = "True" \/ machines[m].node = "ready"
  <2>1. machines[m] \in Machine
    BY DEF MachineType
  <2>2. machines'[m] = IF m \in ms THEN [machines[m] EXCEPT !.agentHealthy = conds[m]]
                                   ELSE machines[m]
    BY DEF PatchMachines
  <2>3. CASE m \in ms
    BY <2>1, <2>2, <2>3 DEF Machine
  <2>4. CASE m \notin ms
    BY <2>1, <2>2, <2>4
  <2> QED
    BY <2>3, <2>4
<1>2. machines' \in [Names -> Machine]
  BY <1>1 DEF PatchMachines
<1> QED
  BY <1>1, <1>2 DEF Refreshed

(* UpdateAgentConditions, disturbed or not, touches only the conditions. *)
LEMMA ConditionsRefresh ==
    ASSUME MachineType, NEW ms \in SUBSET Names, UpdateConditions(ms) \/ ConditionsFail(ms)
    PROVE  Refreshed /\ (errors' = errors \/ (errors < setting.maxErrors /\ errors' = errors + 1))
<1>1. errors' = errors \/ (errors < setting.maxErrors /\ errors' = errors + 1)
  BY DEF UpdateConditions, ConditionsFail
<1>2. CASE UNCHANGED machines
  BY <1>1, <1>2 DEF Refreshed, MachineType
<1>3. CASE \E some \in SUBSET ms : machines' = PatchMachines(some, [m \in some |-> Inspected(m)])
  <2>1. PICK some \in SUBSET ms : machines' = PatchMachines(some, [m \in some |-> Inspected(m)])
    BY <1>3
  <2> DEFINE conds == [m \in some |-> Inspected(m)]
  <2>2. some \in SUBSET Names /\ \A m \in some : m \in Names /\ conds[m] = Inspected(m)
    OBVIOUS
  <2>3. \A m \in some : /\ conds[m] \in {"none", "True", "False", "Unknown"}
                        /\ conds[m] = "True" => machines[m].agentHealthy = "True"
                                               \/ machines[m].node = "ready"
    BY <2>2, InspectedFacts
  <2> HIDE DEF conds
  <2> QED
    BY <1>1, <2>1, <2>2, <2>3, PatchRefreshes DEF conds, PatchMachines
<1>4. CASE \E conds \in Disturbed(ms) : machines' = PatchMachines(ms, conds)
  <2>1. PICK conds \in Disturbed(ms) : machines' = PatchMachines(ms, conds)
    BY <1>4
  <2>2. \A m \in ms : conds[m] \in {"Unknown", Inspected(m), machines[m].agentHealthy}
    BY <2>1 DEF Disturbed
  <2>3. \A m \in ms : machines[m].agentHealthy \in {"none", "True", "False", "Unknown"}
    BY DEF MachineType, Machine
  <2>4. \A m \in ms : /\ conds[m] \in {"none", "True", "False", "Unknown"}
                      /\ conds[m] = "True" => machines[m].agentHealthy = "True"
                                             \/ machines[m].node = "ready"
    BY <2>2, <2>3, InspectedFacts
  <2> QED
    BY <1>1, <2>1, <2>4, PatchRefreshes DEF PatchMachines
<1> QED
  BY <1>1, <1>2, <1>3, <1>4 DEF UpdateConditions, ConditionsFail

LEMMA SameRefreshed == MachineType /\ UNCHANGED machines => Refreshed
BY DEF MachineType, Refreshed

(* The limit to growth depends on which Machines there are, not on nodes. *)
LEMMA SameLimit ==
    ASSUME Refreshed, UNCHANGED <<setting, rec>> PROVE Limit' = Limit
<1>1. Owned' = Owned /\ \A n \in Owned : machines'[n].revision = machines[n].revision
  BY DEF Refreshed, Owned
<1>2. (\E n \in Owned' : machines'[n].revision # rec.revision) <=>
        (\E n \in Owned : machines[n].revision # rec.revision)
  BY <1>1
<1> QED
  BY <1>2 DEF Limit

-----------------------------------------------------------------------------
(* Every step keeps IInv *)

LEMMA InitIInv == Init => IInv
<1> SUFFICES ASSUME Init PROVE IInv
  OBVIOUS
<1>1. setting \in Setting
  BY SettingAssumption DEF Init
<1>2. ObjectType
  <2>1. 0 \in 0..setting.maxEdits
    BY <1>1 DEF Setting
  <2>2. kcp \in [st : {"live"}, finalizer : {FALSE}, initialized : {FALSE},
                 revision : {0}, replicas : setting.sizes]
    BY DEF Init
  <2>3. kcp \in KCP
    BY <2>1, <2>2 DEF KCP
  <2> QED
    BY <2>3 DEF Init, ObjectType
<1>3. MachineType
  <2>1. NoMachine \in Machine
    BY <1>1 DEF NoMachine, Machine, Setting
  <2> QED
    BY <2>1 DEF Init, MachineType
<1>4. ControlType
  BY <1>1 DEF Init, ControlType, Setting
<1>5. WorkersSeen
  BY <1>1 DEF Init, WorkersSeen, Setting
<1>6. Owned = {}
  BY DEF Init, Owned, NoMachine
<1>7. Spares
  BY DEF Init, Spares, InfraMade, ConfigMade
<1>8. Untouched /\ Released /\ Room /\ TrueIsReady
  BY <1>6 DEF Init, Untouched, Released, Room, TrueIsReady
<1> QED
  BY <1>2, <1>3, <1>4, <1>5, <1>7, <1>8 DEF IInv

LEMMA BeginIInv == ASSUME IInv, Begin, UNCHANGED setting PROVE IInv'
<1> USE DEF IInv
<1>1. /\ UNCHANGED <<setting, kcpSeen, machines, listed, workers, targets, spare, edits, errors, crashes>>
      /\ pc = "idle" /\ rec' = ReadKCP /\ ReadKCP \in {kcp, kcpSeen}
      /\ pc' \in {"idle", "teardown", "reconcile"}
      /\ kcp' = kcp \/ (kcp.st = "live" /\ kcp' = [kcp EXCEPT !.finalizer = TRUE])
      /\ pc' # "idle" => ReadKCP.finalizer /\ kcp' = kcp
  BY DEF Begin, ReadKCP, Goto
<1>2. ObjectType'
  <2>1. kcp' \in KCP
    BY <1>1 DEF ObjectType, KCP
  <2> QED
    BY <1>1, <2>1 DEF ObjectType, KCP
<1>3. MachineType' /\ Owned' = Owned /\ TrueIsReady'
  BY <1>1, SameRefreshed, RefreshedFacts
<1>4. ControlType' /\ WorkersSeen'
  BY <1>1 DEF ControlType, WorkersSeen
<1>5. Spares'
  BY <1>1 DEF Spares, InfraMade, ConfigMade, ControlType
<1>6. Untouched'
  <2>1. CASE kcp' = kcp
    BY <1>1, <1>3, <2>1 DEF Untouched, ObjectType, KCP
  <2>2. CASE kcp.st = "live" /\ kcp' = [kcp EXCEPT !.finalizer = TRUE]
    BY <2>2 DEF Untouched, ObjectType, KCP
  <2> QED
    BY <1>1, <2>1, <2>2
<1>7. Released' /\ Room'
  BY <1>1 DEF Released, Room
<1> QED
  BY <1>2, <1>3, <1>4, <1>5, <1>6, <1>7

(* Steps that leave the object and the caches alone. *)
Elsewhere == UNCHANGED <<setting, kcp, kcpSeen, listed, workers, rec>>

LEMMA ElsewhereFacts ==
    ASSUME IInv, Elsewhere, Owned' \subseteq Owned, pc # "idle"
    PROVE  ObjectType' /\ WorkersSeen' /\ Untouched'
<1>1. ObjectType'
  BY SameObject DEF IInv, Elsewhere
<1>2. WorkersSeen'
  BY DEF IInv, Elsewhere, WorkersSeen
<1>3. Untouched'
  BY DEF IInv, Elsewhere, Untouched
<1> QED
  BY <1>1, <1>2, <1>3

LEMMA VictimFacts ==
    ASSUME Owned # {}
    PROVE  Victim \subseteq Owned /\ Cardinality(Victim) = 1 /\ \E m \in Owned : Victim = {m}
<1> DEFINE marked == Owned \cap setting.annotated
           pool == IF marked \cap Outdated # {} THEN marked \cap Outdated
                   ELSE IF marked # {} THEN marked
                   ELSE IF Outdated # {} THEN Outdated ELSE Owned
<1>1. Outdated \subseteq Owned
  BY DEF Outdated
<1>2. pool \subseteq Owned /\ pool # {}
  BY <1>1
<1>3. Victim = Oldest(pool)
  BY DEF Victim
<1>4. PICK P : P = pool
  OBVIOUS
<1>5. /\ \E m \in P : Oldest(P) = {m}
      /\ Cardinality(Oldest(P)) = 1
  BY <1>2, <1>4, OwnedFinite, OldestIsOne
<1> QED
  BY <1>2, <1>3, <1>4, <1>5

(* What Choose decides. *)
LEMMA ChooseFacts ==
    ASSUME IInv, Refreshed, Choose
    PROVE  /\ pc' \in {"clone", "remove", "status"}
           /\ targets' \subseteq Owned
           /\ pc' # "remove" => targets' = {}
           /\ pc' = "clone" => Cardinality(Owned) < Limit
           /\ pc' = "remove" =>
                /\ targets' = Victim /\ Owned # {} /\ Preflight(machines', Victim)
                /\ Cardinality(Owned) >= rec.replicas + setting.maxSurge
<1> DEFINE n == Cardinality(Owned)
           grow == n < Most /\ Preflight(machines', {})
           shrink == n >= Most /\ (n > Most \/ Outdated # {}) /\ Preflight(machines', Victim)
<1>1. /\ pc' = IF grow THEN "clone" ELSE IF shrink THEN "remove" ELSE "status"
      /\ targets' = IF shrink THEN Victim ELSE {}
  BY DEF Choose, Goto
<1>2. /\ n \in Nat /\ setting.maxSurge \in {0, 1}
      /\ rec.replicas \in Nat /\ rec.replicas > 0
  BY OwnedFinite, SettingFacts DEF IInv, ObjectType, KCP
<1>3. Most \in Nat /\ Most >= rec.replicas
      /\ (Outdated # {} => Most = rec.replicas + setting.maxSurge)
      /\ (Outdated = {} => Most = rec.replicas)
  BY <1>2 DEF Most
<1> HIDE DEF n
<1>4. grow => ~shrink
  BY <1>2, <1>3
<1>5. shrink => Owned # {}
  <2>1. Owned = {} => n = 0
    BY FS_EmptySet DEF n
  <2> QED
    BY <1>2, <1>3, <2>1
<1>6. grow => n < Limit
  <2> SUFFICES ASSUME grow PROVE n < Limit
    OBVIOUS
  <2>1. \A m \in Owned : machines[m].st = "up"
    BY DEF Preflight, Owned
  <2>2. Outdated # {} <=> \E m \in Owned : machines[m].revision # rec.revision
    BY <2>1 DEF Outdated
  <2> QED
    BY <1>2, <1>3, <2>2 DEF Limit
<1>7. shrink => n >= rec.replicas + setting.maxSurge
  BY <1>2, <1>3
<1>8. shrink => Victim \subseteq Owned
  BY <1>5, VictimFacts
<1> HIDE DEF grow
<1>9. shrink => Preflight(machines', Victim)
  OBVIOUS
<1> HIDE DEF shrink
<1> QED
  BY <1>1, <1>4, <1>5, <1>6, <1>7, <1>8, <1>9 DEF n

LEMMA ReconcileIInv == ASSUME IInv, Reconcile, UNCHANGED setting PROVE IInv'
<1> USE DEF IInv
<1>1. Elsewhere /\ UNCHANGED <<spare, edits, crashes>> /\ pc = "reconcile"
  BY DEF Reconcile, Elsewhere
<1>2. Owned \in SUBSET Names /\ targets = {}
  BY <1>1 DEF Owned, ControlType
<1>3. /\ Refreshed
      /\ errors' = errors \/ (errors < setting.maxErrors /\ errors' = errors + 1)
      /\ Choose \/ (pc' = "status" /\ UNCHANGED targets)
  <2>1. CASE UpdateConditions(Owned) /\ Choose
    BY <1>2, <2>1, ConditionsRefresh
  <2>2. CASE ConditionsFail(Owned) /\ Goto("status") /\ UNCHANGED targets
    BY <1>2, <2>2, ConditionsRefresh DEF Goto
  <2>3. CASE Error("status") /\ UNCHANGED <<machines, targets>>
    BY <2>3, SameRefreshed DEF Error, Goto
  <2> QED
    BY <2>1, <2>2, <2>3 DEF Reconcile
<1>4. /\ pc' \in {"clone", "remove", "status"}
      /\ targets' \subseteq Owned
      /\ pc' # "remove" => targets' = {}
      /\ pc' = "clone" => Cardinality(Owned) < Limit
  BY <1>2, <1>3, ChooseFacts
<1>5. MachineType' /\ Owned' = Owned /\ TrueIsReady' /\ Limit' = Limit
  BY <1>1, <1>3, RefreshedFacts, SameLimit DEF Elsewhere
<1>6. ObjectType' /\ WorkersSeen' /\ Untouched'
  BY <1>1, <1>5, ElsewhereFacts
<1>7. ControlType'
  <2>1. errors' \in 0..setting.maxErrors
    BY <1>3, SettingFacts DEF ControlType
  <2> QED
    BY <1>1, <1>2, <1>4, <2>1 DEF ControlType, Elsewhere
<1>8. Spares'
  BY <1>1, <1>2, <1>4 DEF Spares, InfraMade, ConfigMade, ControlType
<1>9. Released' /\ Room'
  BY <1>4, <1>5 DEF Released, Room
<1> QED
  BY <1>5, <1>6, <1>7, <1>8, <1>9

(* The steps of cloneConfigsAndGenerateMachine that touch no Machine. *)
LEMMA CloneTemplateIInv == ASSUME IInv, CloneTemplate, UNCHANGED setting PROVE IInv'
<1> USE DEF IInv
<1>1. /\ Elsewhere /\ UNCHANGED <<machines, targets, edits, crashes>> /\ pc = "clone"
      /\ \/ spare' = [spare EXCEPT !.infra = @ + 1] /\ pc' = "config" /\ UNCHANGED errors
         \/ /\ errors < setting.maxErrors /\ errors' = errors + 1 /\ pc' = "status"
            /\ UNCHANGED spare
  BY DEF CloneTemplate, Elsewhere, Error, Goto
<1>2. targets = {}
  BY <1>1 DEF ControlType
<1>3. MachineType' /\ Owned' = Owned /\ TrueIsReady' /\ Limit' = Limit
  BY <1>1, SameRefreshed, RefreshedFacts, SameLimit DEF Elsewhere
<1>4. ObjectType' /\ WorkersSeen' /\ Untouched'
  BY <1>1, <1>3, ElsewhereFacts
<1>5. ControlType'
  <2>1. errors' \in 0..setting.maxErrors
    BY <1>1, SettingFacts DEF ControlType
  <2> QED
    BY <1>1, <1>2, <2>1 DEF ControlType, Elsewhere
<1>6. Spares'
  BY <1>1, <1>2 DEF Spares, InfraMade, ConfigMade, ControlType
<1>7. Released' /\ Room'
  BY <1>1, <1>3 DEF Released, Room
<1> QED
  BY <1>3, <1>4, <1>5, <1>6, <1>7

LEMMA GenerateK3sConfigIInv == ASSUME IInv, GenerateK3sConfig, UNCHANGED setting PROVE IInv'
<1> USE DEF IInv
<1>1. /\ Elsewhere /\ UNCHANGED <<machines, targets, edits, crashes>> /\ pc = "config"
      /\ \/ spare' = [spare EXCEPT !.config = @ + 1] /\ pc' = "machine" /\ UNCHANGED errors
         \/ /\ errors < setting.maxErrors /\ errors' = errors + 1 /\ pc' = "cleanInfra"
            /\ UNCHANGED spare
  BY DEF GenerateK3sConfig, Elsewhere, Error, Goto
<1>2. targets = {}
  BY <1>1 DEF ControlType
<1>3. MachineType' /\ Owned' = Owned /\ TrueIsReady' /\ Limit' = Limit
  BY <1>1, SameRefreshed, RefreshedFacts, SameLimit DEF Elsewhere
<1>4. ObjectType' /\ WorkersSeen' /\ Untouched'
  BY <1>1, <1>3, ElsewhereFacts
<1>5. ControlType'
  <2>1. errors' \in 0..setting.maxErrors
    BY <1>1, SettingFacts DEF ControlType
  <2> QED
    BY <1>1, <1>2, <2>1 DEF ControlType, Elsewhere
<1>6. Spares'
  BY <1>1, <1>2 DEF Spares, InfraMade, ConfigMade, ControlType
<1>7. Released' /\ Room'
  BY <1>1, <1>3 DEF Released, Room
<1> QED
  BY <1>3, <1>4, <1>5, <1>6, <1>7

LEMMA GenerateMachineIInv == ASSUME IInv, GenerateMachine, UNCHANGED setting PROVE IInv'
<1> USE DEF IInv
<1>1. Elsewhere /\ UNCHANGED <<edits, crashes>> /\ pc = "machine"
  BY DEF GenerateMachine, Elsewhere
<1>2. targets = {} /\ InfraMade /\ ConfigMade
  BY <1>1 DEF ControlType, InfraMade, ConfigMade
<1>3. kcp.st = "gone" \/ kcp.finalizer
  BY <1>1 DEF Untouched
<1>4. ObjectType' /\ WorkersSeen' /\ Untouched'
  <2>1. ObjectType' /\ WorkersSeen'
    BY <1>1, SameObject DEF Elsewhere, WorkersSeen
  <2> QED
    BY <1>1, <1>3, <2>1 DEF Untouched, Elsewhere
<1>7. MachineType' /\ TrueIsReady'
  <2>1. CASE \E m \in Oldest({i \in Names : machines[i].st = "absent"}) :
               machines' = [machines EXCEPT ![m] = NewMachine]
    <3>1. PICK m \in Names :
            machines' = [machines EXCEPT ![m] = NewMachine] /\ machines[m].st = "absent"
      BY <2>1 DEF Oldest
    <3>2. NewMachine \in Machine /\ NewMachine.agentHealthy = "none"
      BY SettingFacts DEF NewMachine, NoMachine, Machine, ObjectType, KCP
    <3>3. MachineType'
      BY <1>1, <3>1, <3>2 DEF MachineType, Elsewhere, Machine
    <3>4. \A k \in Owned' : k = m \/ (k \in Owned /\ machines'[k] = machines[k])
      BY <3>1 DEF Owned, MachineType
    <3>5. machines'[m].agentHealthy = "none"
      BY <3>1, <3>2 DEF MachineType
    <3>6. TrueIsReady'
      BY <1>1, <3>4, <3>5 DEF TrueIsReady, Elsewhere
    <3> QED
      BY <3>3, <3>6
  <2>2. CASE UNCHANGED machines
    BY <1>1, <2>2, SameRefreshed, RefreshedFacts DEF Elsewhere
  <2> QED
    BY <2>1, <2>2 DEF GenerateMachine
<1>8. /\ errors' = errors \/ (errors < setting.maxErrors /\ errors' = errors + 1)
      /\ \/ pc' = "status" /\ targets' = {}
              /\ spare' = [infra |-> spare.infra - 1, config |-> spare.config - 1]
         \/ pc' = "cleanBoth" /\ targets' \subseteq Names /\ targets' # {}
              /\ spare' = [infra |-> spare.infra - 1, config |-> spare.config - 1]
         \/ pc' = "cleanBoth" /\ targets' = {} /\ spare' = spare
  <2>1. Oldest({i \in Names : machines[i].st = "absent"}) \subseteq Names
    BY DEF Oldest
  <2> QED
    BY <1>2, <2>1 DEF GenerateMachine, Error, Goto
<1>9. ControlType'
  <2>1. errors' \in 0..setting.maxErrors
    BY <1>8, SettingFacts DEF ControlType
  <2> QED
    BY <1>1, <1>8, <2>1 DEF ControlType, Elsewhere
<1>10. Spares'
  BY <1>1, <1>2, <1>8 DEF Spares, InfraMade, ConfigMade, ControlType
<1>11. Released' /\ Room'
  BY <1>8 DEF Released, Room
<1> QED
  BY <1>4, <1>7, <1>9, <1>10, <1>11

LEMMA CleanUpIInv == ASSUME IInv, CleanUp, UNCHANGED setting PROVE IInv'
<1> USE DEF IInv
<1> DEFINE made == IF pc = "cleanBoth" THEN {"infra", "config"} ELSE {"infra"}
<1>1. /\ Elsewhere /\ UNCHANGED <<edits, errors>> /\ pc \in {"cleanInfra", "cleanBoth"}
      /\ pc' = "status" /\ targets' = {}
  BY DEF CleanUp, Elsewhere, Goto
<1>2. PICK kept \in SUBSET made :
        /\ crashes' = crashes + IF kept = {} THEN 0 ELSE 1
        /\ crashes' <= setting.maxCrashes
        /\ machines' = [m \in Names |-> IF m \in targets /\ kept # made
                                         THEN [machines[m] EXCEPT !.clones = FALSE]
                                         ELSE machines[m]]
        /\ LET freed == IF targets = {} THEN made \ kept ELSE {}
           IN  spare' = [infra |-> spare.infra - IF "infra" \in freed THEN 1 ELSE 0,
                         config |-> spare.config - IF "config" \in freed THEN 1 ELSE 0]
  BY DEF CleanUp
<1>3. Refreshed
  <2>1. \A m \in Names :
          /\ machines'[m] \in Machine
          /\ machines'[m].st = machines[m].st
          /\ machines'[m].revision = machines[m].revision
          /\ machines'[m].node = machines[m].node
          /\ machines'[m].agentHealthy = machines[m].agentHealthy
    BY <1>2 DEF MachineType, Machine
  <2>2. machines' \in [Names -> Machine]
    BY <1>2, <2>1
  <2> QED
    BY <2>1, <2>2 DEF Refreshed
<1>4. MachineType' /\ Owned' = Owned /\ TrueIsReady'
  BY <1>1, <1>3, RefreshedFacts DEF Elsewhere
<1>5. ObjectType' /\ WorkersSeen' /\ Untouched'
  BY <1>1, <1>4, ElsewhereFacts
<1>6. crashes' \in 0..setting.maxCrashes /\ crashes \in Nat /\ crashes' \in Nat
  BY <1>2, SettingFacts DEF ControlType
<1>7. ControlType'
  BY <1>1, <1>6 DEF ControlType, Elsewhere
<1>8. Spares'
  <2>1. ~InfraMade' /\ ~ConfigMade'
    BY <1>1 DEF InfraMade, ConfigMade
  <2>2. CASE targets # {}
    <3>1. spare' = spare
      BY <1>2, <2>2 DEF Spares
    <3>2. ~InfraMade /\ ~ConfigMade
      BY <2>2 DEF InfraMade, ConfigMade
    <3> QED
      BY <1>2, <1>6, <2>1, <3>1, <3>2 DEF Spares
  <2>3. CASE targets = {} /\ pc = "cleanBoth"
    <3>1. InfraMade /\ ConfigMade
      BY <2>3 DEF InfraMade, ConfigMade
    <3>2. spare' = [infra |-> spare.infra - IF "infra" \in kept THEN 0 ELSE 1,
                    config |-> spare.config - IF "config" \in kept THEN 0 ELSE 1]
      BY <1>2, <2>3
    <3>3. spare.infra \in Nat /\ spare.config \in Nat /\ spare.infra > 0 /\ spare.config > 0
          /\ spare.infra <= crashes + 1 /\ spare.config <= crashes + 1
      BY <3>1 DEF Spares
    <3>4. spare'.infra \in Nat /\ spare'.config \in Nat
          /\ spare'.infra <= crashes' /\ spare'.config <= crashes'
      BY <1>2, <1>6, <3>2, <3>3
    <3> QED
      BY <1>6, <2>1, <3>2, <3>4 DEF Spares
  <2>4. CASE targets = {} /\ pc = "cleanInfra"
    <3>1. InfraMade /\ ~ConfigMade
      BY <2>4 DEF InfraMade, ConfigMade
    <3>2. spare' = [infra |-> spare.infra - IF "infra" \in kept THEN 0 ELSE 1,
                    config |-> spare.config - 0]
      BY <1>2, <2>4
    <3>3. spare.infra \in Nat /\ spare.config \in Nat /\ spare.infra > 0
          /\ spare.infra <= crashes + 1 /\ spare.config <= crashes
      BY <1>6, <3>1 DEF Spares
    <3>4. spare'.infra \in Nat /\ spare'.config \in Nat
          /\ spare'.infra <= crashes' /\ spare'.config <= crashes'
      BY <1>2, <1>6, <3>2, <3>3
    <3> QED
      BY <1>6, <2>1, <3>2, <3>4 DEF Spares
  <2> QED
    BY <1>1, <2>2, <2>3, <2>4
<1>9. Released' /\ Room'
  BY <1>1 DEF Released, Room
<1> QED
  BY <1>4, <1>5, <1>7, <1>8, <1>9

LEMMA RemoveIInv == ASSUME IInv, Remove, UNCHANGED setting PROVE IInv'
<1> USE DEF IInv
<1>1. /\ Elsewhere /\ UNCHANGED <<spare, edits, crashes>> /\ pc = "remove"
      /\ pc' = "status" /\ targets' = {}
  BY DEF Remove, Elsewhere, Goto
<1>2. PICK failed \in SUBSET targets :
        /\ errors' = errors + IF failed = {} THEN 0 ELSE 1
        /\ errors' <= setting.maxErrors
        /\ machines' = [m \in Names |-> IF m \in targets \ failed /\ machines[m].st = "up"
                                         THEN [machines[m] EXCEPT !.st = "deleting"]
                                         ELSE machines[m]]
  BY DEF Remove
<1>3. \A m \in Names :
        /\ machines'[m] \in Machine
        /\ machines'[m].st \in {"up", "deleting"} => machines[m].st \in {"up", "deleting"}
        /\ machines'[m].node = machines[m].node
        /\ machines'[m].agentHealthy = machines[m].agentHealthy
  BY <1>2 DEF MachineType, Machine
<1>4. MachineType'
  BY <1>1, <1>2, <1>3 DEF MachineType, Elsewhere, Machine
<1>5. Owned' \subseteq Owned
  BY <1>3 DEF Owned
<1>6. TrueIsReady'
  <2>1. Owned \subseteq Names
    BY DEF Owned
  <2> QED
    BY <1>1, <1>3, <1>5, <2>1 DEF TrueIsReady, Elsewhere
<1>7. ObjectType' /\ WorkersSeen' /\ Untouched'
  BY <1>1, <1>5, ElsewhereFacts
<1>8. ControlType'
  <2>1. errors' \in 0..setting.maxErrors
    BY <1>2, SettingFacts DEF ControlType
  <2> QED
    BY <1>1, <2>1 DEF ControlType, Elsewhere
<1>9. Spares'
  BY <1>1 DEF Spares, InfraMade, ConfigMade, ControlType
<1>10. Released' /\ Room'
  BY <1>1 DEF Released, Room
<1> QED
  BY <1>4, <1>6, <1>7, <1>8, <1>9, <1>10

LEMMA ListedFacts ==
    ASSUME WorkersSeen
    PROVE  /\ Listed.owned \subseteq Names /\ workers \subseteq Listed.workers
           /\ "machines" \notin setting.lag => Listed.owned = Owned
<1>1. Owned \subseteq Names
  BY DEF Owned
<1>2. CASE "machines" \in setting.lag
  BY <1>2 DEF Listed, WorkersSeen
<1>3. CASE "machines" \notin setting.lag
  BY <1>1, <1>3 DEF Listed
<1> QED
  BY <1>2, <1>3

LEMMA TeardownFacts ==
    ASSUME IInv, Teardown
    PROVE  /\ Refreshed
           /\ errors' = errors \/ (errors < setting.maxErrors /\ errors' = errors + 1)
           /\ \/ pc' = "release" /\ UNCHANGED targets /\ Listed.owned = {}
              \/ pc' = "remove" /\ targets' \subseteq Names /\ Listed.workers = {}
              \/ pc' = "status" /\ UNCHANGED targets
<1>1. Listed.owned \subseteq Names /\ Listed.owned \cap Owned \in SUBSET Names
  BY ListedFacts DEF IInv
<1>2. CASE /\ Listed.owned = {}
           /\ Goto("release") /\ UNCHANGED <<machines, targets, errors>>
  BY <1>2, SameRefreshed DEF Goto, IInv
<1>3. CASE /\ \/ UpdateConditions(Listed.owned \cap Owned)
              \/ ConditionsFail(Listed.owned \cap Owned)
           /\ IF Listed.workers = {}
                THEN Goto("remove") /\ targets' = Listed.owned
                ELSE Goto("status") /\ UNCHANGED targets
  <2>1. PICK ms : ms = Listed.owned \cap Owned
    OBVIOUS
  <2>2. ms \in SUBSET Names /\ (UpdateConditions(ms) \/ ConditionsFail(ms))
    BY <1>1, <1>3, <2>1
  <2>3. Refreshed /\ (errors' = errors \/ (errors < setting.maxErrors /\ errors' = errors + 1))
    BY <2>2, ConditionsRefresh DEF IInv
  <2> QED
    BY <1>1, <1>3, <2>3 DEF Goto
<1>4. CASE Error("status") /\ UNCHANGED <<machines, targets>>
  BY <1>4, SameRefreshed DEF Error, Goto, IInv
<1> QED
  BY <1>2, <1>3, <1>4 DEF Teardown

LEMMA TeardownIInv == ASSUME IInv, Teardown, UNCHANGED setting PROVE IInv'
<1> USE DEF IInv
<1>1. Elsewhere /\ UNCHANGED <<spare, edits, crashes>> /\ pc = "teardown"
  BY DEF Teardown, Elsewhere
<1>2. /\ Refreshed
      /\ errors' = errors \/ (errors < setting.maxErrors /\ errors' = errors + 1)
      /\ \/ pc' = "release" /\ UNCHANGED targets /\ Listed.owned = {}
         \/ pc' = "remove" /\ targets' \subseteq Names /\ Listed.workers = {}
         \/ pc' = "status" /\ UNCHANGED targets
  BY TeardownFacts
<1>3. MachineType' /\ Owned' = Owned /\ TrueIsReady'
  BY <1>1, <1>2, RefreshedFacts DEF Elsewhere
<1>4. ObjectType' /\ WorkersSeen' /\ Untouched'
  BY <1>1, <1>3, ElsewhereFacts
<1>5. targets = {}
  BY <1>1 DEF ControlType
<1>6. ControlType'
  <2>1. errors' \in 0..setting.maxErrors
    BY <1>2, SettingFacts DEF ControlType
  <2> QED
    BY <1>1, <1>2, <1>5, <2>1 DEF ControlType, Elsewhere
<1>7. Spares'
  BY <1>1, <1>2, <1>5 DEF Spares, InfraMade, ConfigMade, ControlType
<1>8. Released'
  BY <1>1, <1>2, <1>3, ListedFacts DEF Released, Elsewhere
<1>9. Room'
  BY <1>2 DEF Room
<1> QED
  BY <1>3, <1>4, <1>6, <1>7, <1>8, <1>9

(* What the deferred patch may store. *)
LEMMA StatusFacts ==
    ASSUME IInv, Status
    PROVE  /\ pc \in {"status", "release"} /\ pc' = "idle"
           /\ errors' = errors \/ (errors < setting.maxErrors /\ errors' = errors + 1)
           /\ kcp' \in KCP
           /\ kcp' = kcp \/ kcp'.st = (IF pc = "release" THEN "gone" ELSE kcp.st)
           /\ kcp'.finalizer \/ kcp'.st = "gone" \/ kcp'.finalizer = kcp.finalizer
<1> DEFINE ready == rec.st = "live" /\ \E m \in Owned : machines[m].node = "ready"
           Patched(init) ==
             [kcp EXCEPT !.initialized = @ \/ init,
                         !.finalizer = @ /\ pc # "release",
                         !.st = IF pc = "release" THEN "gone" ELSE @]
<1>1. /\ pc \in {"status", "release"}
      /\ \/ kcp' = Patched(ready) /\ pc' = "idle" /\ UNCHANGED errors
         \/ /\ errors < setting.maxErrors /\ errors' = errors + 1 /\ pc' = "idle"
            /\ kcp' \in {kcp, Patched(FALSE)}
  BY DEF Status, Error, Goto
<1>2. kcp \in KCP
  BY DEF IInv, ObjectType
<1>3. ASSUME NEW b \in BOOLEAN
      PROVE  /\ Patched(b) \in KCP
             /\ Patched(b).st = IF pc = "release" THEN "gone" ELSE kcp.st
             /\ pc # "release" => Patched(b).finalizer = kcp.finalizer
  <2>1. /\ kcp.initialized \in BOOLEAN /\ kcp.finalizer \in BOOLEAN
        /\ kcp.st \in {"live", "deleting", "gone"}
    BY <1>2 DEF KCP
  <2> QED
    BY <1>2, <2>1 DEF KCP
<1>4. ready \in BOOLEAN /\ FALSE \in BOOLEAN
  OBVIOUS
<1> HIDE DEF Patched, ready
<1>5. PICK b \in BOOLEAN : kcp' = kcp \/ kcp' = Patched(b)
  BY <1>1, <1>4
<1> QED
  BY <1>1, <1>2, <1>3, <1>5

LEMMA StatusIInv == ASSUME IInv, Status, UNCHANGED setting PROVE IInv'
<1> USE DEF IInv
<1>1. UNCHANGED <<setting, kcpSeen, machines, listed, workers, rec, targets, spare, edits, crashes>>
  BY DEF Status
<1>2. /\ pc \in {"status", "release"} /\ pc' = "idle"
      /\ errors' = errors \/ (errors < setting.maxErrors /\ errors' = errors + 1)
      /\ kcp' \in KCP
      /\ kcp' = kcp \/ kcp'.st = (IF pc = "release" THEN "gone" ELSE kcp.st)
      /\ kcp'.finalizer \/ kcp'.st = "gone" \/ kcp'.finalizer = kcp.finalizer
  BY StatusFacts
<1>3. MachineType' /\ Owned' = Owned /\ TrueIsReady'
  BY <1>1, SameRefreshed, RefreshedFacts
<1>4. ObjectType' /\ WorkersSeen'
  BY <1>1, <1>2 DEF ObjectType, WorkersSeen, KCP
<1>5. ControlType'
  <2>1. errors' \in 0..setting.maxErrors
    BY <1>2, SettingFacts DEF ControlType
  <2> QED
    BY <1>1, <1>2, <2>1 DEF ControlType
<1>6. Spares'
  BY <1>1, <1>2 DEF Spares, InfraMade, ConfigMade, ControlType
<1>7. Untouched'
  BY <1>1, <1>2, <1>3 DEF Untouched
<1>8. Released' /\ Room'
  BY <1>2 DEF Released, Room
<1> QED
  BY <1>3, <1>4, <1>5, <1>6, <1>7, <1>8

LEMMA CrashIInv == ASSUME IInv, Crash, UNCHANGED setting PROVE IInv'
<1> USE DEF IInv
<1>1. /\ Elsewhere /\ UNCHANGED <<machines, spare, edits, errors>> /\ pc # "idle"
      /\ crashes < setting.maxCrashes /\ crashes' = crashes + 1 /\ pc' = "idle" /\ targets' = {}
  BY DEF Crash, Elsewhere, Goto
<1>2. MachineType' /\ Owned' = Owned /\ TrueIsReady'
  BY <1>1, SameRefreshed, RefreshedFacts DEF Elsewhere
<1>3. ObjectType' /\ WorkersSeen' /\ Untouched'
  BY <1>1, <1>2, ElsewhereFacts
<1>4. ControlType'
  <2>1. crashes' \in 0..setting.maxCrashes
    BY <1>1, SettingFacts DEF ControlType
  <2> QED
    BY <1>1, <2>1 DEF ControlType, Elsewhere
<1>5. Spares'
  <2>1. ~InfraMade' /\ ~ConfigMade'
    BY <1>1 DEF InfraMade, ConfigMade
  <2>2. crashes \in Nat
    BY DEF ControlType
  <2>3. /\ spare.infra \in Nat /\ spare.config \in Nat
        /\ spare.infra <= crashes + 1 /\ spare.config <= crashes + 1
    BY <2>2 DEF Spares
  <2> QED
    BY <1>1, <2>1, <2>2, <2>3 DEF Spares
<1>6. Released' /\ Room'
  BY <1>1 DEF Released, Room
<1> QED
  BY <1>2, <1>3, <1>4, <1>5, <1>6

(* The user's changes to the object. *)
LEMMA EditDeleteIInv == ASSUME IInv, Edit \/ Delete, UNCHANGED setting PROVE IInv'
<1> USE DEF IInv
<1>1. /\ UNCHANGED <<setting, kcpSeen, machines, listed, workers, pc, rec, targets, spare, errors, crashes>>
      /\ kcp.st = "live"
      /\ edits' = edits \/ (edits < setting.maxEdits /\ edits' = edits + 1)
  BY DEF Edit, Delete
<1>2. /\ kcp' \in KCP /\ kcp'.finalizer = kcp.finalizer
      /\ kcp'.st # "gone" => kcp.st # "gone"
  <2>1. edits + 1 \in 0..setting.maxEdits \/ ~(edits < setting.maxEdits)
    BY SettingFacts DEF ControlType
  <2>2. kcp \in KCP
    BY DEF ObjectType
  <2>3. CASE Edit
    BY <2>1, <2>2, <2>3 DEF Edit, KCP
  <2>4. CASE Delete
    BY <2>2, <2>4 DEF Delete, KCP
  <2> QED
    BY <2>3, <2>4
<1>3. MachineType' /\ Owned' = Owned /\ TrueIsReady' /\ Limit' = Limit
  BY <1>1, SameRefreshed, RefreshedFacts, SameLimit
<1>4. ObjectType' /\ WorkersSeen'
  BY <1>1, <1>2 DEF ObjectType, WorkersSeen, KCP
<1>5. ControlType'
  <2>1. edits' \in 0..setting.maxEdits
    BY <1>1, SettingFacts DEF ControlType
  <2> QED
    BY <1>1, <2>1 DEF ControlType
<1>6. Spares'
  BY <1>1 DEF Spares, InfraMade, ConfigMade
<1>7. Untouched' /\ Released' /\ Room'
  BY <1>1, <1>2, <1>3 DEF Untouched, Released, Room
<1> QED
  BY <1>3, <1>4, <1>5, <1>6, <1>7

(* Cluster API and the nodes change one Machine, and bring none back. *)
LEMMA OnlyIInv ==
    ASSUME IInv, UNCHANGED setting, NEW m \in Names, NEW new \in Machine, Only(m, new),
           \/ new.st = machines[m].st
           \/ machines[m].st = "deleting" /\ new.st = "gone"
           \/ machines[m].st = "up" /\ new.st = "deleting",
           new.revision = machines[m].revision,
           new.agentHealthy = machines[m].agentHealthy,
           setting.nodesFail \/ new.node = machines[m].node \/ new.node = "ready" \/ new.st = "gone"
    PROVE  IInv'
<1> USE DEF IInv
<1>1. /\ UNCHANGED <<setting, kcp, kcpSeen, listed, workers, pc, rec, targets, spare, edits, errors, crashes>>
      /\ machines' = [machines EXCEPT ![m] = new]
  BY DEF Only
<1>2. MachineType'
  BY <1>1 DEF MachineType, Machine
<1>3. /\ machines'[m] = new /\ \A k \in Names \ {m} : machines'[k] = machines[k]
      /\ Owned \subseteq Names
  BY <1>1 DEF MachineType, Owned
<1>4. Owned' = Owned \/ (m \in Owned /\ Owned' = Owned \ {m})
  BY <1>3 DEF Owned
<1>5. TrueIsReady'
  <2>1. \A k \in Owned' : k = m \/ (k \in Owned /\ machines'[k] = machines[k])
    BY <1>3, <1>4
  <2>2. m \in Owned' => new.st # "gone" /\ m \in Owned
    BY <1>3, <1>4 DEF Owned
  <2> QED
    BY <1>1, <1>3, <2>1, <2>2 DEF TrueIsReady
<1>6. ObjectType' /\ WorkersSeen' /\ ControlType'
  BY <1>1, SameObject DEF WorkersSeen, ControlType
<1>7. Spares'
  BY <1>1 DEF Spares, InfraMade, ConfigMade
<1>8. Untouched' /\ Released'
  BY <1>1, <1>4 DEF Untouched, Released
<1>9. Room'
  <2> SUFFICES ASSUME Cardinality(Owned) < Limit PROVE Cardinality(Owned') < Limit'
    BY <1>1 DEF Room
  <2>1. \A k \in Names : machines'[k].revision = machines[k].revision
    BY <1>3
  <2>2. /\ Cardinality(Owned) \in Nat /\ setting.maxSurge \in {0, 1} /\ rec.replicas \in Nat
    BY OwnedFinite, SettingFacts DEF ObjectType, KCP
  <2>3. CASE Owned' = Owned
    <3>1. (\E n \in Owned' : machines'[n].revision # rec.revision) <=>
            (\E n \in Owned : machines[n].revision # rec.revision)
      BY <1>3, <2>1, <2>3
    <3>2. Limit' = Limit
      BY <1>1, <3>1 DEF Limit
    <3> QED
      BY <2>3, <3>2
  <2>4. CASE m \in Owned /\ Owned' = Owned \ {m}
    <3>1. Cardinality(Owned') = Cardinality(Owned) - 1
      BY <2>4, OwnedFinite, FS_RemoveElement
    <3>2. Limit' >= rec.replicas /\ Limit <= rec.replicas + 1 /\ Limit' \in Nat /\ Limit \in Nat
      <4>1. Limit = rec.replicas + setting.maxSurge \/ Limit = rec.replicas + 0
        BY DEF Limit
      <4>2. UNCHANGED <<rec, setting>>
        BY <1>1
      <4>3. Limit' = rec.replicas + setting.maxSurge \/ Limit' = rec.replicas + 0
        BY <4>2 DEF Limit
      <4> QED
        BY ONLY <2>2, <4>1, <4>3
    <3> QED
      BY <2>2, <3>1, <3>2
  <2> QED
    BY <1>4, <2>3, <2>4
<1> QED
  BY <1>2, <1>5, <1>6, <1>7, <1>8, <1>9

LEMMA MachineStepIInv ==
    ASSUME IInv, UNCHANGED setting, NEW m \in Names,
           NodeReady(m) \/ NodeFails(m) \/ MachineGone(m) \/ Collect(m)
    PROVE  IInv'
<1>1. machines[m] \in Machine
  BY DEF IInv, MachineType
<1>2. CASE NodeReady(m)
  <2>1. PICK new : new = [machines[m] EXCEPT !.node = "ready"]
    OBVIOUS
  <2>2. /\ new \in Machine /\ new.st = machines[m].st /\ new.revision = machines[m].revision
        /\ new.agentHealthy = machines[m].agentHealthy /\ new.node = "ready"
    BY <1>1, <2>1 DEF Machine
  <2>3. Only(m, new)
    BY <1>2, <2>1 DEF NodeReady
  <2> QED
    BY <2>2, <2>3, OnlyIInv
<1>3. CASE NodeFails(m)
  <2>1. PICK n \in {"notReady", "unreachable"} : Only(m, [machines[m] EXCEPT !.node = n])
    BY <1>3 DEF NodeFails
  <2>2. PICK new : new = [machines[m] EXCEPT !.node = n]
    OBVIOUS
  <2>3. /\ new \in Machine /\ new.st = machines[m].st /\ new.revision = machines[m].revision
        /\ new.agentHealthy = machines[m].agentHealthy /\ setting.nodesFail
    BY <1>1, <1>3, <2>2 DEF Machine, NodeFails
  <2>4. Only(m, new)
    BY <2>1, <2>2
  <2> QED
    BY <2>3, <2>4, OnlyIInv
<1>4. CASE MachineGone(m)
  <2>1. PICK new : new = [machines[m] EXCEPT !.st = "gone", !.node = "none"]
    OBVIOUS
  <2>2. /\ new \in Machine /\ machines[m].st = "deleting" /\ new.st = "gone"
        /\ new.revision = machines[m].revision /\ new.agentHealthy = machines[m].agentHealthy
    BY <1>1, <1>4, <2>1 DEF Machine, MachineGone
  <2>3. Only(m, new)
    BY <1>4, <2>1 DEF MachineGone
  <2> QED
    BY <2>2, <2>3, OnlyIInv
<1>5. CASE Collect(m)
  <2>1. PICK new : new = [machines[m] EXCEPT !.st = "deleting"]
    OBVIOUS
  <2>2. /\ new \in Machine /\ machines[m].st = "up" /\ new.st = "deleting"
        /\ new.revision = machines[m].revision /\ new.agentHealthy = machines[m].agentHealthy
        /\ new.node = machines[m].node
    BY <1>1, <1>5, <2>1 DEF Machine, Collect
  <2>3. Only(m, new)
    BY <1>5, <2>1 DEF Collect
  <2> QED
    BY <2>2, <2>3, OnlyIInv
<1> QED
  BY <1>2, <1>3, <1>4, <1>5

(* Workers leave, and the caches catch up. *)
LEMMA CachesIInv ==
    ASSUME IInv, UNCHANGED setting, (\E w \in Workers : WorkerGone(w)) \/ SeeKCP \/ SeeMachines
    PROVE  IInv'
<1> USE DEF IInv
<1>1. UNCHANGED <<setting, kcp, machines, pc, rec, targets, spare, edits, errors, crashes>>
  BY DEF WorkerGone, SeeKCP, SeeMachines
<1>2. MachineType' /\ Owned' = Owned /\ TrueIsReady' /\ Limit' = Limit
  BY <1>1, SameRefreshed, RefreshedFacts, SameLimit
<1>3. kcpSeen' \in {kcpSeen, kcp}
  BY DEF WorkerGone, SeeKCP, SeeMachines
<1>4. ObjectType'
  BY <1>1, <1>3 DEF ObjectType, KCP
<1>5. WorkersSeen'
  <2>1. Owned \subseteq Names /\ workers \subseteq Workers
    BY DEF Owned, WorkersSeen
  <2>2. CASE SeeMachines
    BY <2>1, <2>2 DEF SeeMachines, WorkersSeen
  <2>3. CASE listed' = listed /\ workers' \subseteq workers
    BY <2>3 DEF WorkersSeen
  <2> QED
    BY <2>2, <2>3 DEF WorkerGone, SeeKCP
<1>6. ControlType' /\ Spares'
  BY <1>1 DEF ControlType, Spares, InfraMade, ConfigMade
<1>7. Untouched'
  BY <1>1, <1>2, <1>3 DEF Untouched, ObjectType, KCP
<1>8. Released' /\ Room'
  BY <1>1, <1>2 DEF Released, Room
<1> QED
  BY <1>2, <1>4, <1>5, <1>6, <1>7, <1>8

LEMMA StutterIInv == ASSUME IInv, UNCHANGED vars PROVE IInv'
<1> USE DEF IInv, vars
<1>1. MachineType' /\ Owned' = Owned /\ TrueIsReady' /\ Limit' = Limit
  BY SameRefreshed, RefreshedFacts, SameLimit
<1>2. ObjectType' /\ WorkersSeen' /\ ControlType'
  BY SameObject DEF WorkersSeen, ControlType
<1>3. Spares' /\ Untouched' /\ Released' /\ Room'
  BY <1>1 DEF Spares, InfraMade, ConfigMade, Untouched, Released, Room
<1> QED
  BY <1>1, <1>2, <1>3

LEMMA NextIInv == ASSUME IInv, [Next]_vars PROVE IInv'
<1>1. CASE Next
  <2>1. UNCHANGED setting
    BY <1>1 DEF Next
  <2>2. CASE Controller
    BY <2>1, <2>2, BeginIInv, ReconcileIInv, CloneTemplateIInv, GenerateK3sConfigIInv,
       GenerateMachineIInv, CleanUpIInv, RemoveIInv, TeardownIInv, StatusIInv DEF Controller
  <2>3. CASE ClusterAPI \/ \E m \in Names : NodeFails(m)
    BY <2>1, <2>3, MachineStepIInv DEF ClusterAPI
  <2>4. CASE Crash \/ Edit \/ Delete
    BY <2>1, <2>4, CrashIInv, EditDeleteIInv
  <2>5. CASE (\E w \in Workers : WorkerGone(w)) \/ SeeKCP \/ SeeMachines
    BY <2>1, <2>5, CachesIInv
  <2> QED
    BY <1>1, <2>2, <2>3, <2>4, <2>5 DEF Next
<1>2. CASE UNCHANGED vars
  BY <1>2, StutterIInv
<1> QED
  BY <1>1, <1>2

-----------------------------------------------------------------------------
(* Theorems *)

(* The invariant of the reconciliation and its surroundings. *)
THEOREM Invariance == Spec => []IInv
<1>1. IInv /\ [Next]_vars => IInv'
  BY NextIInv
<1> QED
  BY InitIInv, <1>1, PTL DEF Spec

(* Every variable keeps its type; no more than one clone of each kind is    *)
(* ever on its way beyond those that crashes and failed clean-ups left.     *)
THEOREM TypeCorrect == Spec => []TypeOK
<1>1. ASSUME IInv PROVE TypeOK
  <2>1. crashes \in 0..setting.maxCrashes /\ setting.maxCrashes \in Nat
    BY <1>1, SettingFacts DEF IInv, ControlType
  <2>2. spare \in [infra : 0..setting.maxCrashes + 1, config : 0..setting.maxCrashes + 1]
    <3>1. spare \in [infra : Nat, config : Nat]
          /\ spare.infra <= crashes + 1 /\ spare.config <= crashes + 1
      BY <1>1, <2>1 DEF IInv, Spares
    <3> QED
      BY <2>1, <3>1
  <2>3. workers \subseteq Workers
    BY <1>1 DEF IInv, WorkersSeen
  <2> QED
    BY <1>1, <2>2, <2>3 DEF IInv, TypeOK, ObjectType, MachineType, ControlType, WorkersSeen
<1> QED
  BY Invariance, <1>1, PTL

(* cloneConfigsAndGenerateMachine leaves no clone behind but for a crash or *)
(* a failed clean-up, whichever of its requests fails.                      *)
THEOREM NoClonesLeft == Spec => []NothingDangles
<1>1. ASSUME IInv PROVE NothingDangles
  <2>1. crashes \in Nat
    BY <1>1 DEF IInv, ControlType
  <2> QED
    BY <1>1, <2>1 DEF IInv, Spares, InfraMade, ConfigMade, NothingDangles
<1> QED
  BY Invariance, <1>1, PTL

(* scaleUpControlPlane never exceeds the replicas and the surge that its    *)
(* own copy of the object allows, though Machines come and go between the   *)
(* decision and the creation.                                               *)
THEOREM SurgeRespected == Spec => GrowsWithinSurge
<1>1. ASSUME IInv, [Next]_vars, NEW m \in Names,
             machines[m].st = "absent", machines'[m].st = "up"
      PROVE  Cardinality(Owned) < Limit
  <2>1. machines \in [Names -> Machine]
    BY <1>1 DEF IInv, MachineType
  <2>2. CASE GenerateMachine
    BY <1>1, <2>2 DEF GenerateMachine, IInv, Room
  <2>3. CASE Refreshed
    BY <1>1, <2>3 DEF Refreshed
  <2>4. CASE CleanUp
    BY <1>1, <2>1, <2>4 DEF CleanUp, Machine
  <2>5. CASE Remove
    BY <1>1, <2>1, <2>5 DEF Remove, Machine
  <2>6. CASE \E k \in Names : NodeReady(k) \/ NodeFails(k) \/ MachineGone(k) \/ Collect(k)
    <3>1. PICK k \in Names : NodeReady(k) \/ NodeFails(k) \/ MachineGone(k) \/ Collect(k)
      BY <2>6
    <3>2. k # m => machines'[m] = machines[m]
      BY <2>1, <3>1 DEF NodeReady, NodeFails, MachineGone, Collect, Only
    <3>3. NodeFails(m) => machines'[m].st = machines[m].st
      BY <2>1 DEF NodeFails, Only, Machine
    <3> QED
      BY <1>1, <3>1, <3>2, <3>3 DEF NodeReady, MachineGone, Collect
  <2>7. CASE UNCHANGED machines
    BY <1>1, <2>7
  <2>8. Reconcile => Refreshed
    <3>1. Owned \in SUBSET Names
      BY DEF Owned
    <3> QED
      BY <1>1, <3>1, ConditionsRefresh, SameRefreshed DEF Reconcile, IInv
  <2>9. Teardown => Refreshed
    BY <1>1, TeardownFacts
  <2> QED
    BY <1>1, <2>2, <2>3, <2>4, <2>5, <2>6, <2>7, <2>8, <2>9 DEF Next, Controller, ClusterAPI,
       Begin, CloneTemplate, GenerateK3sConfig, Status, Crash, Edit, Delete, WorkerGone, SeeKCP,
       SeeMachines, vars
<1>2. IInv /\ [Next]_vars =>
        [\A m \in Names : machines[m].st = "absent" /\ machines'[m].st = "up" =>
           Cardinality(Owned) <
             rec.replicas + IF \E n \in Owned : machines[n].revision # rec.revision
                              THEN setting.maxSurge ELSE 0]_vars
  BY <1>1 DEF Limit
<1> QED
  BY Invariance, <1>2, PTL DEF Spec, GrowsWithinSurge

(* preflightChecks make MaxUnavailable superfluous: while nodes do not fail *)
(* the Machine chosen for deletion is the only one that may be unready, and *)
(* no more than one is chosen, for any size and with or without surge.      *)
THEOREM HealthyBeforeScaleDown == Spec => OthersReady
<1> DEFINE Others == Owned \ targets'
           Safe == /\ \A m \in Others : machines[m].st = "up" /\ machines[m].node = "ready"
                   /\ Cardinality(Others) + 1 >= rec.replicas + setting.maxSurge
                   /\ Cardinality(targets') = 1
<1>1. ASSUME IInv, [Next]_vars, ~setting.nodesFail, pc = "reconcile", pc' = "remove"
      PROVE  Safe
  <2>1. Reconcile
    BY <1>1 DEF Next, Controller, ClusterAPI, Begin, CloneTemplate, GenerateK3sConfig,
       GenerateMachine, CleanUp, Remove, Teardown, Status, Crash, Edit, Delete, NodeReady,
       NodeFails, MachineGone, Collect, Only, WorkerGone, SeeKCP, SeeMachines, Goto, vars
  <2>2. UNCHANGED setting
    BY <1>1 DEF Next, vars
  <2>3. Owned \in SUBSET Names
    BY DEF Owned
  <2>4. UpdateConditions(Owned) /\ Choose
    BY <1>1, <2>1 DEF Reconcile, Error, Goto
  <2>5. Refreshed
    BY <1>1, <2>3, <2>4, ConditionsRefresh DEF IInv
  <2>6. /\ targets' = Victim /\ Owned # {} /\ Preflight(machines', Victim)
        /\ Cardinality(Owned) >= rec.replicas + setting.maxSurge
    BY <1>1, <2>4, <2>5, ChooseFacts
  <2>7. Cardinality(Victim) = 1 /\ \E m \in Owned : Victim = {m}
    BY <2>6, VictimFacts
  <2>8. TrueIsReady' /\ Owned' = Owned
    BY <1>1, <2>2, <2>5, RefreshedFacts DEF IInv
  <2>9. ASSUME NEW m \in Others PROVE machines[m].st = "up" /\ machines[m].node = "ready"
    <3>1. m \in Owned /\ m \in Names /\ m \notin Victim
      BY <2>3, <2>6
    <3>2. machines[m].st # "deleting" /\ machines'[m].agentHealthy = "True"
      BY <2>6, <3>1 DEF Preflight
    <3>3. machines'[m].node = "ready"
      BY <1>1, <2>2, <2>8, <3>1, <3>2 DEF TrueIsReady
    <3> QED
      BY <2>5, <3>1, <3>2, <3>3 DEF Refreshed, Owned
  <2>10. Cardinality(Others) = Cardinality(Owned) - 1
    BY <2>6, <2>7, OwnedFinite, FS_RemoveElement
  <2>11. Cardinality(Owned) \in Nat /\ rec.replicas \in Nat /\ setting.maxSurge \in Nat
    BY <1>1, OwnedFinite, SettingFacts DEF IInv, ObjectType, KCP
  <2> QED
    BY <2>6, <2>7, <2>9, <2>10, <2>11
<1>2. IInv /\ [Next]_vars =>
        [~setting.nodesFail /\ pc = "reconcile" /\ pc' = "remove" => Safe]_vars
  BY <1>1
<1> QED
  BY Invariance, <1>2, PTL DEF Spec, OthersReady

(* reconcileDelete deletes Machines only when no worker is left, however    *)
(* late its cache, and the object goes only after its Machines while that   *)
(* cache keeps up.                                                          *)
THEOREM TeardownInOrder == Spec => TornDownInOrder
<1>1. ASSUME IInv, [Next]_vars, pc = "teardown", pc' = "remove" PROVE workers = {}
  <2>1. Teardown
    BY <1>1 DEF Next, Controller, ClusterAPI, Begin, Reconcile, CloneTemplate, GenerateK3sConfig,
       GenerateMachine, CleanUp, Remove, Status, Crash, Edit, Delete, NodeReady,
       NodeFails, MachineGone, Collect, Only, WorkerGone, SeeKCP, SeeMachines, Goto, vars
  <2>2. Listed.workers = {}
    BY <1>1, <2>1, TeardownFacts
  <2> QED
    BY <1>1, <2>2, ListedFacts DEF IInv
<1>2. ASSUME IInv, [Next]_vars, "machines" \notin setting.lag, kcp.st # "gone", kcp'.st = "gone"
      PROVE  Owned = {}
  <2>1. Status \/ Begin \/ Edit \/ Delete
    BY <1>2 DEF Next, Controller, ClusterAPI, Reconcile, CloneTemplate, GenerateK3sConfig,
       GenerateMachine, CleanUp, Remove, Teardown, Crash, NodeReady,
       NodeFails, MachineGone, Collect, Only, WorkerGone, SeeKCP, SeeMachines, vars
  <2>2. kcp \in KCP
    BY <1>2 DEF IInv, ObjectType
  <2>3. CASE Status
    BY <1>2, <2>3, StatusFacts DEF IInv, Released
  <2>4. CASE Begin
    BY <1>2, <2>2, <2>4 DEF Begin, KCP
  <2>5. CASE Edit
    BY <1>2, <2>2, <2>5 DEF Edit, KCP
  <2>6. CASE Delete
    BY <1>2, <2>2, <2>6 DEF Delete, KCP, IInv, Untouched
  <2> QED
    BY <2>1, <2>3, <2>4, <2>5, <2>6
<1>3. IInv /\ [Next]_vars =>
        [/\ pc = "teardown" /\ pc' = "remove" => workers = {}
         /\ "machines" \notin setting.lag /\ kcp.st # "gone" /\ kcp'.st = "gone"
              => Owned = {}]_vars
  BY <1>1, <1>2
<1> QED
  BY Invariance, <1>3, PTL DEF Spec, TornDownInOrder
=============================================================================
