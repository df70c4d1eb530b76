---------------------------- MODULE InstancePool ----------------------------
(***************************************************************************)
(* How KKMachines take hosts of the KKCluster and give them back           *)
(* (controllers/kkmachine: reconcileNormal, reconcileDelete, createInstance *)
(* and the part of controllers/kkinstance that cleans a host).             *)
(*                                                                         *)
(* A KKMachine takes a host by creating the KKInstance named after it, and *)
(* records the name in Spec.ProviderID when its reconciliation ends.       *)
(* Deleted, it deletes the KKInstance, waits until the KKInstance          *)
(* controller has cleaned the host, and drops its finalizer.  All workers  *)
(* run at once, one step is one request or one command.  Objects are read  *)
(* from the informer caches; those of the kinds in lag may be behind.      *)
(* A request fails or the manager restarts MaxFaults times in all.         *)
(*                                                                         *)
(* Abstracted: infrastructure and bootstrap data are ready and nothing is  *)
(* paused; instance states and conditions, which only make the caller come *)
(* back later; the phases between the first and the last command.          *)
(***************************************************************************)
EXTENDS Naturals, Sequences

CONSTANTS
    Machines,           \* KKMachines
    Hosts,              \* host names, and so names of KKInstances
    Candidates,         \* per KKMachine: the hosts of its roles, in order
    Removable,          \* KKMachines that are deleted at some time
    Lags,               \* the sets of kinds whose caches may be stale
    MaxFaults           \* bound: failing requests and restarts

None == "none"

ASSUME CandidatesAssumption == Candidates \in [Machines -> Seq(Hosts)]
ASSUME NoneAssumption == None \notin Machines \cup Hosts
ASSUME RemovableAssumption == Removable \subseteq Machines
ASSUME LagAssumption == Lags \subseteq SUBSET {"kkmachine", "kkinstance"}
ASSUME FaultAssumption == MaxFaults \in Nat

VARIABLES
    lag,                \* the kinds whose cache may be stale, chosen once
    machine,            \* per KKMachine: the object at the API server
    machineSeen,        \* the same in the cache
    inst,               \* per host: its KKInstance at the API server
    instSeen,           \* hosts that have a KKInstance in the cache
    dirty,              \* hosts on which commands have been run
    mutex,              \* holder of Reconciler.mutex
    pc,                 \* per KKMachine: the next step of its reconciliation
    copy,               \* per KKMachine: the object it works on
    faults

vars == <<lag, machine, machineSeen, inst, instSeen, dirty, mutex, pc, copy, faults>>

KKMachine == [live : BOOLEAN, deleting : BOOLEAN, finalizer : BOOLEAN,
              providerID : Hosts \cup {None}]
KKInstance == [owner : Machines \cup {None}, deleting : BOOLEAN, finalizer : BOOLEAN]
NoInstance == [owner |-> None, deleting |-> FALSE, finalizer |-> FALSE]
NewMachine == [live |-> TRUE, deleting |-> FALSE, finalizer |-> FALSE, providerID |-> None]

Exists(h) == inst[h].owner # None

TypeOK ==
    /\ machine \in [Machines -> KKMachine] /\ machineSeen \in [Machines -> KKMachine]
    /\ inst \in [Hosts -> KKInstance]
    /\ \A h \in Hosts : ~Exists(h) => inst[h] = NoInstance
    /\ instSeen \subseteq Hosts /\ dirty \subseteq Hosts
    /\ pc \in [Machines -> {"idle", "finalizer", "tryLock", "create", "close", "delete", "drop"}]
    /\ copy \in [Machines -> KKMachine]
    /\ \A m \in Machines : pc[m] = "create" <=> mutex = m
    /\ mutex \in Machines \cup {None}
    /\ faults \in 0..MaxFaults

Init ==
    /\ lag \in Lags
    /\ machine = [m \in Machines |-> NewMachine] /\ machineSeen = machine
    /\ inst = [h \in Hosts |-> NoInstance] /\ instSeen = {}
    /\ dirty = {}
    /\ mutex = None
    /\ pc = [m \in Machines |-> "idle"]
    /\ copy = machine
    /\ faults = 0

-----------------------------------------------------------------------------
(* What a read returns. *)
Read(m) == IF "kkmachine" \in lag THEN machineSeen[m] ELSE machine[m]
Listed == IF "kkinstance" \in lag THEN instSeen ELSE {h \in Hosts : Exists(h)}

Goto(m, step) == pc' = [pc EXCEPT ![m] = step]

(* Reconcile, up to the result of findInstance. *)
Begin(m) ==
    LET o == Read(m)
        found == o.providerID \in Listed
    IN  /\ pc[m] = "idle" /\ o.live
        /\ copy' = [copy EXCEPT ![m] = o]
        /\ Goto(m, IF o.deleting THEN IF found THEN "delete" ELSE "drop"
                   ELSE IF found THEN "close"
                   ELSE IF o.providerID # None THEN "idle"
                   ELSE IF o.finalizer THEN "tryLock" ELSE "finalizer")
        /\ UNCHANGED <<machine, machineSeen, inst, instSeen, dirty, mutex, faults>>

(* The finalizer is saved at once.  The API server refuses it when the      *)
(* KKMachine is gone or being deleted.                                      *)
AddFinalizer(m) ==
    /\ pc[m] = "finalizer"
    /\ IF machine[m].live /\ ~machine[m].deleting
         THEN /\ machine' = [machine EXCEPT ![m].finalizer = TRUE]
              /\ copy' = [copy EXCEPT ![m].finalizer = TRUE]
              /\ Goto(m, "tryLock")
         ELSE Goto(m, "idle") /\ UNCHANGED <<machine, copy>>
    /\ UNCHANGED <<machineSeen, inst, instSeen, dirty, mutex, faults>>

(* Mutant: hosts in use are not left out. *)
Unassigned_any(m) == DOMAIN Candidates[m]

(* getUnassignedInstanceSpec: the places, among the hosts of the roles of   *)
(* the KKMachine, of those that have no KKInstance.                         *)
Unassigned(m) == {i \in DOMAIN Candidates[m] : Candidates[m][i] \notin Listed}

(* Its first unassigned host is the KKMachine's choice. *)
ChooseHost(m) ==
    \E i \in Unassigned(m) :
      /\ \A j \in Unassigned(m) : i <= j
      /\ copy' = [copy EXCEPT ![m].providerID = Candidates[m][i]]

(* The lock is tried; the host is chosen under it. *)
TryLock(m) ==
    /\ pc[m] = "tryLock"
    /\ \/ /\ mutex = None
          /\ ChooseHost(m)
          /\ mutex' = m
          /\ Goto(m, "create")
       \/ /\ mutex # None \/ Unassigned(m) = {}
          /\ Goto(m, "idle")
          /\ UNCHANGED <<mutex, copy>>
    /\ UNCHANGED <<machine, machineSeen, inst, instSeen, dirty, faults>>

(* Mutant: a KKInstance of that name is taken over. *)
Create_takesOver(m) ==
    LET h == copy[m].providerID
    IN  /\ pc[m] = "create"
        /\ inst' = [inst EXCEPT ![h] = [NoInstance EXCEPT !.owner = m]]
        /\ Goto(m, "close")
        /\ mutex' = None
        /\ UNCHANGED <<machine, machineSeen, instSeen, dirty, copy, faults>>

(* createInstance: the API server refuses a second KKInstance of a name. *)
Create(m) ==
    LET h == copy[m].providerID
    IN  /\ pc[m] = "create"
        /\ IF Exists(h)
             THEN Goto(m, "idle") /\ UNCHANGED inst
             ELSE /\ inst' = [inst EXCEPT ![h] = [NoInstance EXCEPT !.owner = m]]
                  /\ Goto(m, "close")
        /\ mutex' = None
        /\ UNCHANGED <<machine, machineSeen, instSeen, dirty, copy, faults>>

(* SetProviderID, saved when the scope is closed. *)
Close(m) ==
    /\ pc[m] = "close"
    /\ machine' = IF machine[m].live
                    THEN [machine EXCEPT ![m].providerID = copy[m].providerID] ELSE machine
    /\ Goto(m, "idle")
    /\ UNCHANGED <<machineSeen, inst, instSeen, dirty, mutex, copy, faults>>

-----------------------------------------------------------------------------
(* Deletion *)

(* Mutant: the KKMachine does not come back to see the KKInstance gone. *)
DeleteInstance_noWait(m) ==
    LET h == copy[m].providerID
    IN  /\ pc[m] = "delete"
        /\ inst' = IF ~Exists(h) THEN inst
                   ELSE IF inst[h].finalizer THEN [inst EXCEPT ![h].deleting = TRUE]
                   ELSE [inst EXCEPT ![h] = NoInstance]
        /\ Goto(m, "drop")
        /\ UNCHANGED <<machine, machineSeen, instSeen, dirty, mutex, copy, faults>>

(* deleteInstance: the KKInstance of that name, if there is one, is deleted *)
(* or marked; the KKMachine comes back later.                               *)
DeleteInstance(m) ==
    LET h == copy[m].providerID
    IN  /\ pc[m] = "delete"
        /\ inst' = IF ~Exists(h) THEN inst
                   ELSE IF inst[h].finalizer THEN [inst EXCEPT ![h].deleting = TRUE]
                   ELSE [inst EXCEPT ![h] = NoInstance]
        /\ Goto(m, "idle")
        /\ UNCHANGED <<machine, machineSeen, instSeen, dirty, mutex, copy, faults>>

(* Mutant: the finalizer is kept. *)
DropFinalizer_keeps(m) ==
    /\ pc[m] = "drop"
    /\ Goto(m, "idle")
    /\ UNCHANGED <<machine, machineSeen, inst, instSeen, dirty, mutex, copy, faults>>

(* The finalizer is removed and the KKMachine gone. *)
DropFinalizer(m) ==
    /\ pc[m] = "drop"
    /\ machine' = [machine EXCEPT ![m].live = FALSE]
    /\ Goto(m, "idle")
    /\ UNCHANGED <<machineSeen, inst, instSeen, dirty, mutex, copy, faults>>

Reconcile(m) ==
    \/ Begin(m) \/ AddFinalizer(m) \/ TryLock(m) \/ Create(m) \/ Close(m)
    \/ DeleteInstance(m) \/ DropFinalizer(m)

(* Somebody deletes the KKMachine. *)
DeleteMachine(m) ==
    /\ m \in Removable /\ machine[m].live /\ ~machine[m].deleting
    /\ machine' = [machine EXCEPT ![m].deleting = TRUE, ![m].live = machine[m].finalizer]
    /\ UNCHANGED <<machineSeen, inst, instSeen, dirty, mutex, pc, copy, faults>>

-----------------------------------------------------------------------------
(* The KKInstance controller.  Without the owning KKMachine it does nothing. *)

Owned(h) == Exists(h) /\ machine[inst[h].owner].live

(* Mutant: the host is worked on before the finalizer is saved. *)
Bootstrap_early(h) ==
    /\ Owned(h) /\ ~inst[h].deleting /\ h \notin dirty
    /\ dirty' = dirty \cup {h}
    /\ UNCHANGED <<machine, machineSeen, inst, instSeen, mutex, pc, copy, faults>>

(* reconcileNormal: the finalizer is saved, then the phases run. *)
Bootstrap(h) ==
    /\ Owned(h) /\ ~inst[h].deleting
    /\ \/ /\ ~inst[h].finalizer
          /\ inst' = [inst EXCEPT ![h].finalizer = TRUE]
          /\ UNCHANGED dirty
       \/ /\ inst[h].finalizer /\ h \notin dirty
          /\ dirty' = dirty \cup {h}
          /\ UNCHANGED inst
    /\ UNCHANGED <<machine, machineSeen, instSeen, mutex, pc, copy, faults>>

(* reconcileDelete: the host is cleaned, then the finalizer removed. *)
CleanUp(h) ==
    /\ Owned(h) /\ inst[h].deleting
    /\ \/ /\ h \in dirty
          /\ dirty' = dirty \ {h}
          /\ UNCHANGED inst
       \/ /\ h \notin dirty
          /\ inst' = [inst EXCEPT ![h] = NoInstance]
          /\ UNCHANGED dirty
    /\ UNCHANGED <<machine, machineSeen, instSeen, mutex, pc, copy, faults>>

(* The informers deliver a change. *)
SeeMachine(m) ==
    /\ "kkmachine" \in lag /\ machineSeen[m] # machine[m]
    /\ machineSeen' = [machineSeen EXCEPT ![m] = machine[m]]
    /\ UNCHANGED <<machine, inst, instSeen, dirty, mutex, pc, copy, faults>>

SeeInstance(h) ==
    /\ "kkinstance" \in lag /\ Exists(h) # (h \in instSeen)
    /\ instSeen' = IF Exists(h) THEN instSeen \cup {h} ELSE instSeen \ {h}
    /\ UNCHANGED <<machine, machineSeen, inst, dirty, mutex, pc, copy, faults>>

(* A request fails, or the manager restarts: reconciliations break off. *)
BreakOff(S) ==
    /\ faults < MaxFaults
    /\ \A m \in S : pc[m] # "idle"
    /\ pc' = [m \in Machines |-> IF m \in S THEN "idle" ELSE pc[m]]
    /\ mutex' = IF mutex \in S THEN None ELSE mutex
    /\ faults' = faults + 1
    /\ UNCHANGED <<machine, machineSeen, inst, instSeen, dirty, copy>>

Next ==
    /\ \/ \E m \in Machines : Reconcile(m) \/ DeleteMachine(m) \/ SeeMachine(m)
       \/ \E h \in Hosts : Bootstrap(h) \/ CleanUp(h) \/ SeeInstance(h)
       \/ \E S \in SUBSET Machines \ {{}} : BreakOff(S)
    /\ UNCHANGED lag

(* A KKMachine is requeued after every result that leaves work to do, the   *)
(* periodic resync of KKMachines requeues their KKInstances, the informers  *)
(* catch up.                                                                *)
Spec ==
    /\ Init /\ [][Next]_vars
    /\ \A m \in Machines :
         WF_vars(Reconcile(m) /\ UNCHANGED lag) /\ WF_vars(SeeMachine(m) /\ UNCHANGED lag)
    /\ \A h \in Hosts :
         /\ WF_vars(Bootstrap(h) /\ UNCHANGED lag) /\ WF_vars(CleanUp(h) /\ UNCHANGED lag)
         /\ WF_vars(SeeInstance(h) /\ UNCHANGED lag)

-----------------------------------------------------------------------------
(* Properties *)

(* While no KKMachine is being deleted, ProviderID is a unique identifier   *)
(* (the comment on KKMachineSpec): no two KKMachines record the same host,  *)
(* although both choose from a stale cache and either may break off between *)
(* the KKInstance and the record.                                           *)
UniqueProviderID ==
    (\A m \in Machines : ~machine[m].deleting) =>
      \A m1, m2 \in {m \in Machines : machine[m].providerID # None} :
        machine[m1].providerID = machine[m2].providerID => m1 = m2

(* A host on which commands have been run is given back only after it has   *)
(* been cleaned: it has a KKInstance with a finalizer, whoever deletes it   *)
(* and whenever (the finalizer is registered before the first phase).       *)
DirtyHostIsKept == \A h \in dirty : Exists(h) /\ inst[h].finalizer

(* KubeKey resources are not orphaned on delete (the comment on the         *)
(* finalizer): while caches keep up and nothing has failed, a KKInstance    *)
(* does not outlive its KKMachine.                                          *)
NotOrphaned ==
    lag = {} /\ faults = 0 => \A h \in Hosts : Exists(h) => machine[inst[h].owner].live

(* Unless KKMachines are deleted or the hosts of its roles run out, every   *)
(* KKMachine gets a host and its host is set up, whoever else holds the     *)
(* mutex or takes the host first.                                           *)
EveryMachineServed ==
    \/ <>(\E m \in Machines : machine[m].deleting)
    \/ <>[](\A m \in Machines :
               \/ machine[m].providerID # None /\ machine[m].providerID \in dirty
               \/ \A i \in DOMAIN Candidates[m] : Exists(Candidates[m][i]))

(* A deleted KKMachine goes away, after its KKInstance has been cleaned up, *)
(* even when its host has meanwhile become the host of another KKMachine.   *)
DeletionCompletes ==
    \A m \in Removable : machine[m].deleting ~> ~machine[m].live
=============================================================================
