-------------------------- MODULE K3sControlPlane --------------------------
(***************************************************************************)
(* The reconciliation of a K3sControlPlane (controlplane/k3s/controllers): *)
(* it keeps Spec.Replicas control-plane Machines of the version of its     *)
(* spec, replaces outdated ones by scaling up and down, and on deletion    *)
(* removes them after the workers and drops its finalizer last.            *)
(*                                                                         *)
(* One worker reconciles the object.  Machines are listed uncached in      *)
(* reconcile and from the informer cache in reconcileDelete, the object    *)
(* itself always from the cache; the caches of the kinds in lag may be     *)
(* behind.  Users edit the spec and delete the object, Cluster API         *)
(* provisions Machines and takes them down, and nodes fail, at any time.   *)
(*                                                                         *)
(* Abstracted: what makes a Machine outdated (version, template, metadata, *)
(* RolloutAfter) is a revision number; the paused and infrastructure-ready *)
(* tests, certificates and kubeconfig precede all Machines and only delay; *)
(* KubeKey defines no failure domains, so the oldest candidate is removed; *)
(* every Machine is created here, so that none is adopted and the second   *)
(* uncached list of initializeControlPlane returns what the first did.     *)
(***************************************************************************)
EXTENDS Naturals, FiniteSets

CONSTANTS
    MaxMachines,        \* bound: Machines created in all; a number is a name
    Workers,            \* worker Machines a cluster may have
    Settings            \* the circumstances to be explored: see Setting

Setting ==
    [sizes : SUBSET (Nat \ {0}),       \* values Spec.Replicas takes
     maxSurge : {0, 1},                \* RollingUpdate.MaxSurge
     annotated : SUBSET Nat,           \* Machines with the delete-machine annotation
     workers : SUBSET Workers,         \* worker Machines of the cluster
     lag : SUBSET {"kcp", "machines"}, \* kinds whose cache may be stale
     nodesFail : BOOLEAN,              \* do nodes fail
     deletable : BOOLEAN,              \* may the object be deleted
     lostReplies : BOOLEAN,            \* may a Create be carried out and its reply be lost
     maxEdits : Nat,                   \* bound: changes of the spec
     maxErrors : Nat,                  \* bound: failing requests
     maxCrashes : Nat]                 \* bound: restarts, and failing clean-ups

ASSUME BoundAssumption == MaxMachines \in Nat
ASSUME SettingAssumption == \A s \in Settings : s \in Setting /\ s.sizes # {}
ASSUME SurgeAssumption == \A s \in Settings : s.maxSurge = 0 => \A n \in s.sizes : n >= 3

VARIABLES
    setting,            \* the circumstances, chosen once
    kcp,                \* the K3sControlPlane at the API server
    kcpSeen,            \* the same in the cache
    machines,           \* per name: the Machine, its node and its condition
    listed,             \* names and workers the Machine cache holds
    workers,            \* worker Machines that still exist
    pc,                 \* the next step of the reconciliation
    rec,                \* the copy of the object it works on
    targets,            \* Machines it is about to delete
    spare,              \* clones of the templates that no Machine refers to
    edits, errors, crashes

vars == <<setting, kcp, kcpSeen, machines, listed, workers, pc, rec, targets, spare,
          edits, errors, crashes>>

Names == 1..MaxMachines
KCP == [st : {"live", "deleting", "gone"}, finalizer : BOOLEAN, initialized : BOOLEAN,
        revision : 0..setting.maxEdits, replicas : setting.sizes]
Machine == [st : {"absent", "up", "deleting", "gone"}, revision : 0..setting.maxEdits,
            node : {"none", "ready", "notReady", "unreachable"},
            agentHealthy : {"none", "True", "False", "Unknown"},
            clones : BOOLEAN]
NoMachine == [st |-> "absent", revision |-> 0, node |-> "none",
              agentHealthy |-> "none", clones |-> TRUE]

Owned == {m \in Names : machines[m].st \in {"up", "deleting"}}

TypeOK ==
    /\ kcp \in KCP /\ kcpSeen \in KCP /\ rec \in KCP
    /\ machines \in [Names -> Machine]
    /\ listed \in [owned : SUBSET Names, workers : SUBSET Workers]
    /\ workers \subseteq Workers
    /\ pc \in {"idle", "reconcile", "clone", "config", "machine", "cleanInfra",
               "cleanBoth", "remove", "teardown", "status", "release"}
    /\ targets \subseteq Names
    /\ spare \in [infra : 0..setting.maxCrashes + 1, config : 0..setting.maxCrashes + 1]
    /\ edits \in 0..setting.maxEdits /\ errors \in 0..setting.maxErrors
    /\ crashes \in 0..setting.maxCrashes

Init ==
    /\ setting \in Settings
    /\ kcp \in [st : {"live"}, finalizer : {FALSE}, initialized : {FALSE},
                revision : {0}, replicas : setting.sizes]
    /\ kcpSeen = kcp /\ rec = kcp
    /\ machines = [m \in Names |-> NoMachine]
    /\ workers = setting.workers
    /\ listed = [owned |-> {}, workers |-> workers]
    /\ pc = "idle"
    /\ targets = {}
    /\ spare = [infra |-> 0, config |-> 0]
    /\ edits = 0 /\ errors = 0 /\ crashes = 0

-----------------------------------------------------------------------------
(* What a read returns from the cache. *)
ReadKCP == IF "kcp" \in setting.lag THEN kcpSeen ELSE kcp
Listed == IF "machines" \in setting.lag THEN listed
          ELSE [owned |-> Owned, workers |-> workers]

Goto(step) == pc' = step

(* A request fails and the reconciliation continues at step. *)
Error(step) ==
    /\ errors < setting.maxErrors
    /\ errors' = errors + 1
    /\ Goto(step)

(* Reconcile.  A new object gets its finalizer, and nothing else. *)
Begin ==
    /\ pc = "idle" /\ ReadKCP.st # "gone"
    /\ rec' = ReadKCP
    /\ IF ~ReadKCP.finalizer
         THEN /\ kcp' = IF kcp.st = "live" THEN [kcp EXCEPT !.finalizer = TRUE] ELSE kcp
              /\ UNCHANGED pc
         ELSE /\ Goto(IF ReadKCP.st = "deleting" THEN "teardown" ELSE "reconcile")
              /\ UNCHANGED kcp
    /\ UNCHANGED <<kcpSeen, machines, listed, workers, targets, spare, edits, errors, crashes>>

-----------------------------------------------------------------------------
(* UpdateAgentConditions *)

(* The condition of a Machine after an undisturbed update.  A node that is  *)
(* not ready and not tainted unreachable leaves it as it was.               *)
Inspected(m) ==
    LET x == machines[m]
    IN  CASE x.node = "none" -> x.agentHealthy
          [] x.node # "none" /\ x.st = "deleting" -> "False"
          [] x.node = "unreachable" /\ x.st # "deleting" -> "Unknown"
          [] x.node = "ready" /\ x.st # "deleting" -> "True"
          [] OTHER -> x.agentHealthy

(* Listing the nodes fails: all Unknown; reading one node fails: it is      *)
(* Unknown, and the nodes after it are not looked at.                       *)
Disturbed(ms) ==
    {[m \in ms |-> "Unknown"]} \cup
    {[m \in ms |-> IF m = bad THEN "Unknown"
                   ELSE IF m \in before THEN Inspected(m) ELSE machines[m].agentHealthy] :
       bad \in {m \in ms : machines[m].node # "none"}, before \in SUBSET ms}

(* What PatchMachines leaves at the API server. *)
PatchMachines(ms, conds) ==
    [m \in Names |-> IF m \in ms THEN [machines[m] EXCEPT !.agentHealthy = conds[m]]
                                 ELSE machines[m]]

(* reconcileControlPlaneConditions for the Machines ms. *)
UpdateConditions(ms) ==
    \/ ~rec.initialized /\ UNCHANGED <<machines, errors>>
    \/ /\ rec.initialized /\ UNCHANGED errors
       /\ machines' = PatchMachines(ms, [m \in ms |-> Inspected(m)])
    \/ /\ rec.initialized /\ errors < setting.maxErrors /\ errors' = errors + 1
       /\ \E conds \in Disturbed(ms) : machines' = PatchMachines(ms, conds)

(* It returns an error: the workload cluster is out of reach, or the        *)
(* patches of some Machines fail.                                           *)
ConditionsFail(ms) ==
    /\ rec.initialized /\ errors < setting.maxErrors /\ errors' = errors + 1
    /\ \E some \in SUBSET ms :
         machines' = PatchMachines(some, [m \in some |-> Inspected(m)])

-----------------------------------------------------------------------------
(* reconcile *)

(* MachinesNeedingRollout *)
Outdated == {m \in Owned : machines[m].st = "up" /\ machines[m].revision # rec.revision}

(* Mutant: a Machine that has not reported is taken for healthy. *)
Preflight_lenient(conds, excluded) ==
    \A m \in Owned :
      /\ machines[m].st # "deleting"
      /\ m \notin excluded => conds[m].agentHealthy \notin {"False", "Unknown"}

(* preflightChecks *)
Preflight(conds, excluded) ==
    \A m \in Owned :
      /\ machines[m].st # "deleting"
      /\ m \notin excluded => conds[m].agentHealthy = "True"

Oldest(ms) == {m \in ms : \A n \in ms : m <= n}

(* selectMachineForScaleDown *)
Victim ==
    LET marked == Owned \cap setting.annotated
    IN  Oldest(IF marked \cap Outdated # {} THEN marked \cap Outdated
               ELSE IF marked # {} THEN marked
               ELSE IF Outdated # {} THEN Outdated ELSE Owned)

(* Mutant: one Machine too many while rolling out. *)
Most_offByOne == rec.replicas + IF Outdated # {} THEN setting.maxSurge + 1 ELSE 0

(* The number of Machines to grow to, upgradeControlPlane's maxNodes while  *)
(* a rollout is on.                                                         *)
Most == rec.replicas + IF Outdated # {} THEN setting.maxSurge ELSE 0

(* Scale up, scale down or neither, on the conditions just stored. *)
Choose ==
    LET n == Cardinality(Owned)
        grow == n < Most /\ Preflight(machines', {})
        shrink == n >= Most /\ (n > Most \/ Outdated # {}) /\ Preflight(machines', Victim)
    IN  /\ Goto(IF grow THEN "clone" ELSE IF shrink THEN "remove" ELSE "status")
        /\ targets' = IF shrink THEN Victim ELSE {}

Reconcile ==
    /\ pc = "reconcile"
    /\ \/ UpdateConditions(Owned) /\ Choose
       \/ ConditionsFail(Owned) /\ Goto("status") /\ UNCHANGED targets
       \/ Error("status") /\ UNCHANGED <<machines, targets>>
    /\ UNCHANGED <<kcp, kcpSeen, listed, workers, rec, spare, edits, crashes>>

-----------------------------------------------------------------------------
(* cloneConfigsAndGenerateMachine *)

CloneTemplate ==
    /\ pc = "clone"
    /\ \/ spare' = [spare EXCEPT !.infra = @ + 1] /\ Goto("config") /\ UNCHANGED errors
       \/ Error("status") /\ UNCHANGED spare
    /\ UNCHANGED <<kcp, kcpSeen, machines, listed, workers, rec, targets, edits, crashes>>

GenerateK3sConfig ==
    /\ pc = "config"
    /\ \/ spare' = [spare EXCEPT !.config = @ + 1] /\ Goto("machine") /\ UNCHANGED errors
       \/ Error("cleanInfra") /\ UNCHANGED spare
    /\ UNCHANGED <<kcp, kcpSeen, machines, listed, workers, rec, targets, edits, crashes>>

NewMachine == [NoMachine EXCEPT !.st = "up", !.revision = rec.revision]

(* The Machine takes the two clones.  When only the reply is lost it exists *)
(* all the same, and its clones are about to be deleted.                    *)
GenerateMachine ==
    /\ pc = "machine"
    /\ \/ /\ spare' = [infra |-> spare.infra - 1, config |-> spare.config - 1]
          /\ \E m \in Oldest({i \in Names : machines[i].st = "absent"}) :
               /\ machines' = [machines EXCEPT ![m] = NewMachine]
               /\ \/ Goto("status") /\ UNCHANGED <<targets, errors>>
                  \/ setting.lostReplies /\ Error("cleanBoth") /\ targets' = {m}
       \/ Error("cleanBoth") /\ UNCHANGED <<machines, spare, targets>>
    /\ UNCHANGED <<kcp, kcpSeen, listed, workers, rec, edits, crashes>>

(* Mutant: a failed creation leaves the clones behind. *)
CleanUp_forgets ==
    /\ pc \in {"cleanInfra", "cleanBoth"}
    /\ Goto("status")
    /\ targets' = {}
    /\ UNCHANGED <<kcp, kcpSeen, machines, listed, workers, rec, spare, edits, errors, crashes>>

(* cleanupFromGeneration: when one Delete fails the other is still tried. *)
CleanUp ==
    LET made == IF pc = "cleanBoth" THEN {"infra", "config"} ELSE {"infra"}
    IN  /\ pc \in {"cleanInfra", "cleanBoth"}
        /\ \E kept \in SUBSET made :
             /\ crashes' = crashes + IF kept = {} THEN 0 ELSE 1
             /\ crashes' <= setting.maxCrashes
             /\ machines' = [m \in Names |-> IF m \in targets /\ kept # made
                                              THEN [machines[m] EXCEPT !.clones = FALSE]
                                              ELSE machines[m]]
             /\ LET freed == IF targets = {} THEN made \ kept ELSE {}
                IN  spare' = [infra |-> spare.infra - IF "infra" \in freed THEN 1 ELSE 0,
                              config |-> spare.config - IF "config" \in freed THEN 1 ELSE 0]
        /\ Goto("status")
        /\ targets' = {}
        /\ UNCHANGED <<kcp, kcpSeen, listed, workers, rec, edits, errors>>

-----------------------------------------------------------------------------
(* scaleDownControlPlane, and reconcileDelete *)

(* The chosen Machines are deleted; a Delete that fails leaves its Machine. *)
Remove ==
    /\ pc = "remove"
    /\ \E failed \in SUBSET targets :
         /\ errors' = errors + IF failed = {} THEN 0 ELSE 1
         /\ errors' <= setting.maxErrors
         /\ machines' = [m \in Names |-> IF m \in targets \ failed /\ machines[m].st = "up"
                                          THEN [machines[m] EXCEPT !.st = "deleting"]
                                          ELSE machines[m]]
    /\ Goto("status")
    /\ targets' = {}
    /\ UNCHANGED <<kcp, kcpSeen, listed, workers, rec, spare, edits, crashes>>

(* Mutant: Machines that are being deleted count as gone. *)
Teardown_early ==
    LET seen == Listed
    IN  /\ pc = "teardown"
        /\ UpdateConditions(seen.owned \cap Owned)
        /\ Goto(IF \A m \in seen.owned : machines[m].st # "up" THEN "release" ELSE "remove")
        /\ targets' = {m \in seen.owned : machines[m].st = "up"}
        /\ UNCHANGED <<kcp, kcpSeen, listed, workers, rec, spare, edits, crashes>>

(* reconcileDelete, up to the deletions; conditions that cannot be updated   *)
(* do not stop it.                                                          *)
Teardown ==
    LET seen == Listed
    IN  /\ pc = "teardown"
        /\ \/ /\ seen.owned = {}
              /\ Goto("release") /\ UNCHANGED <<machines, targets, errors>>
           \/ /\ seen.owned # {}
              /\ \/ UpdateConditions(seen.owned \cap Owned)
                 \/ ConditionsFail(seen.owned \cap Owned)
              /\ IF seen.workers = {}
                   THEN Goto("remove") /\ targets' = seen.owned
                   ELSE Goto("status") /\ UNCHANGED targets
           \/ Error("status") /\ UNCHANGED <<machines, targets>>
        /\ UNCHANGED <<kcp, kcpSeen, listed, workers, rec, spare, edits, crashes>>

(* Mutant: the finalizer is not taken off. *)
Status_keepsFinalizer ==
    /\ pc \in {"status", "release"}
    /\ Goto("idle")
    /\ kcp' = [kcp EXCEPT !.initialized =
                  @ \/ (rec.st = "live" /\ \E m \in Owned : machines[m].node = "ready")]
    /\ UNCHANGED <<kcpSeen, machines, listed, workers, rec, targets, spare, edits, errors, crashes>>

(* Mutant: Status.Initialized is not stored. *)
Status_forgets ==
    /\ pc \in {"status", "release"}
    /\ Goto("idle")
    /\ kcp' = IF pc = "release" THEN [kcp EXCEPT !.finalizer = FALSE, !.st = "gone"] ELSE kcp
    /\ UNCHANGED <<kcpSeen, machines, listed, workers, rec, targets, spare, edits, errors, crashes>>

(* The deferred updateStatus and patch: Status.Initialized once a node is   *)
(* ready, and the finalizer when reconcileDelete has taken it off.  The     *)
(* patch is stored also when the nodes could not be read.                   *)
Status ==
    LET ready == rec.st = "live" /\ \E m \in Owned : machines[m].node = "ready"
        Patched(init) ==
          [kcp EXCEPT !.initialized = @ \/ init,
                      !.finalizer = @ /\ pc # "release",
                      !.st = IF pc = "release" THEN "gone" ELSE @]
    IN  /\ pc \in {"status", "release"}
        /\ \/ kcp' = Patched(ready) /\ Goto("idle") /\ UNCHANGED errors
           \/ Error("idle") /\ kcp' \in {kcp, Patched(FALSE)}
        /\ UNCHANGED <<kcpSeen, machines, listed, workers, rec, targets, spare, edits, crashes>>

-----------------------------------------------------------------------------
(* The surroundings *)

(* The manager restarts; what the reconciliation held in memory is lost. *)
Crash ==
    /\ pc # "idle" /\ crashes < setting.maxCrashes
    /\ crashes' = crashes + 1
    /\ Goto("idle")
    /\ targets' = {}
    /\ UNCHANGED <<kcp, kcpSeen, machines, listed, workers, rec, spare, edits, errors>>

(* A user upgrades or resizes the control plane. *)
Edit ==
    /\ kcp.st = "live" /\ edits < setting.maxEdits
    /\ edits' = edits + 1
    /\ \/ kcp' = [kcp EXCEPT !.revision = edits + 1]
       \/ \E n \in setting.sizes \ {kcp.replicas} : kcp' = [kcp EXCEPT !.replicas = n]
    /\ UNCHANGED <<kcpSeen, machines, listed, workers, pc, rec, targets, spare, errors, crashes>>

(* A user deletes the control plane. *)
Delete ==
    /\ setting.deletable /\ kcp.st = "live"
    /\ kcp' = [kcp EXCEPT !.st = IF kcp.finalizer THEN "deleting" ELSE "gone"]
    /\ UNCHANGED <<kcpSeen, machines, listed, workers, pc, rec, targets, spare, edits, errors, crashes>>

Only(m, new) ==
    /\ machines' = [machines EXCEPT ![m] = new]
    /\ UNCHANGED <<kcp, kcpSeen, listed, workers, pc, rec, targets, spare, edits, errors, crashes>>

(* The node of a Machine joins, or recovers. *)
NodeReady(m) ==
    /\ machines[m].st = "up" /\ machines[m].clones /\ machines[m].node # "ready"
    /\ Only(m, [machines[m] EXCEPT !.node = "ready"])

NodeFails(m) ==
    /\ setting.nodesFail /\ machines[m].node = "ready"
    /\ \E n \in {"notReady", "unreachable"} : Only(m, [machines[m] EXCEPT !.node = n])

(* Cluster API has taken down a deleted Machine. *)
MachineGone(m) ==
    /\ machines[m].st = "deleting"
    /\ Only(m, [machines[m] EXCEPT !.st = "gone", !.node = "none"])

(* The garbage collector deletes the Machines of an owner that is gone. *)
Collect(m) ==
    /\ kcp.st = "gone" /\ machines[m].st = "up"
    /\ Only(m, [machines[m] EXCEPT !.st = "deleting"])

WorkerGone(w) ==
    /\ w \in workers
    /\ workers' = workers \ {w}
    /\ UNCHANGED <<kcp, kcpSeen, machines, listed, pc, rec, targets, spare, edits, errors, crashes>>

SeeKCP ==
    /\ "kcp" \in setting.lag /\ kcpSeen # kcp
    /\ kcpSeen' = kcp
    /\ UNCHANGED <<kcp, machines, listed, workers, pc, rec, targets, spare, edits, errors, crashes>>

SeeMachines ==
    LET now == [owned |-> Owned, workers |-> workers]
    IN  /\ "machines" \in setting.lag /\ listed # now
        /\ listed' = now
        /\ UNCHANGED <<kcp, kcpSeen, machines, workers, pc, rec, targets, spare, edits, errors, crashes>>

-----------------------------------------------------------------------------
Controller ==
    \/ Begin \/ Reconcile \/ CloneTemplate \/ GenerateK3sConfig \/ GenerateMachine
    \/ CleanUp \/ Remove \/ Teardown \/ Status

ClusterAPI == \E m \in Names : NodeReady(m) \/ MachineGone(m) \/ Collect(m)

Next ==
    /\ \/ Controller \/ Crash \/ ClusterAPI
       \/ Edit \/ Delete
       \/ \E m \in Names : NodeFails(m)
       \/ \E w \in Workers : WorkerGone(w)
       \/ SeeKCP \/ SeeMachines
    /\ UNCHANGED setting

(* The object is requeued until its status is ready, at every event and at  *)
(* each resync; Cluster API brings up and takes down what it is asked to,   *)
(* deletes the workers of a cluster that is torn down, and watches deliver. *)
Spec ==
    /\ Init /\ [][Next]_vars
    /\ WF_vars(Controller /\ UNCHANGED setting)
    /\ WF_vars(SeeKCP /\ UNCHANGED setting) /\ WF_vars(SeeMachines /\ UNCHANGED setting)
    /\ \A m \in Names :
         /\ WF_vars(NodeReady(m) /\ UNCHANGED setting)
         /\ WF_vars(MachineGone(m) /\ UNCHANGED setting)
         /\ WF_vars(Collect(m) /\ UNCHANGED setting)
    /\ \A w \in Workers : WF_vars(WorkerGone(w) /\ UNCHANGED setting)

-----------------------------------------------------------------------------
(* Properties *)

(* "We can ignore MaxUnavailable because we are enforcing health checks     *)
(* before we get here": while nodes do not fail, when reconcile chooses a   *)
(* Machine to delete, every other one is there with a ready node, and they  *)
(* are as many as the spec asks for, or one less in a rollout without surge *)
(* (preflightChecks).                                                       *)
OthersReady ==
    [][~setting.nodesFail /\ pc = "reconcile" /\ pc' = "remove" =>
         LET others == Owned \ targets'
         IN  /\ \A m \in others : machines[m].st = "up" /\ machines[m].node = "ready"
             /\ Cardinality(others) + 1 >= rec.replicas + setting.maxSurge
             /\ Cardinality(targets') = 1]_vars

(* A Machine is created only when, at that moment, fewer exist than the     *)
(* spec the controller reconciles allows, the surge of a rollout included,  *)
(* though the decision was taken three requests earlier.                    *)
GrowsWithinSurge ==
    [][\A m \in Names : machines[m].st = "absent" /\ machines'[m].st = "up" =>
         Cardinality(Owned) <
           rec.replicas + IF \E n \in Owned : machines[n].revision # rec.revision
                            THEN setting.maxSurge ELSE 0]_vars

(* Template clones that no Machine refers to remain only from a restart or  *)
(* a clean-up that failed: an error while a Machine is created leaves none  *)
(* (cloneConfigsAndGenerateMachine, cleanupFromGeneration).                 *)
NothingDangles ==
    pc \notin {"config", "machine", "cleanInfra", "cleanBoth"} =>
      spare.infra <= crashes /\ spare.config <= crashes

(* A control plane is torn down in order, whichever pass gets how far:      *)
(* reconcileDelete deletes its Machines only after all workers are gone,    *)
(* however late the cache of Machines is, and "if no control plane machines *)
(* remain, remove the finalizer", which goes last while that cache keeps up. *)
TornDownInOrder ==
    [][/\ pc = "teardown" /\ pc' = "remove" => workers = {}
       /\ "machines" \notin setting.lag /\ kcp.st # "gone" /\ kcp'.st = "gone"
            => Owned = {}]_vars

(* Once the spec stays as it is and nodes and replies are not lost, the     *)
(* control plane ends up with exactly the Machines it asks for, all of its  *)
(* revision and ready, whatever was edited in the middle of a rollout,      *)
(* failed or restarted before.                                              *)
RolloutCompletes ==
    <>[](kcp.st = "live" /\ ~setting.nodesFail /\ ~setting.lostReplies =>
           /\ Cardinality(Owned) = kcp.replicas
           /\ \A m \in Owned :
                /\ machines[m].st = "up" /\ machines[m].node = "ready"
                /\ machines[m].revision = kcp.revision)

(* A deleted control plane disappears, and its Machines with it, whatever   *)
(* the caches show and in whatever state its nodes are (reconcileDelete).   *)
DeletionCompletes == kcp.st # "live" ~> kcp.st = "gone" /\ Owned = {}
=============================================================================
