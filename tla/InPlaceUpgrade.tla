--------------------------- MODULE InPlaceUpgrade ---------------------------
(***************************************************************************)
(* The in-place upgrade of a cluster by the KKInstance controller          *)
(* (controllers/kkinstance: kkinstance_controller_upgrade.go, scale.go,    *)
(* kkinstance_init_mutex.go).                                              *)
(*                                                                         *)
(* Every KKInstance is reconciled by a worker of its own, all workers at   *)
(* once; one step is one request to the API server or one command over     *)
(* ssh.  Reads of Machines and of the lock's ConfigMap are served by the   *)
(* manager's informer cache, which lags behind the API server; writes go   *)
(* to the server.  A request, a command or the whole manager may fail,     *)
(* MaxFaults times in all.                                                 *)
(*                                                                         *)
(* Abstracted: the two versions are "old" and "new", the new one is the    *)
(* annotation's; waiting times; events and log output; conditions other    *)
(* than the two that guard a step.  Machines and instances correspond one  *)
(* to one and are identified, but for their names: the lock is looked up   *)
(* under the name of a Machine (NamedLikeMachine).                         *)
(***************************************************************************)
EXTENDS Naturals, FiniteSets

CONSTANTS
    CP,                 \* KKInstances of control plane machines
    Workers,            \* the other KKInstances
    NoDrain,            \* instances whose Machine excludes draining
    NamedLikeMachine,   \* instances whose name is the name of some Machine
    CanDelete,          \* may the manager delete ConfigMaps in the cluster's namespace
    MaxFaults           \* bound: failing requests, commands and restarts

Node == CP \cup Workers
None == "none"
Version == {"old", "new"}

ASSUME RolesAssumption == CP # {} /\ CP \cap Workers = {} /\ None \notin Node
ASSUME FaultAssumption == MaxFaults \in Nat
ASSUME DeleteAssumption == CanDelete \in BOOLEAN

VARIABLES
    spec,               \* Machine.Spec.Version, at the API server
    seen,               \* the same in the informer cache
    lock,               \* holder named by the lock's ConfigMap, at the API server
    lockSeen,           \* the same in the informer cache
    config,             \* version kubeadm has written on the host
    applied,            \* instances on which "kubeadm upgrade apply" has succeeded
    installed,          \* hosts that have the new binaries
    binaries,           \* InPlaceUpgradeBinariesCondition is True
    unsaved,            \* instances for which this reconciliation has set it
    kubelet,            \* version of the running kubelet
    reported,           \* Node.Status.NodeInfo.KubeletVersion
    cordoned,           \* Nodes marked unschedulable
    done,               \* InPlaceUpgradedCondition is True
    pc,                 \* per instance: the next step of its reconciliation
    own,                \* per instance: version of its Machine when it was read, until patched
    faults

vars == <<spec, seen, lock, lockSeen, config, applied, installed, binaries, unsaved,
          kubelet, reported, cordoned, done, pc, own, faults>>

machines == <<spec, seen>>
locks == <<lock, lockSeen>>
host == <<config, applied, installed, kubelet, reported, cordoned>>
conds == <<binaries, unsaved, done>>

Steps == {"idle", "download", "count", "recheck", "lock", "create", "steal", "apply",
          "patchFirst", "abort", "release", "node", "patch", "drain", "restart", "uncordon"}

(* The finishing steps: kubeadm has nothing left to do for this instance. *)
Finishing == {"drain", "restart", "uncordon"}

TypeOK ==
    /\ spec \in [Node -> Version] /\ seen \in [Node -> Version]
    /\ lock \in CP \cup {None} /\ lockSeen \in CP \cup {None}
    /\ config \in [Node -> Version]
    /\ applied \subseteq CP
    /\ binaries \subseteq installed /\ installed \subseteq Node
    /\ unsaved \subseteq binaries
    /\ kubelet \in [Node -> Version] /\ reported \in [Node -> Version]
    /\ cordoned \subseteq Node \ NoDrain
    /\ done \subseteq Node
    /\ pc \in [Node -> Steps]
    /\ \A w \in Workers : pc[w] \in {"idle", "download", "count", "node", "patch"} \cup Finishing
    /\ own \in [Node -> Version]
    /\ faults \in 0..MaxFaults

Init ==
    /\ spec = [n \in Node |-> "old"] /\ seen = spec
    /\ lock = None /\ lockSeen = None
    /\ config = [n \in Node |-> "old"]
    /\ applied = {} /\ installed = {} /\ binaries = {} /\ unsaved = {}
    /\ kubelet = [n \in Node |-> "old"] /\ reported = kubelet
    /\ cordoned = {} /\ done = {}
    /\ pc = [n \in Node |-> "idle"]
    /\ own = [n \in Node |-> "old"]
    /\ faults = 0

-----------------------------------------------------------------------------
(* The instances among S whose Machine has the new version, in the cache. *)
NewIn(S) == {n \in S : seen[n] = "new"}

(* The Machine that was read is kept until it has been patched. *)
Goto(n, step) ==
    /\ pc' = [pc EXCEPT ![n] = step]
    /\ own' = IF step \in {"idle"} \cup Finishing THEN [own EXCEPT ![n] = "old"] ELSE own

Fault == faults < MaxFaults /\ faults' = faults + 1

(* A failed step ends the reconciliation with an error and a requeue. *)
GiveUp(n) ==
    /\ Fault
    /\ Goto(n, "idle")
    /\ UNCHANGED <<machines, locks, host, conds>>

(* Reconcile up to the phases of the upgrade: the instance, its Machine and *)
(* the NodeInfo are read.  A kubelet of the desired version ends it.        *)
Start(n) ==
    /\ pc[n] = "idle"
    /\ IF reported[n] = "new"
         THEN /\ done' = done \cup {n}
              /\ UNCHANGED <<pc, own>>
         ELSE /\ pc' = [pc EXCEPT ![n] = IF n \in binaries THEN "count" ELSE "download"]
              /\ own' = [own EXCEPT ![n] = seen[n]]
              /\ UNCHANGED done
    /\ unsaved' = unsaved \ {n}
    /\ UNCHANGED <<machines, locks, host, binaries, faults>>

(* reconcileInPlaceBinaryService *)
Download(n) ==
    /\ pc[n] = "download"
    /\ \/ /\ installed' = installed \cup {n}
          /\ binaries' = binaries \cup {n}
          /\ unsaved' = unsaved \cup {n}
          /\ Goto(n, "count")
          /\ UNCHANGED <<machines, locks, config, applied, kubelet, reported, cordoned,
                         done, faults>>
       \/ GiveUp(n)

(* Mutant: a worker waits for the first control plane only. *)
Count_eagerWorker(n) ==
    /\ pc[n] = "count"
    /\ Goto(n, IF n \in Workers
                 THEN IF NewIn(CP) = {} THEN "idle"
                      ELSE IF NewIn(Workers) # Workers THEN "node" ELSE "drain"
               ELSE IF NewIn(CP) = {} THEN "recheck"
               ELSE IF NewIn(CP) = CP THEN "drain"
               ELSE IF own[n] = "new" THEN "idle"
               ELSE IF lockSeen = None THEN "node" ELSE "release")
    /\ UNCHANGED <<machines, locks, host, conds, faults>>

(* kubeadmUpgrade: which way this instance goes, by the number of upgraded   *)
(* Machines.  Another control plane first releases the lock                 *)
(* (inPlaceUpgradeScaleUp): Unlock reads the ConfigMap, then deletes it.    *)
Count(n) ==
    /\ pc[n] = "count"
    /\ Goto(n, IF n \in Workers
                 THEN IF NewIn(CP) # CP THEN "idle"
                      ELSE IF NewIn(Workers) # Workers THEN "node" ELSE "drain"
               ELSE IF NewIn(CP) = {} THEN "recheck"
               ELSE IF NewIn(CP) = CP THEN "drain"
               ELSE IF own[n] = "new" THEN "idle"
               ELSE IF lockSeen = None THEN "node" ELSE "release")
    /\ UNCHANGED <<machines, locks, host, conds, faults>>

(* inPlaceUpgradeControlPlane counts once more before it takes the lock. *)
Recheck(n) ==
    /\ pc[n] = "recheck"
    /\ Goto(n, IF NewIn(CP) = {} THEN "lock" ELSE "idle")
    /\ UNCHANGED <<machines, locks, host, conds, faults>>

-----------------------------------------------------------------------------
(* Lock and Unlock *)

(* Mutant: the holder does not recognise its own lock. *)
Lock_forgetful(n) ==
    /\ pc[n] = "lock"
    /\ Goto(n, IF lockSeen = None THEN "create"
               ELSE IF lockSeen \in NamedLikeMachine THEN "idle" ELSE "steal")
    /\ UNCHANGED <<machines, locks, host, conds, faults>>

(* Lock: the ConfigMap is read; the holder's name is looked up as a Machine, *)
(* and the lock deleted when there is none.                                 *)
Lock(n) ==
    /\ pc[n] = "lock"
    /\ Goto(n, IF lockSeen = None THEN "create"
               ELSE IF lockSeen = n THEN "apply"
               ELSE IF lockSeen \in NamedLikeMachine THEN "idle" ELSE "steal")
    /\ UNCHANGED <<machines, locks, host, conds, faults>>

(* Mutant: an existing ConfigMap is overwritten. *)
Create_overwrites(n) ==
    /\ pc[n] = "create"
    /\ \/ /\ lock' = n
          /\ Goto(n, "apply")
          /\ UNCHANGED <<machines, lockSeen, host, conds, faults>>
       \/ GiveUp(n)

(* Lock: the ConfigMap is created unless it exists. *)
Create(n) ==
    /\ pc[n] = "create"
    /\ \/ /\ IF lock = None
               THEN lock' = n /\ Goto(n, "apply")
               ELSE Goto(n, "idle") /\ UNCHANGED lock
          /\ UNCHANGED <<machines, lockSeen, host, conds, faults>>
       \/ GiveUp(n)

(* Unlock: whatever ConfigMap has the name is deleted, if that is allowed.  *)
(* inPlaceUpgradeScaleUp ignores a failure, the others return anyhow.       *)
Delete(n) ==
    /\ pc[n] \in {"steal", "abort", "release"}
    /\ \/ lock' = (IF CanDelete THEN None ELSE lock) /\ UNCHANGED faults
       \/ Fault /\ UNCHANGED lock
    /\ Goto(n, IF pc[n] = "release" THEN "node" ELSE "idle")
    /\ UNCHANGED <<machines, lockSeen, host, conds>>

(* The deferred Unlock of a failed inPlaceUpgradeControlPlane. *)
Abort(n) == Goto(n, IF lockSeen = None THEN "idle" ELSE "abort")

-----------------------------------------------------------------------------
(* kubeadm on the host.  A command may fail before or after its effect. *)

Effect(n) == config' = [config EXCEPT ![n] = "new"]

(* "kubeadm upgrade apply" *)
Apply(n) ==
    /\ pc[n] = "apply"
    /\ \/ Effect(n) /\ Goto(n, "patchFirst") /\ UNCHANGED faults
       \/ (Effect(n) \/ UNCHANGED config) /\ Fault /\ Abort(n)
    /\ applied' = IF config'[n] = "new" THEN applied \cup {n} ELSE applied
    /\ UNCHANGED <<machines, locks, installed, kubelet, reported, cordoned, conds>>

(* "kubeadm upgrade node" *)
UpgradeNode(n) ==
    /\ pc[n] = "node"
    /\ \/ Effect(n) /\ Goto(n, "patch") /\ UNCHANGED faults
       \/ (Effect(n) \/ UNCHANGED config) /\ Fault /\ Goto(n, "idle")
    /\ UNCHANGED <<machines, locks, applied, installed, kubelet, reported, cordoned, conds>>

(* patchMachineSpecVersion: an Update, refused when the Machine has changed *)
(* since it was read.                                                       *)
Patch(n) ==
    /\ pc[n] \in {"patchFirst", "patch"}
    /\ \/ /\ own[n] = spec[n]
          /\ spec' = [spec EXCEPT ![n] = "new"]
          /\ Goto(n, IF n \in Workers THEN "drain" ELSE "idle")
          /\ UNCHANGED faults
       \/ /\ IF own[n] = spec[n] THEN Fault ELSE UNCHANGED faults
          /\ IF pc[n] = "patchFirst" THEN Abort(n) ELSE Goto(n, "idle")
          /\ UNCHANGED spec
    /\ UNCHANGED <<seen, locks, host, conds>>

-----------------------------------------------------------------------------
(* The Node: drain, restart of the kubelet, uncordon *)

(* drainNode: without access to the workload cluster the node is restarted  *)
(* undrained; a failed cordon or eviction ends the reconciliation.          *)
Drain(n) ==
    /\ pc[n] = "drain"
    /\ IF n \in NoDrain
         THEN Goto(n, "restart") /\ UNCHANGED <<cordoned, faults>>
         ELSE \/ cordoned' = cordoned \cup {n} /\ Goto(n, "restart") /\ UNCHANGED faults
              \/ cordoned' = cordoned \cup {n} /\ Goto(n, "idle") /\ Fault
              \/ UNCHANGED cordoned /\ Goto(n, "restart") /\ Fault
              \/ UNCHANGED cordoned /\ Goto(n, "idle") /\ Fault
    /\ UNCHANGED <<machines, locks, config, applied, installed, kubelet, reported, conds>>

(* restartKubelet: an error is logged only. *)
RestartKubelet(n) ==
    /\ pc[n] = "restart"
    /\ \/ /\ kubelet' = [kubelet EXCEPT ![n] = IF n \in installed THEN "new" ELSE @]
          /\ UNCHANGED faults
       \/ Fault /\ UNCHANGED kubelet
    /\ Goto(n, IF n \in NoDrain THEN "idle" ELSE "uncordon")
    /\ UNCHANGED <<machines, locks, config, applied, installed, reported, cordoned, conds>>

(* cordonOrUncordonNode: an error is logged only. *)
Uncordon(n) ==
    /\ pc[n] = "uncordon"
    /\ \/ cordoned' = cordoned \ {n} /\ UNCHANGED faults
       \/ Fault /\ UNCHANGED cordoned
    /\ Goto(n, "idle")
    /\ UNCHANGED <<machines, locks, config, applied, installed, kubelet, reported, conds>>

-----------------------------------------------------------------------------
Reconcile(n) ==
    \/ Start(n) \/ Download(n) \/ Count(n)
    \/ Apply(n) \/ UpgradeNode(n) \/ Patch(n)
    \/ Recheck(n) \/ Lock(n) \/ Create(n) \/ Delete(n)
    \/ Drain(n) \/ RestartKubelet(n) \/ Uncordon(n)

(* The informers deliver a change; the kubelet reports its version. *)
SeeMachine(n) ==
    /\ seen[n] # spec[n]
    /\ seen' = [seen EXCEPT ![n] = spec[n]]
    /\ UNCHANGED <<spec, locks, host, conds, pc, own, faults>>

SeeLock ==
    /\ lockSeen # lock
    /\ lockSeen' = lock
    /\ UNCHANGED <<machines, lock, host, conds, pc, own, faults>>

Report(n) ==
    /\ reported[n] # kubelet[n]
    /\ reported' = [reported EXCEPT ![n] = kubelet[n]]
    /\ UNCHANGED <<machines, locks, config, applied, installed, kubelet, cordoned, conds, pc,
                   own, faults>>

(* The manager restarts: every reconciliation is cut off, and a condition   *)
(* that its scope has not been closed to save is lost.                      *)
Crash ==
    /\ Fault
    /\ pc' = [n \in Node |-> "idle"]
    /\ own' = [n \in Node |-> "old"]
    /\ LET lost == {n \in unsaved : pc[n] # "idle"}
       IN  binaries' = binaries \ lost /\ unsaved' = unsaved \ lost
    /\ UNCHANGED <<machines, locks, host, done>>

Next ==
    \/ \E n \in Node : Reconcile(n) \/ SeeMachine(n) \/ Report(n)
    \/ SeeLock
    \/ Crash

(* Every reconciliation is requeued, by its result or its error, and its    *)
(* steps end; the informers catch up; the kubelet reports.                  *)
Spec ==
    /\ Init /\ [][Next]_vars
    /\ \A n \in Node : WF_vars(Reconcile(n)) /\ WF_vars(SeeMachine(n)) /\ WF_vars(Report(n))
    /\ WF_vars(SeeLock)

-----------------------------------------------------------------------------
(* Properties *)

Contract == INSTANCE UpgradeContract WITH
    upgraded <- {n \in Node : config[n] = "new"},
    restarted <- {n \in Node : kubelet[n] = "new"}

(* However stale the cache and wherever a step fails, the instances upgrade *)
(* in the promised order: kubeadmUpgrade's counts of cached Machines keep   *)
(* workers behind all control planes, and all kubelets behind kubeadm.      *)
UpgradesInOrder == Contract!USpec

(* An instance that drains its node, or is about to restart its kubelet,    *)
(* finds every control plane and itself upgraded by kubeadm and recorded in *)
(* its Machine: Machine.Spec.Version never runs ahead of the host.          *)
FinishesLast ==
    \A n \in Node :
      /\ spec[n] = "new" => config[n] = "new"
      /\ pc[n] \in Finishing => \A m \in CP \cup {n} : spec[m] = "new"

(* "kubeadm upgrade node" is run only after "kubeadm upgrade apply" has     *)
(* succeeded on some control plane (the cluster-wide half of the upgrade).  *)
ApplyBeforeNode ==
    \A n \in Node : config[n] = "new" \/ pc[n] \in {"node", "release"} => applied # {}

Applying == {n \in Node : pc[n] = "apply"}

(* Where the lock cannot be deleted, a single control plane ever runs       *)
(* "kubeadm upgrade apply", however often it fails, restarts or reads a     *)
(* stale cache: the holder of the lock is the first and only one.           *)
OnlyFirstApplies == Cardinality(applied \cup Applying) <= 1

(* Once requests and commands succeed, every instance gets its new kubelet, *)
(* is reported upgraded and stays so: nobody waits for ever for a lock,     *)
(* for a control plane or for a worker.                                     *)
UpgradeCompletes ==
    <>[](\A n \in Node : n \in done /\ spec[n] = "new" /\ kubelet[n] = "new")
=============================================================================
