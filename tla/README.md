# A TLA+ verification of kubekey

KubeKey installs, upgrades and operates Kubernetes and k3s clusters. This
directory holds TLA+ models of its concurrent and distributed parts, the TLC
configurations that check them on small instances, and TLAPS proofs of the most
important properties for every value of the constants. `PROJECT.json` is the
index: components, runs, the map from definitions to source lines, hazards,
findings and theorems.

## The system

The repository contains three programs that share little code.

* **kk** (`cmd/kk`), a command line tool. A command builds a *pipeline* of
  *modules*, each a list of *tasks*; a task runs a *Prepare* (pre-check) and an
  *Action* on a list of hosts, over ssh (`RemoteTask`) or on the machine kk runs
  on (`LocalTask`). `BaseRuntime` holds the tables of hosts, `Dialer` the ssh
  connections. About a hundred modules of shell commands and templates run on
  this engine.
* **The Cluster API providers**: the infrastructure provider (`controllers/`:
  KKCluster, KKMachine and KKInstance, with an in-place upgrade under a lock of
  its own), the k3s bootstrap provider (`bootstrap/k3s`: a K3sConfig becomes
  bootstrap data, with an init lock) and the k3s control plane provider
  (`controlplane/k3s`: number and version of the control plane machines).
  They interact through objects of the API server: the control plane provider
  creates Machines and K3sConfigs, the bootstrap provider writes a Secret per
  Machine, KKInstance runs it on the host over ssh.
* **The next generation** (`feature/`): playbooks in the manner of Ansible, run
  by an executor, in the command line or in a Pod that a playbook controller
  starts, with a storage of local files behind the Kubernetes API machinery.

What goes wrong in such code is seldom a single call. The hazards listed in
`PROJECT.json` are of these kinds: a deadline that races a late answer; counters
and pools shared by goroutines; a slice used by one part while another compacts
it; state read before a lock is taken and used after; a lock released by someone
else; a crash between two writes to the API server; caches that lag.

## Modules

| module | models | source |
|---|---|---|
| `TaskContract` | what a task promises to its module (abstract) | `core/ending/task_result.go` and its users |
| `RemoteTask` | `Execute`, `RunWithTimeout`, `Run`, the retry loops | `core/task/remote_task.go` |
| `LocalTask` | the same for a task on kk's own machine | `core/task/local_task.go` |
| `TaskRollback` | `ExecuteRollback`, `RollbackWithTimeout`, `RunRollback` | `core/task/remote_task.go` |
| `TaskPipeline` | `Pipeline.Start`, `RunModule`, `BaseTaskModule.Run`, the host tables | `core/pipeline`, `core/module`, `core/connector/runtime.go` |
| `K3sBootstrap` | K3sConfig controller and init lock | `bootstrap/k3s/controllers`, `bootstrap/k3s/pkg/locking` |
| `K3sControlPlane` | K3sControlPlane controller: create, scale, roll out, delete | `controlplane/k3s/controllers`, `controlplane/k3s/pkg/cluster` |
| `UpgradeContract` | the order of an in-place upgrade (abstract) | `controllers/kkinstance/scale.go` |
| `InPlaceUpgrade` | the KKInstances' side of the upgrade, and its lock | `controllers/kkinstance` |
| `ClusterUpgrade` | the KKCluster's side, on top of `UpgradeContract` | `controllers/kkcluster` |
| `InstancePool` | KKMachines taking hosts and giving them back, KKInstances cleaning them | `controllers/kkmachine`, `controllers/kkinstance` |
| `PlaybookReconciler` | Playbook controller, its Pod, the executor's status | `feature/pkg/controllers/core`, `feature/pkg/executor` |
| `FileStorage` | the file storage, its watcher and the cacher behind it | `feature/pkg/proxy/internal` |
| `*Proofs` | inductive invariants, safety, refinements | |
| `MC*` | the instances for TLC | |

(`core` is `cmd/kk/pkg/core`.) Operators whose comment begins with *Mutant* are
variants of the definition that follows them, as a plausible bug would make
them. They are not part of a specification; `PROJECT.json` says which property
each of them breaks. `TaskRollback` and `FileStorage` are extended by a module
of proofs together with another model, and so have prefixed names for what every
model has (`RInit`, `SSpec`), like the contracts (`CInit`, `USpec`).

The controllers of the second and third program share one form. A
reconciliation is a process with a program counter, one action per request to
the API server or command over ssh; what it reads comes from an informer cache
that may be behind, what it writes goes to the server; any request may fail and
the manager may restart, up to a named bound. Reconciliations of one object do
not overlap, those of different objects do. The circumstances (which caches lag,
whether nodes fail, how a store is found) are a variable (`lag`, `setting`)
that `Init` chooses from a constant set and no step changes: one run covers all
of them, and a property that needs some of them says so.

### RemoteTask and TaskContract

State: the caller (`main`, `next`), the `WaitGroup` (`wg`), the routine pool
(`pool`), a worker and a runner per position of `t.Hosts`, the deadline
(`ctxDone`) and the `TaskResult` (`results`, `status`). One action per
synchronisation: `Spawn` is a turn of `Execute`'s loop, `Acquire` sends to the
pool and starts the runner, `SelectTimeout` and `SelectResult` are the branches
of `select`, `Release` is the return of the worker, `Connect`, `When`, `Action`
and `Record` are `Run`. A runner whose worker was released by the deadline goes
on: it may still record a success, and then blocks on `resCh` for ever. What a
Prepare or an Action does is a choice of its outcome. Positions, not hosts, are
the unit, because the list may name a host twice (see below).

`TaskContract` is what the module may rely on: at most one failure and one
success or skip per position, every position heard of on return, a verdict that
is FAILED exactly if a failure was reported, and after the return nothing but
late successes of positions that were given up. `RemoteTask` is shown to
implement it (by TLC, and by proof), and `TaskPipeline` uses it in place of
`Execute`.

`LocalTask` has no pool and no `WaitGroup`: `Execute` itself waits in `select`
for its one goroutine or the deadline. It implements the same contract.

### TaskPipeline

A role's slice is modelled as the Go slice it is: an array (`roleArr`) and a
length; `Compact` and `Kept` are what `DeleteHost`'s and `RoleMapDelete`'s loops do
to it. `GetHostsByRole` returns it uncopied, the tasks of a module keep it from
the module's `Init` on (`captured`), and with `--ignore-err` `DeleteHost`
compacts the array in place while the module runs. `ReadResult` is one turn of
the loop over the action results, with the removal of a failed host and the
early return when no host is left. `DeleteHost` of a host that is already gone
indexes past the end of `allHosts`: the state `"panic"`. `Until` asks for another
round of a module, as `ProgressiveUpgradeModule` does. Late successes
that are recorded after `Execute` has returned are not read by the module's loop
and do not appear here.

### TaskRollback

Laid out like `Execute`, but `rwg.Add(1)` comes after the worker was started (in
the sequential mode, after it has run), and a worker that reports a failure
dereferences the runner of its runtime, which is set by a successful connection
only. Both panics are modelled as Go has them.

### K3sBootstrap

One process per K3sConfig (reconciles of one object never overlap, those of
different objects do), one action per request to the API server, each of which
may fail; a created Secret may also have its reply lost. `LockGet`, `HolderGet`
and `LockCreate` are `Lock`; `UnlockGet` and `UnlockDelete` are `Unlock`, which
deletes by name, whoever holds the lock by then. `Reconcile` reads the condition
that decides between initialising and joining; `StoreToken`, `StoreInitData`,
`Join` and `Patch` write the token, the bootstrap data and the status.
The environment deletes machines (`DeleteMachine`), marks the control plane
initialized (`ControlPlaneUp`) and restarts the controller (`Restart`).

### InPlaceUpgrade, UpgradeContract, ClusterUpgrade

`InPlaceUpgrade` has a process per KKInstance. `Start` and `Download` are the
first phases, `Count` decides from cached Machines between `kubeadm upgrade
apply` (under the lock: `Recheck`, `Lock`, `Create`, `Apply`, `Delete`),
`kubeadm upgrade node` (`UpgradeNode`) and waiting, `Patch` records the version in
the Machine, and `Drain`, `RestartKubelet` and `Uncordon` finish. `Goto` also
forgets what the pass had read. The lock's ConfigMap may be deleted only if the
manager's role allows it (`CanDelete`); the role generated from the controllers'
markers does not, and the run takes it so.

`UpgradeContract` says what the KKCluster relies on: one control plane first,
workers behind all control planes, kubelets behind kubeadm. `ClusterUpgrade`
uses it in place of the KKInstances and adds the controller: `SetPaused`,
`Annotate`, `Check`, `PatchOwner`, `Clean`, `Close`. An Update of an object that
has changed since it was read is refused (`Touch`).

### InstancePool

A KKMachine takes a host by creating the KKInstance named after it and saves the
name in `Spec.ProviderID` only when its reconciliation ends. `TryLock` is the
process-wide mutex, `Unassigned` and `ChooseHost` the choice among the hosts of
the KKMachine's roles, `Create` the creation, `Close` the deferred patch.
`DeleteInstance` and `DropFinalizer` are the deletion. `Bootstrap` and `CleanUp`
are the KKInstance controller, reduced to its finalizer and the first and last
command on the host (`dirty`).

### K3sControlPlane

`Begin` reads the object and adds the finalizer; `Reconcile` updates the
conditions of the Machines (`Inspected`, and what failing reads and patches make of
it) and chooses between scaling up, scaling down and nothing; `CloneTemplate`,
`GenerateK3sConfig`, `GenerateMachine` and `CleanUp` create a Machine; `Remove` is
the scale down; `Teardown` is `reconcileDelete`; `Status` is the deferred update
and patch. What makes a Machine outdated is a revision number.

### PlaybookReconciler

`Begin`, `Normal`, `DealRunningPlaybook`, `ReconcileDelete` and `Status` are a pass
of the controller with its deferred patch of what it changed; `PodStarts`, `SyncStatus`
and `PodEnds` are the executor in its Pod, which patches the same status.

### FileStorage

`os.WriteFile` is an `Open` that truncates and a `Write`, `Delete` a rename to a
tagged name. The watcher `Receive`s file system events, reads the file as it is
by then, `Send`s an event to the cacher (`view`) and `Remove`s a tagged file.
`GuaranteedUpdate` works on the cacher's copy.

## Runs

| run | instance | shows |
|---|---|---|
| `remote_task` | 4 hosts, 1 removed, pool of 1, 2 tries, Parallel or not | the refinement of `TaskContract`, a clean return, `Execute` returns |
| `task_pipeline` | 3 hosts, 2 modules of 2 tasks, 1 repetition, `--ignore-err` on and off | hosts, tables and verdict are right, the pipeline ends |
| `task_pipeline_ignore_err` | the same | **violation**: kk may panic |
| `task_rollback` | 4 results, 1 removed, pool of 2, both modes | what the late `Add` does and does not break |
| `k3s_bootstrap` | 2 control planes, 1 worker, 2 tokens, 1 restart, 1 deletable machine | what the init lock guarantees, and that nobody joins before the control plane is up |
| `k3s_bootstrap_late` | 2 control planes, 1 worker | **violation**: a second init after the first control plane is up |
| `k3s_control_plane` | 5 settings: rollouts of 1 or 2 Machines with surge and 2 edits; 3 Machines without surge; deletion with a worker, stale caches, lost replies; an upgrade and a deletion with failing nodes; 2 restarts | order, readiness and number of Machines, no dangling clones, rollouts and deletions end |
| `in_place_upgrade` | 2 control planes, 1 worker, 1 fault, caches lag | the refinement of `UpgradeContract`, one apply, everyone is upgraded |
| `cluster_upgrade` | 2 control planes, 1 worker, 2 faults, all caches lag or none | paused while versions differ, the upgrade ends |
| `instance_pool` | 2 KKMachines, 2 hosts, 1 deletable, 1 fault; no cache, that of KKMachines or that of KKInstances lags | hosts are given once and cleaned, everyone is served, deletions end |
| `file_storage` | 1 process, 1 object, 5 calls, 1 exit; namespace and watcher set up and 1 caller, or neither and 2 callers | no deletion is missed, tags go, the view converges |
| `playbook` | 2 Pods, 2 faults, deletion; the Playbook's cache lags, or both do | success is real, one Pod, the phase advances, Playbooks and deletions end |

The bounds are chosen so that each interesting case occurs.

* Three live positions and one token make workers wait for the pool while one
  holds it; with two tries a retry loop has a first and a last round. Three hosts
  of a role are the fewest for which the compaction leaves a stale duplicate in a
  slice still in use. A module's second task and second round use tables that the
  first has changed.
* Two machines compete for the init lock, a third releases it; two tokens allow
  one to be replaced by another.
* Two control planes are the fewest with a first and another, and a worker has to
  wait for both. One fault may hit any step, and what the lock or the counts
  look like afterwards is what the next pass finds.
* Two edits put the second in the middle of the rollout the first has begun; two
  Machines with a surge of one, and three without, are the smallest control planes
  that replace a Machine while another stays. Seven names suffice for every
  Machine the edits can cause. Two restarts include one in the pass that repairs
  the first.
* Two KKMachines and two hosts make each of them lose a host to the other and
  find one later, and make a freed host change hands. The caches lag one at a
  time in TLC; the proofs cover both together.
* One object suffices for the file storage, whose calls on different objects meet
  only in the watcher's queue; five calls are create, update, delete, create
  again and one that overlaps.
* A second Pod is possible, and is what the property on the Pods is about.

Deadlock is checked in `in_place_upgrade` and `cluster_upgrade`, where caches and
passes never come to an end. The other systems stop: a task returns, a pipeline
ends, all machines have their data, an object is gone, calls and faults are used
up.

### Fairness

* `RemoteTask`, `TaskRollback`: weak fairness of the caller, of each worker and
  of the timer. The Go scheduler runs runnable goroutines and the context's timer
  fires. Nothing is assumed of runners: an ssh command may hang for ever. That
  `Execute` returns all the same (`ExecuteReturns`) is the point of the deadline.
* `TaskPipeline`: weak fairness of the next step. It is sequential, and its tasks
  return by the contract.
* Controllers (`InPlaceUpgrade`, `ClusterUpgrade`, `InstancePool`,
  `K3sControlPlane`, `PlaybookReconciler`): weak fairness of each object's
  reconciliation and of each cache. A pass that fails or asks for it is requeued,
  events and the periodic resync bring the others back, and a watch delivers in
  the end. Where the code relies on them: Cluster API takes down what is deleted
  and a node joins (`K3sControlPlane`), a kubelet reports its version
  (`InPlaceUpgrade`), KKInstances upgrade (`ClusterUpgrade`), an executor goes on
  (`PlaybookReconciler`). In `PlaybookReconciler` a pass runs only when an
  event has queued the object (`Enqueue`) and the periodic `Resync` is not fair,
  so that its liveness says that no event is used up too early. Faults, edits, deletions, crashes and failing
  nodes are never fair.
* `FileStorage`: weak fairness of each call and of the watcher's loop.
* `K3sBootstrap` states no liveness and has no fairness.

## Proofs

All from the named assumptions of the modules only (sets are what their comments
say, bounds are naturals, `None` is none), so for any number of hosts, machines,
instances, calls, tries, faults and restarts.

`TaskProofs` is about what runs a task: `RemoteTask`, and through `INSTANCE`
`LocalTask`.

* `RemoteTask`. None of the properties is inductive by itself. `IInv` adds
  `Counters` (`wg` is the number of workers between `Add` and `Done`, `pool` the
  number of those between the send to and the receive from the pool, so that
  `wg = 0` means that every worker has left), `SlotInv` (what the places of a
  worker and a runner imply about the reports of their position: a success is
  there exactly when the runner has come to `send` without an error, a failure
  only when the worker has left `select`), `OneOfAKind` and `Verdict` (two
  entries of a position differ in kind, and the status follows the entries).
  From it follow `TypeCorrect`, `AllHostsAccountedFor`, `VerdictCorrect`,
  `TwoResults`, `ReturnIsClean` and, step by step, `Refinement` (`Spec`
  implements `TaskContract!CSpec`).
* `LocalTask`. `LocalRefinement` is the same refinement. `Recorded` says that
  nothing has failed before `select` is left, and that a goroutine not heard by
  then has been reported as failed, which allows it to record a success late.
  `LocalTask` has no run: this proof is all that is shown about it.

`PipelineProofs` extends both `TaskPipeline` and `TaskRollback`.

* `TaskPipeline`. `Tables` says what the host tables hold after any removals:
  nobody twice, and exactly the inventory without the removed. The lemmas on
  `Compact` show that the loop in place does this to a slice without repetitions.
  `Captured` says that a list a module holds on to has lost nobody who is still
  in the tables, although its array is compacted under it: the entries move
  forward only and it is at least as long. `Blame` relates the hosts that have
  failed to those removed, to the reports of the task at hand that are not read
  yet, and to the status of task and module. `TablesStayInStep`,
  `NobodyPassedOver`, `FailedHostsStayOut`, `VerdictCorrect`,
  `FirstFailureIsFinal` and `TypeCorrect` follow, for any inventory, modules and
  number of rounds. That kk may panic (the first finding) contradicts none of
  them.
* `TaskRollback`. `Balance` counts: unless kk has panicked, `rwg` and the number
  of workers that have exited add up to the number of results whose `Add` was
  made. A `Done` that overtakes its `Add` keeps this sum, or finds nothing to
  take from and panics. So when `Wait` lets the caller go, all that were added
  have exited, and by `Started` nobody else was started: `RollbackWaits`, with
  `RollbackTypeCorrect`.

`K3sBootstrapProofs`. `IInv` says of each step of a reconcile what it implies
while no machine was deleted and the control plane is not initialized: a machine
past `Lock`, or on its way through `Unlock`, holds the lock; the token it has
generated is the stored one; a Ready config keeps the lock, so nobody can come
after it. From it follow `LockIsExclusive`, `TokenAgrees` and `DataIsFinal`.
`JoinsAreLate` has an invariant of its own, `JInv`, about reconciles on the way
to join.

`K3sControlPlaneProofs`. `IInv` has a part per property. `Spares` bounds the
clones by the crashes plus those of the creation under way, and says that a
clean-up finds what it deletes (`NoClonesLeft`). `Room`: a decision to create a
Machine stays right over the three requests until it is made, because meanwhile
Machines only go and the pass keeps its own copy of the object
(`SurgeRespected`). `TrueIsReady`: while nodes do not fail, a condition that is
`True` is not outdated (`HealthyBeforeScaleDown`). `WorkersSeen`, `Untouched` and
`Released`: the cache shows at least the workers there are, and an object
without its finalizer has no Machines (`TeardownInOrder`).

`InPlaceUpgradeProofs`. `Order` relates what the cache of Machines shows to what
is recorded and to what was done on the host: each is behind the next, and an
instance at a step of the upgrade has counted what the step requires. So a stale
count errs on the side of waiting. From it follow `FinishesLastAlways`,
`ApplyBeforeNodeAlways` and the refinement `Implements`; none of them needs the
lock. `OnlyFirstAppliesAlways` does, and is proved for a lock that cannot be
deleted (`~CanDelete`): whoever applies or has applied is named in it.

`ClusterUpgradeProofs`. `Progress` says what a pass has established by the step it
has come to, whichever caches it has read; the Cluster is paused, or all owners
are patched, or no Machine can have been upgraded yet. That gives
`PausedWhileDivergedAlways`.

`InstancePoolProofs`. `DirtyHostIsKept` is inductive with the types.
`UniqueProviderIDAlways` rests on `Settled`: while nobody is deleted, the owner
of a host's KKInstance is the only one that can hold its name, in its object, its
cached copy or the pass under way; and a deletion is never undone.
`NotOrphanedAlways` rests on `Backed`, which holds while nothing has failed and no
cache lags (`Calm`): a KKInstance is recorded by its KKMachine or by the pass that
is about to save it, that KKMachine has its finalizer, and one that looks for a
host or is about to drop its finalizer has none.

`FeatureProofs` extends both `PlaybookReconciler` and `FileStorage`.

* `PlaybookReconciler`. While the list of Pods is fresh, only a pass that has read
  a deleted Playbook deletes Pods or removes the finalizer (`Released`), and a
  pass that may create a Pod finds none that has been (`Creating`). That the copy
  of the Playbook is old does no harm. `OnePodAlways` and
  `ReleasedAfterRunAlways` follow. `SucceededHasRunAlways` holds however stale
  both caches are and however many Pods there are, by `History`: copies of the
  Playbook follow it in order (`Ordered`), the list of Pods shows what has been
  (`Followed`), Pods go only when the Playbook has ended (`Deleted`), and a Pod
  that exits with 0 without having run anything has started after another had
  ended (`Unearned`), so it is never the only one listed and its phase is not
  taken over. With one Pod, a failed Playbook's Pod has failed too
  (`FailedForGood`), which with `Ordered` gives `PhaseOnlyAdvancesAlways`.
* `FileStorage`. Between the `Deleted` it has sent and its `os.Remove` the watcher
  takes no other event (`Handled`), so the object cannot come back into the view:
  `RemovedAfterHandledAlways`, for one process on the directory.

TLC finds the inductive invariants of `RemoteTask`, `TaskPipeline`, `TaskRollback`,
`K3sControlPlane`, `InstancePool` and `PlaybookReconciler` true on instances of the
runs' size; `History` also with three Pods, `Backed` with both KKMachines deletable.

Proved and not repeated by a run: type correctness of all modules but
`TaskPipeline` and `TaskRollback`, whose runs check it as well (of
`PlaybookReconciler` it is part of the invariants `Inv` and `History`),
`FinishesLast` and `ApplyBeforeNode` of `InPlaceUpgrade`, `ReadyDataIsFinal` of
`K3sBootstrap`, `ReleasedAfterRun` of `PlaybookReconciler`, and of `RemoteTask` what
`TaskContract` already contains.

Every safety property that a passing run checks, invariant or action property, is
also proved. Only model-checked: all liveness, which rests on fairness and
`ENABLED` and is out of the prover's reach (`ExecuteReturns`, `PipelineEnds`,
`RollbackEnds`, `UpgradeCompletes`, `UpgradeEnds`, `EveryMachineServed`,
`RolloutCompletes`, `TagsAreRemoved`, `ViewConverges`, `PlaybookCompletes` and the
three `DeletionCompletes`).

## Findings

Two runs refute what the repository says.

1. `--ignore-err` may crash kk (`ForceToContinue`). Of three hosts a, b, c of a
   role b fails and is removed; the slice the module's next task captured now
   reads a, c, c. The task runs twice on c; if it fails both times, `DeleteHost`
   is called twice for c, and the second call is out of range.
2. The init lock is not enough once the control plane is up (`FirstAndOnly`). A
   reconcile that has read "not initialized" and is delayed takes the lock after a
   joining machine has released it, and initialises a second cluster. The k3s
   control plane provider creates only one machine with an init configuration, so
   this takes Machines that bring a K3sConfig of their own.

`TaskRollback` also shows a fact that is harmless at present: the rollback of a
task that is not Parallel always panics, because its worker calls `Done` in line
before `Add`. The four tasks of kk that have a rollback are Parallel.

## Outside the hypotheses

Several properties are claimed under a condition. Without it TLC finds a
counterexample. Dropping the condition from the property reproduces it under the
run's own cfg, except where the condition is fixed by a constant: `CanDelete` has
to be `TRUE`, the pause without workers needs a cluster without them, and the
last item of the list two processes. What then happens:

* `FirstAndOnlyWhileUndisturbed`, after the holder of the init lock was deleted:
  a machine that has found the holder gone and is delayed deletes, by name, the
  lock that another has acquired meanwhile, which goes on without it. With three
  control planes (`ControlPlanes <- MCMachine`) two machines then initialise.
* `OnlyFirstApplies` with `CanDelete`: `Mutex.Lock` looks the holder, a KKInstance,
  up as a Machine, finds none unless the names agree (`NamedLikeMachine`), and
  releases a live holder's lock: two control planes apply at once. The order of
  `UpgradeContract` is kept all the same.
* An uncordon that fails is logged only, and the next pass ends before it: the
  node is upgraded and stays unschedulable. No property claims otherwise.
* `UpgradeEnds` with a stale cache of the KKCluster: a pass that still sees the
  request after it was served pauses the Cluster again and nobody unpauses it. In
  a cluster without workers the empty role is an error in every pass, and the
  Cluster is never unpaused.
* `UniqueProviderID` with deletions: a cleaned host is taken by another KKMachine
  while the one that is going still names it. A KKMachine read without the
  `ProviderID` it has just saved takes a second host.
* `NotOrphaned` with a fault or a stale cache: between the creation of the
  KKInstance and the save of its name the pass breaks off, and a deletion then
  finds nothing to delete.
* `OthersReady` with failing nodes: a node that is not ready and not tainted
  unreachable keeps its condition, `True`, and preflight checks pass.
* `TornDownInOrder` with a stale cache of Machines: the finalizer goes although a Machine
  that was just created exists; garbage collection removes it
  (`DeletionCompletes`). `RolloutCompletes` with lost replies: when the reply to
  the creation of a Machine is lost, its clones are cleaned up, and the Machine
  never gets a node.
* The properties of `PlaybookReconciler` with a stale cache of Pods: a second Pod
  runs the tasks again, the finalizer goes while a Pod executes, and with two Pods
  the status is taken from neither, so that the Playbook may stay Running.
* `TagsAreRemoved` and `ViewConverges` when disturbed: the first file of a new
  namespace, or one created between the list and the watch, is never seen; the
  tagged file of a process that ends stays; so does one that was renamed while an
  update had truncated it. With two processes on the directory one may remove
  the file before the other has read it (`RemovedAfterHandled`), and an update
  that works on the cacher's copy creates a deleted file again.

## Not modelled

`PROJECT.json` lists every component with its status.

* Shell commands, templates, cloud-init texts, ssh and HTTP: I/O without state of
  kk's own. The individual modules of kk's pipelines are lists of such commands.
  The `Dialer` is a map under a lock; what it adds, a connection that takes until
  the deadline, is in `RemoteTask`.
* API types, deep copies, CRDs and webhooks: declarations and generated code. The
  swagger UI pages are vendored and minified.
* `K3sBootstrap`: pausing, restoring from a backup, watch mappings, tokens given
  by the user, lag of the cache of K3sConfigs.
* `K3sControlPlane`: adoption, certificates and kubeconfig, which come before all
  Machines; failure domains, which KubeKey does not define; the aggregated
  condition, which is only displayed.
* KKInstance's phases between the first and the last command of a host; the
  KKCluster's endpoint and load balancer, set once from the spec.
* The playbook executor (blocks, rescue, loops, templates): a sequential walk over
  a data tree. Of it only the outcome and its status patch appear.
* Paging of `GetList`: a filter over the entries read, without state.
* Unsynchronised reads in Go (`ActionResults` while an abandoned runner may
  append, the Dialer's map on close): the models' steps are atomic.
* The composition of `K3sControlPlane` with `K3sBootstrap` and `InstancePool`: each
  sees the others as what Cluster API makes of them.
