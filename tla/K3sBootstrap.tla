---------------------------- MODULE K3sBootstrap ----------------------------
(***************************************************************************)
(* The K3sConfig controller (bootstrap/k3s/controllers) and its init lock  *)
(* (bootstrap/k3s/pkg/locking): which machine of a cluster is given the    *)
(* bootstrap data of the first control plane, and which ones join.         *)
(*                                                                         *)
(* One reconcile per K3sConfig at a time, those of different machines      *)
(* concurrently (k3sconfig-concurrency is 10).  Every request to the API   *)
(* server is a step of its own and may fail; the lock is a ConfigMap whose *)
(* creation is atomic and whose deletion is by name only.  The controller  *)
(* may restart between any two requests.  Machines may be deleted.         *)
(*                                                                         *)
(* Abstracted: certificates, files and cloud-init texts (of the bootstrap  *)
(* data, its kind and its token are kept), conditions, user-supplied join  *)
(* tokens, and the early returns of Reconcile for objects that are         *)
(* missing, paused or restored from a backup.  The cluster's               *)
(* infrastructure is ready.  Reconcile sees its own config as last written *)
(* (no lag of the informer cache).                                         *)
(***************************************************************************)
EXTENDS Naturals, FiniteSets

CONSTANTS
    Machine,        \* the machines of the cluster
    ControlPlanes,  \* control planes whose config has a server configuration
    Deletable,      \* those that may be deleted
    None,           \* no machine: the lock is free
    MaxTokens,      \* bound: tokens generated
    MaxRestarts     \* bound: restarts of the controller

ASSUME MachineAssumption ==
    ControlPlanes \subseteq Machine /\ Deletable \subseteq Machine /\ None \notin Machine
ASSUME BoundAssumption == MaxTokens \in Nat /\ MaxRestarts \in Nat

VARIABLES
    machines,       \* Machine objects that exist
    lock,           \* machine named in the lock's ConfigMap, or None
    initialized,    \* ControlPlaneInitializedCondition of the Cluster
    token,          \* value of the <cluster>-token Secret, 0 if there is none
    tokens,         \* tokens generated so far
    data,           \* per machine: its bootstrap data Secret
    ready,          \* per machine: K3sConfig.Status.Ready as persisted
    joinToken,      \* per machine: K3sConfig.Spec.Cluster.Token as persisted, or 0
    pc,             \* per machine: where its reconcile stands
    after,          \* per machine: where to go on after Unlock
    holder,         \* per machine: lock holder it has read
    mine,           \* per machine: token its reconcile has generated
    restarts

vars == <<machines, lock, initialized, token, tokens, data, ready,
          joinToken, pc, after, holder, mine, restarts>>

api == <<machines, initialized, ready, joinToken>>
local == <<after, holder, mine>>

Steps == {"idle", "lock", "holder", "create", "token", "store", "unlock", "delete", "join", "patch"}
Data == [kind : {"none", "init", "join"}, token : Nat]

TypeOK ==
    /\ machines \subseteq Machine
    /\ lock \in Machine \cup {None}
    /\ initialized \in BOOLEAN
    /\ token \in Nat /\ tokens \in Nat
    /\ data \in [Machine -> Data]
    /\ ready \in [Machine -> BOOLEAN]
    /\ joinToken \in [Machine -> Nat]
    /\ pc \in [Machine -> Steps]
    /\ after \in [Machine -> {"idle", "join"}]
    /\ holder \in [Machine -> Machine \cup {None}]
    /\ mine \in [Machine -> Nat]
    /\ restarts \in Nat

Init ==
    /\ machines = Machine
    /\ lock = None
    /\ initialized = FALSE
    /\ token = 0 /\ tokens = 0
    /\ data = [m \in Machine |-> [kind |-> "none", token |-> 0]]
    /\ ready = [m \in Machine |-> FALSE]
    /\ joinToken = [m \in Machine |-> 0]
    /\ pc = [m \in Machine |-> "idle"]
    /\ after = [m \in Machine |-> "idle"]
    /\ holder = [m \in Machine |-> None]
    /\ mine = [m \in Machine |-> 0]
    /\ restarts = 0

Goto(m, step) == pc' = [pc EXCEPT ![m] = step]

(* Unlock is called, to go on with `then' whether it succeeds or not. *)
CallUnlock(m, then) == Goto(m, "unlock") /\ after' = [after EXCEPT ![m] = then]

-----------------------------------------------------------------------------
(* Reconcile *)

(* Mutant: a worker joins without waiting for the control plane. *)
Reconcile_early(m) ==
    /\ pc[m] = "idle" /\ m \in machines /\ ~ready[m]
    /\ IF initialized
         THEN CallUnlock(m, "join")
         ELSE Goto(m, IF m \in ControlPlanes THEN "lock" ELSE "join") /\ UNCHANGED after
    /\ UNCHANGED <<api, lock, token, tokens, data, holder, mine, restarts>>

(* A config that is Ready is left alone; before the control plane is        *)
(* initialized only control planes go on; afterwards Unlock, then join.     *)
Reconcile(m) ==
    /\ pc[m] = "idle" /\ m \in machines /\ ~ready[m]
    /\ IF initialized
         THEN CallUnlock(m, "join")
         ELSE m \in ControlPlanes /\ Goto(m, "lock") /\ UNCHANGED after
    /\ UNCHANGED <<api, lock, token, tokens, data, holder, mine, restarts>>

(* A request that Lock makes, or the final patch, fails: requeue. *)
GiveUp(m) ==
    /\ pc[m] \in {"lock", "holder", "create", "patch"}
    /\ Goto(m, "idle")
    /\ UNCHANGED <<api, lock, token, tokens, data, local, restarts>>

(* The deferred Unlock of handleClusterNotInitialized on an error. *)
InitFails(m) ==
    /\ pc[m] \in {"token", "store"}
    /\ CallUnlock(m, "idle")
    /\ UNCHANGED <<api, lock, token, tokens, data, holder, mine, restarts>>

(* Mutant: the reconcile uses the token it finds, the Secret gets a new one. *)
StoreToken_stale(m) ==
    /\ pc[m] = "token" /\ tokens < MaxTokens
    /\ tokens' = tokens + 1
    /\ token' = tokens + 1
    /\ mine' = [mine EXCEPT ![m] = token]
    /\ Goto(m, "store")
    /\ UNCHANGED <<api, lock, data, after, holder, restarts>>

(* generateAndStoreToken: a new token each time, the Secret overwritten. *)
StoreToken(m) ==
    /\ pc[m] = "token" /\ tokens < MaxTokens
    /\ tokens' = tokens + 1
    /\ token' = tokens + 1
    /\ mine' = [mine EXCEPT ![m] = tokens + 1]
    /\ Goto(m, "store")
    /\ UNCHANGED <<api, lock, data, after, holder, restarts>>

(* storeBootstrapData of the first control plane; its reply may be lost. *)
StoreInitData(m) ==
    /\ pc[m] = "store"
    /\ data' = [data EXCEPT ![m] = [kind |-> "init", token |-> mine[m]]]
    /\ \/ Goto(m, "patch") /\ UNCHANGED after
       \/ CallUnlock(m, "idle")
    /\ UNCHANGED <<api, lock, token, tokens, holder, mine, restarts>>

(* reconcileDiscovery keeps a token that is in the config already, and      *)
(* otherwise takes the one of the token Secret.                             *)
Discovered(m) == IF joinToken[m] # 0 THEN joinToken[m] ELSE token

StoreJoinData(m) ==
    /\ Discovered(m) # 0
    /\ data' = [data EXCEPT ![m] = [kind |-> "join", token |-> Discovered(m)]]

(* joinControlplane, joinWorker *)
Join(m) ==
    /\ pc[m] = "join"
    /\ StoreJoinData(m)
    /\ Goto(m, "patch")
    /\ UNCHANGED <<api, lock, token, tokens, local, restarts>>

(* They fail, or their last reply is lost.  The deferred patch persists the *)
(* token in the config's spec all the same, unless it fails as well.        *)
JoinFails(m) ==
    /\ pc[m] = "join"
    /\ StoreJoinData(m) \/ UNCHANGED data
    /\ \E t \in {joinToken[m], Discovered(m)} : joinToken' = [joinToken EXCEPT ![m] = t]
    /\ Goto(m, "idle")
    /\ UNCHANGED <<machines, initialized, ready, lock, token, tokens, local, restarts>>

(* The deferred patch of the config; it may fail (GiveUp). *)
Patch(m) ==
    /\ pc[m] = "patch"
    /\ ready' = [ready EXCEPT ![m] = TRUE]
    /\ joinToken' = IF data[m].kind = "join"
                      THEN [joinToken EXCEPT ![m] = data[m].token]
                      ELSE joinToken
    /\ Goto(m, "idle")
    /\ UNCHANGED <<machines, initialized, lock, token, tokens, data, local, restarts>>

-----------------------------------------------------------------------------
(* ControlPlaneInitMutex.Lock *)

LockGet(m) ==
    /\ pc[m] = "lock"
    /\ holder' = [holder EXCEPT ![m] = lock]
    /\ Goto(m, IF lock = None THEN "create" ELSE IF lock = m THEN "token" ELSE "holder")
    /\ UNCHANGED <<api, lock, token, tokens, data, after, mine, restarts>>

(* The machine that holds the lock is looked up. *)
HolderGet(m) ==
    /\ pc[m] = "holder"
    /\ IF holder[m] \in machines
         THEN Goto(m, "idle") /\ UNCHANGED after
         ELSE CallUnlock(m, "idle")
    /\ UNCHANGED <<api, lock, token, tokens, data, holder, mine, restarts>>

(* Mutant: AlreadyExists is taken for success. *)
LockCreate_exists(m) ==
    /\ pc[m] = "create"
    /\ lock' = IF lock = None THEN m ELSE lock
    /\ Goto(m, "token")
    /\ UNCHANGED <<api, token, tokens, data, local, restarts>>

(* Create fails if the ConfigMap exists; its reply may be lost. *)
LockCreate(m) ==
    /\ pc[m] = "create"
    /\ IF lock = None
         THEN lock' = m /\ \E step \in {"token", "idle"} : Goto(m, step)
         ELSE Goto(m, "idle") /\ UNCHANGED lock
    /\ UNCHANGED <<api, token, tokens, data, local, restarts>>

-----------------------------------------------------------------------------
(* ControlPlaneInitMutex.Unlock *)

UnlockGet(m) ==
    /\ pc[m] = "unlock"
    /\ \/ lock # None /\ Goto(m, "delete")
       \/ Goto(m, after[m])
    /\ UNCHANGED <<api, lock, token, tokens, data, local, restarts>>

(* The Delete names the ConfigMap, not the holder it had when it was read. *)
UnlockDelete(m) ==
    /\ pc[m] = "delete"
    /\ \/ lock' = None
       \/ UNCHANGED lock
    /\ Goto(m, after[m])
    /\ UNCHANGED <<api, token, tokens, data, local, restarts>>

-----------------------------------------------------------------------------
(* The environment *)

(* A control plane with init data has come up (the Cluster controller).     *)
ControlPlaneUp ==
    /\ ~initialized
    /\ \E m \in machines : ready[m] /\ data[m].kind = "init"
    /\ initialized' = TRUE
    /\ UNCHANGED <<machines, lock, token, tokens, data, ready, joinToken, pc, local, restarts>>

DeleteMachine(m) ==
    /\ m \in machines \cap Deletable
    /\ machines' = machines \ {m}
    /\ UNCHANGED <<lock, initialized, token, tokens, data, ready, joinToken, pc, local, restarts>>

(* The controller manager restarts: reconciles under way are forgotten. *)
Restart ==
    /\ restarts < MaxRestarts
    /\ restarts' = restarts + 1
    /\ pc' = [m \in Machine |-> "idle"]
    /\ UNCHANGED <<api, lock, token, tokens, data, local>>

-----------------------------------------------------------------------------
Progress(m) ==
    \/ Reconcile(m) \/ StoreToken(m) \/ StoreInitData(m) \/ Join(m) \/ Patch(m)
    \/ LockGet(m) \/ HolderGet(m) \/ LockCreate(m) \/ UnlockGet(m) \/ UnlockDelete(m)

Failure(m) == GiveUp(m) \/ InitFails(m) \/ JoinFails(m)

Next ==
    \/ \E m \in Machine : Progress(m) \/ Failure(m) \/ DeleteMachine(m)
    \/ ControlPlaneUp \/ Restart

Spec == Init /\ [][Next]_vars

-----------------------------------------------------------------------------
(* Properties *)

InitData(m) == ready[m] /\ data[m].kind = "init"

(* "Lock allows a control plane node to be the first and only node to run   *)
(* kubeadm init": no two machines of the cluster hold the bootstrap data of *)
(* a first control plane.                                                   *)
FirstAndOnly ==
    \A m, n \in machines : InitData(m) /\ InitData(n) => m = n

(* What the lock does guarantee.  As long as the control plane is not       *)
(* initialized and no machine has been deleted, nobody but the holder is in *)
(* handleClusterNotInitialized past Lock, restarts and failures of any      *)
(* request notwithstanding, and at most one machine gets init data.         *)
FirstAndOnlyWhileUndisturbed ==
    machines = Machine /\ ~initialized =>
      /\ \A m \in Machine : pc[m] \in {"token", "store"} => lock = m
      /\ \A m, n \in Machine : InitData(m) /\ InitData(n) => m = n

(* Under the same condition the token Secret agrees with the init data that *)
(* is in use, so that the machines that join find the token of the first    *)
(* control plane: no later generateAndStoreToken overwrites it.             *)
TokenIsTheFirstNodes ==
    machines = Machine /\ ~initialized =>
      \A m \in Machine : InitData(m) => token = data[m].token

(* No machine is given join data before the control plane is initialized,   *)
(* nor without a token: reconcileDiscovery never reads the token Secret too *)
(* early, whatever the lock, deletions and restarts do.                     *)
JoinAfterInit ==
    \A m \in Machine : data[m].kind = "join" => initialized /\ data[m].token # 0

(* Bootstrap data that is Ready is final: neither its kind nor its token    *)
(* changes under the node that has used it.                                 *)
ReadyDataIsFinal ==
    [][\A m \in Machine : ready[m] => ready'[m] /\ data'[m] = data[m]]_vars
=============================================================================
