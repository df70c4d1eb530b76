--------------------------- MODULE ClusterUpgrade ---------------------------
(***************************************************************************)
(* The in-place upgrade as the KKCluster controller conducts it            *)
(* (controllers/kkcluster: reconcileNormal, its upgrade phases and         *)
(* reconcilePatchAnnotations).                                             *)
(*                                                                         *)
(* A user annotates the KKCluster with a version.  The controller pauses   *)
(* the Cluster, so that Cluster API leaves the Machines alone, annotates   *)
(* the KKInstances, waits until all of them have upgraded, writes the      *)
(* version into the owners of the Machines, unpauses the Cluster and       *)
(* removes the annotations.  The KKInstances meanwhile follow              *)
(* UpgradeContract, which InPlaceUpgrade implements.                       *)
(*                                                                         *)
(* One step is one request.  What is read comes from the informer caches;  *)
(* those of the kinds in lag may be behind the server.  An Update is       *)
(* refused when the object has changed since it was read.  Requests fail   *)
(* and the manager restarts MaxFaults times in all.                        *)
(*                                                                         *)
(* Abstracted: there is one target version and one annotation of the       *)
(* KKCluster; DNS lookup, readiness and summary conditions.  The cached    *)
(* Machines are up to date when the owners are patched: their versions are *)
(* written long before the last KKInstance reports its kubelet.            *)
(***************************************************************************)
EXTENDS Naturals

CONSTANTS
    CP, Workers,        \* the active KKInstances of the KKCluster, by role
    Lags,               \* the sets of kinds whose cache may be stale
    MaxFaults           \* bound: failing requests and restarts

Node == CP \cup Workers
Kinds == {"kkcluster", "cluster", "kkinstance"}

ASSUME RolesAssumption == CP # {} /\ CP \cap Workers = {}
ASSUME LagAssumption == Lags \subseteq SUBSET Kinds
ASSUME FaultAssumption == MaxFaults \in Nat

VARIABLES
    lag,                \* kinds whose cache may be stale, throughout
    request,            \* KKCluster annotation: "none", "set", "removed"
    requestSeen,        \* the same in the cache
    paused,             \* Cluster.Spec.Paused
    pausedSeen,         \* the same in the cache
    pausedFresh,        \* the cached Cluster is the current one
    ann,                \* annotated KKInstances
    done,               \* KKInstances that report the upgrade complete
    annSeen, doneSeen,  \* the same in the cache
    fresh,              \* KKInstances whose cached object is the current one
    owners,             \* owners of Machines that have the new version
    upgraded, restarted,\* UpgradeContract
    pc,                 \* next step of the KKCluster's reconciliation
    mine,               \* its KKCluster has the annotation
    todo,               \* KKInstances the current phase has yet to update
    copied,             \* KKInstances whose copy, as listed, is still current
    faults

api == <<request, paused, ann, done, owners>>
cache == <<requestSeen, pausedSeen, pausedFresh, annSeen, doneSeen, fresh>>
local == <<mine, todo, copied>>
contract == <<upgraded, restarted>>
vars == <<lag, api, cache, local, contract, pc, faults>>

Upgrade == INSTANCE UpgradeContract

Owners == {"controlPlane", "machineSets", "machineDeployments"}

TypeOK ==
    /\ request \in {"none", "set", "removed"} /\ requestSeen \in {"none", "set", "removed"}
    /\ paused \in BOOLEAN /\ pausedSeen \in BOOLEAN /\ pausedFresh \in BOOLEAN
    /\ ann \subseteq Node /\ done \subseteq restarted
    /\ annSeen \subseteq Node /\ doneSeen \subseteq done /\ fresh \subseteq Node
    /\ owners \subseteq Owners
    /\ restarted \subseteq upgraded /\ upgraded \subseteq Node
    /\ pc \in {"idle", "pause", "annotateCP", "annotateWorkers", "check", "controlPlane",
               "machineSets", "machineDeployments", "unpause", "clean"}
    /\ mine \in BOOLEAN
    /\ todo \subseteq Node /\ copied \subseteq Node
    /\ pc \notin {"idle", "clean"} => mine
    /\ faults \in 0..MaxFaults

Init ==
    /\ lag \in Lags
    /\ request = "none" /\ requestSeen = "none"
    /\ paused = FALSE /\ pausedSeen = FALSE /\ pausedFresh = TRUE
    /\ ann = {} /\ done = {} /\ annSeen = {} /\ doneSeen = {} /\ fresh = Node
    /\ owners = {}
    /\ Upgrade!UInit
    /\ pc = "idle" /\ mine = FALSE /\ todo = {} /\ copied = {}
    /\ faults = 0

-----------------------------------------------------------------------------
(* What a read returns, and whether it is the current object. *)
Request == IF "kkcluster" \in lag THEN requestSeen ELSE request
Paused == IF "cluster" \in lag THEN pausedSeen ELSE paused
PausedFresh == "cluster" \in lag => pausedFresh
Annotated == IF "kkinstance" \in lag THEN annSeen ELSE ann
Completed == IF "kkinstance" \in lag THEN doneSeen ELSE done
Fresh == IF "kkinstance" \in lag THEN fresh ELSE Node

Goto(step) == pc' = step /\ UNCHANGED <<api, cache, local, contract, faults>>

(* An error or a RequeueAfter ends the reconciliation. *)
Requeue == Goto("idle")

(* A phase lists the KKInstances, and will update those in S. *)
List(step, S) ==
    /\ pc' = step
    /\ todo' = S
    /\ copied' = Fresh

(* The KKInstance n changes at the server. *)
Touch(n) ==
    /\ fresh' = IF "kkinstance" \in lag THEN fresh \ {n} ELSE fresh
    /\ copied' = copied \ {n}

-----------------------------------------------------------------------------
(* The user asks for the upgrade. *)
Ask ==
    /\ request = "none"
    /\ request' = "set"
    /\ UNCHANGED <<paused, ann, done, owners, cache, local, contract, pc, faults>>

(* reconcileNormal: without the annotation only reconcilePatchAnnotations. *)
Begin ==
    /\ pc = "idle"
    /\ mine' = (Request = "set")
    /\ IF mine' THEN pc' = "pause" /\ UNCHANGED <<todo, copied>>
                ELSE List("clean", Annotated)
    /\ UNCHANGED <<api, cache, contract, faults>>

(* The step after reconcilePausedCluster: the phase that lists, or cleaning. *)
AfterPaused(desired) ==
    IF desired THEN List("annotateCP", CP \ Annotated) ELSE List("clean", Annotated)

(* Mutant: the Cluster is not unpaused. *)
SetPaused_never(desired) ==
    /\ pc = IF desired THEN "pause" ELSE "unpause"
    /\ paused' = TRUE /\ pausedFresh' = ("cluster" \notin lag)
    /\ AfterPaused(desired)
    /\ UNCHANGED <<request, ann, done, owners, requestSeen, pausedSeen, annSeen,
                   doneSeen, fresh, mine, contract, faults>>

(* reconcilePausedCluster *)
SetPaused(desired) ==
    /\ pc = IF desired THEN "pause" ELSE "unpause"
    /\ \/ /\ Paused = desired
          /\ AfterPaused(desired)
          /\ UNCHANGED <<api, cache, mine, contract, faults>>
       \/ /\ Paused # desired /\ PausedFresh
          /\ paused' = desired /\ pausedFresh' = ("cluster" \notin lag)
          /\ AfterPaused(desired)
          /\ UNCHANGED <<request, ann, done, owners, requestSeen, pausedSeen, annSeen,
                         doneSeen, fresh, mine, contract, faults>>
       \/ Paused # desired /\ ~PausedFresh /\ Requeue

(* reconcileKKInstanceInPlaceUpgrade, for one KKInstance of the role *)
Annotate(n) ==
    /\ pc \in {"annotateCP", "annotateWorkers"} /\ n \in todo
    /\ \/ /\ n \in copied
          /\ ann' = ann \cup {n}
          /\ Touch(n)
          /\ todo' = todo \ {n}
          /\ UNCHANGED <<request, paused, done, owners, requestSeen, pausedSeen, pausedFresh,
                         annSeen, doneSeen, mine, contract, pc, faults>>
       \/ n \notin copied /\ Requeue

(* The role is annotated.  A role without KKInstances is an error. *)
RoleAnnotated ==
    /\ todo = {}
    /\ \/ /\ pc = "annotateCP"
          /\ IF Workers = {}
               THEN Requeue
               ELSE /\ List("annotateWorkers", Workers \ Annotated)
                    /\ UNCHANGED <<api, cache, mine, contract, faults>>
       \/ pc = "annotateWorkers" /\ Goto("check")

(* Mutant: the check looks at the annotations only. *)
Check_annotationsOnly ==
    /\ pc = "check"
    /\ IF Node \subseteq Annotated THEN Goto("controlPlane") ELSE Requeue

(* reconcileKKInstanceUpgradeCheck *)
Check ==
    /\ pc = "check"
    /\ IF Node \subseteq Annotated \cap Completed THEN Goto("controlPlane") ELSE Requeue

AfterOwner == [controlPlane |-> "machineSets", machineSets |-> "machineDeployments",
               machineDeployments |-> "unpause"]

(* reconcilePatchResourceSpecVersion: the owners of an upgraded Machine *)
PatchOwner ==
    /\ pc \in Owners
    /\ owners' = IF upgraded \cap (IF pc = "controlPlane" THEN CP ELSE Workers) # {}
                   THEN owners \cup {pc} ELSE owners
    /\ pc' = AfterOwner[pc]
    /\ UNCHANGED <<request, paused, ann, done, cache, local, contract, faults>>

(* reconcilePatchAnnotations, for one KKInstance *)
Clean(n) ==
    /\ pc = "clean" /\ n \in todo
    /\ \/ /\ n \in copied
          /\ ann' = ann \ {n}
          /\ Touch(n)
          /\ todo' = todo \ {n}
          /\ UNCHANGED <<request, paused, done, owners, requestSeen, pausedSeen, pausedFresh,
                         annSeen, doneSeen, mine, contract, pc, faults>>
       \/ n \notin copied /\ Requeue

(* The KKCluster is patched when its scope is closed. *)
Close ==
    /\ pc = "clean" /\ todo = {}
    /\ request' = IF mine THEN "removed" ELSE request
    /\ pc' = "idle"
    /\ UNCHANGED <<paused, ann, done, owners, cache, local, contract, faults>>

(* A request fails, or the manager restarts. *)
Fail ==
    /\ pc # "idle" /\ faults < MaxFaults
    /\ faults' = faults + 1
    /\ pc' = "idle"
    /\ UNCHANGED <<api, cache, local, contract>>

Reconcile ==
    \/ Begin \/ RoleAnnotated \/ Check \/ PatchOwner \/ Close
    \/ \E desired \in BOOLEAN : SetPaused(desired)
    \/ \E n \in Node : Annotate(n) \/ Clean(n)

-----------------------------------------------------------------------------
(* The KKInstance controller works on an annotated instance. *)
Work(n) ==
    /\ n \in ann
    /\ \/ n \in CP \ upgraded /\ (Upgrade!First(n) \/ Upgrade!Other(n))
       \/ n \in Workers \ upgraded /\ Upgrade!Worker(n)
       \/ n \notin restarted /\ Upgrade!Restart(n)
    /\ UNCHANGED <<api, cache, local, pc, faults>>

Complete(n) ==
    /\ n \in (ann \cap restarted) \ done
    /\ done' = done \cup {n}
    /\ Touch(n)
    /\ UNCHANGED <<request, paused, ann, owners, requestSeen, pausedSeen, pausedFresh, annSeen,
                   doneSeen, mine, todo, contract, pc, faults>>

(* The informers deliver a change. *)
SeeKKCluster ==
    /\ "kkcluster" \in lag /\ requestSeen # request
    /\ requestSeen' = request
    /\ UNCHANGED <<api, pausedSeen, pausedFresh, annSeen, doneSeen, fresh, local, contract, pc,
                   faults>>

SeeCluster ==
    /\ ~pausedFresh
    /\ pausedSeen' = paused /\ pausedFresh' = TRUE
    /\ UNCHANGED <<api, requestSeen, annSeen, doneSeen, fresh, local, contract, pc, faults>>

SeeKKInstance(n) ==
    /\ n \notin fresh
    /\ annSeen' = IF n \in ann THEN annSeen \cup {n} ELSE annSeen \ {n}
    /\ doneSeen' = IF n \in done THEN doneSeen \cup {n} ELSE doneSeen
    /\ fresh' = fresh \cup {n}
    /\ UNCHANGED <<api, requestSeen, pausedSeen, pausedFresh, local, contract, pc, faults>>

Next ==
    /\ \/ Ask \/ Reconcile \/ Fail \/ SeeKKCluster \/ SeeCluster
       \/ \E n \in Node : Work(n) \/ Complete(n) \/ SeeKKInstance(n)
    /\ UNCHANGED lag

(* The KKCluster is requeued while it waits, the KKInstances finish their   *)
(* upgrade, the informers catch up.                                         *)
Spec ==
    /\ Init /\ [][Next]_vars
    /\ WF_vars(Reconcile /\ UNCHANGED lag)
    /\ WF_vars(SeeKKCluster /\ UNCHANGED lag) /\ WF_vars(SeeCluster /\ UNCHANGED lag)
    /\ \A n \in Node :
         /\ WF_vars(Work(n) /\ UNCHANGED lag) /\ WF_vars(Complete(n) /\ UNCHANGED lag)
         /\ WF_vars(SeeKKInstance(n) /\ UNCHANGED lag)

-----------------------------------------------------------------------------
(* Properties *)

(* Cluster API is kept away for as long as some Machine has a version its   *)
(* owner does not have: until the owners are patched the Cluster is paused, *)
(* or else the control plane would replace the machines just upgraded.      *)
PausedWhileDiverged ==
    \/ paused
    \/ /\ CP \cap upgraded = {} \/ "controlPlane" \in owners
       /\ Workers \cap upgraded = {} \/ {"machineSets", "machineDeployments"} \subseteq owners

(* A request is answered for good: every instance upgraded, the owners of   *)
(* the Machines patched, the Cluster unpaused, the annotations gone.  This  *)
(* is asked where the caches keep up between two requests: requeues wait    *)
(* for 15 to 30 seconds.                                                    *)
UpgradeEnds ==
    lag = {} /\ request = "set" ~>
      [](request = "removed" /\ restarted = Node /\ owners = Owners /\ ~paused /\ ann = {})
=============================================================================
