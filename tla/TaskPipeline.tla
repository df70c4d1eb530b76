---------------------------- MODULE TaskPipeline ----------------------------
(***************************************************************************)
(* A kk pipeline: modules run in order, each a list of tasks, each task on *)
(* a list of hosts (cmd/kk/pkg/core/pipeline, .../module, and the host     *)
(* tables of .../connector/runtime.go).                                    *)
(*                                                                         *)
(* The difficult part is --ignore-err: a host that reports FAILED is       *)
(* deleted from the runtime while the module runs.  DeleteHost compacts    *)
(* the role slices in place, and the tasks of the running module were      *)
(* given these very slices (GetHostsByRole returns them uncopied) when the *)
(* module was initialised.  A role slice is therefore modelled as the Go   *)
(* slice it is, a backing array and a length, and a task of the module     *)
(* looks at the array through the length it captured.                      *)
(*                                                                         *)
(* A task's Execute is TaskContract, which RemoteTask implements: SUCCESS  *)
(* and SKIPPED are one status here, as the module only tests for FAILED.   *)
(* The tasks have no Rollback (all but four of kk's have none).            *)
(* ModuleResult.HostResults, which is written but never read, the module   *)
(* caches and post hooks, of which no pipeline registers one, are left     *)
(* out.                                                                    *)
(***************************************************************************)
EXTENDS Naturals, Sequences, Functions

CONSTANTS
    Host,           \* the hosts of the inventory
    AllHosts,       \* them in the order of the inventory
    RoleHosts,      \* those that have the role the tasks ask for, in that order
    LocalHost,      \* the host of a LocalTask
    Modules,        \* the pipeline: modules, each a sequence of task kinds
    MaxRounds       \* bound: how often Until asks for another round of a module

Kinds == {"role", "all", "local"}

ASSUME HostsAssumption ==
    /\ AllHosts \in Seq(Host) /\ IsInjective(AllHosts)
    /\ RoleHosts \in Seq(Host) /\ IsInjective(RoleHosts)
    /\ Range(RoleHosts) \subseteq Range(AllHosts)
    /\ LocalHost \notin Host
ASSUME ModulesAssumption == Modules \in Seq(Seq(Kinds)) /\ MaxRounds \in Nat

VARIABLES
    ignoreErr,      \* BaseRuntime.ignoreErr
    allHosts,       \* BaseRuntime.allHosts
    roleArr,        \* the array behind BaseRuntime.roleHosts[role]
    roleLen,        \* the length of that slice
    deprecated,     \* BaseRuntime.deprecatedHosts
    pc,             \* where the pipeline stands
    mi,             \* index of the module
    ti,             \* index of the task
    rounds,         \* rounds of this module so far
    captured,       \* host lists the module's tasks were given by its Init
    slots,          \* places of t.Hosts that Execute runs on, and their hosts
    reports,        \* TaskResult.ActionResults
    resStatus,      \* TaskResult.Status
    at,             \* index of the loop over the action results
    modStatus,      \* ModuleResult.Status
    failed          \* history: who reported FAILED in an earlier task or in this one

vars == <<ignoreErr, allHosts, roleArr, roleLen, deprecated, pc, mi, ti, rounds,
          captured, slots, reports, resStatus, at, modStatus, failed>>

runtime == <<ignoreErr, allHosts, roleArr, roleLen, deprecated>>
result == <<reports, resStatus, at>>

TypeOK ==
    /\ ignoreErr \in BOOLEAN
    /\ allHosts \in Seq(Host)
    /\ roleArr \in Seq(Host) /\ Len(roleArr) = Len(RoleHosts)
    /\ roleLen \in 0..Len(RoleHosts)
    /\ deprecated \subseteq Host
    /\ pc \in {"module", "task", "execute", "results", "until", "ok", "err", "panic"}
    /\ mi \in 1..Len(Modules) + 1 /\ ti \in Nat /\ rounds \in 0..MaxRounds
    /\ pc \in {"task", "execute", "results", "until"} =>
         mi <= Len(Modules) /\ ti \in 1..Len(Modules[mi]) + 1
    /\ captured \in [all : Seq(Host), role : 0..Len(RoleHosts)]
    /\ DOMAIN slots \subseteq Nat /\ slots \in [DOMAIN slots -> Host \cup {LocalHost}]
    /\ reports \in Seq([slot : DOMAIN slots, status : {"SUCCESS", "FAILED"}])
    /\ resStatus \in {"NULL", "SUCCESS", "FAILED"}
    /\ at \in 1..Len(reports) + 1
    /\ modStatus \in {"NULL", "SUCCESS", "FAILED"}
    /\ failed \subseteq Host \cup {LocalHost}

-----------------------------------------------------------------------------
(* The host tables *)

(* Mutant: the loop shifts the whole slice instead of the part behind h. *)
Compact_shift(arr, len, h) ==
    [k \in DOMAIN arr |-> IF k < len THEN arr[k + 1] ELSE arr[k]]

(* The in-place loop of DeleteHost and RoleMapDelete over the first len     *)
(* entries of arr: a host is entered once, so that what lies behind h moves *)
(* by one place, and what lies behind the shortened slice keeps its content. *)
Compact(arr, len, h) ==
    [k \in DOMAIN arr |-> IF k < len /\ \E j \in 1..k : arr[j] = h THEN arr[k + 1] ELSE arr[k]]

(* i after the loop. *)
Kept(arr, len, h) == IF \E j \in 1..len : arr[j] = h THEN len - 1 ELSE len

Without(s, h) == SubSeq(Compact(s, Len(s), h), 1, Kept(s, Len(s), h))

(* Mutant: no RoleMapDelete. *)
DeleteHost_keepsRole(h) ==
    /\ allHosts' = Without(allHosts, h)
    /\ deprecated' = deprecated \cup {h}
    /\ UNCHANGED <<roleArr, roleLen>>

(* DeleteHost: allHosts[i] = nil is out of range when h is not in allHosts. *)
DeleteHost(h) ==
    /\ allHosts' = Without(allHosts, h)
    /\ roleArr' = Compact(roleArr, roleLen, h)
    /\ roleLen' = Kept(roleArr, roleLen, h)
    /\ deprecated' = deprecated \cup {h}

(* AppendHost and AppendRoleMap have filled the tables; Pipeline.Init. *)
Init ==
    /\ ignoreErr \in BOOLEAN
    /\ allHosts = AllHosts
    /\ roleArr = RoleHosts /\ roleLen = Len(RoleHosts)
    /\ deprecated = {}
    /\ pc = "module" /\ mi = 1 /\ ti = 1 /\ rounds = 0
    /\ captured = [all |-> <<>>, role |-> 0]
    /\ slots = <<>> /\ reports = <<>> /\ resStatus = "NULL" /\ at = 1
    /\ modStatus = "NULL"
    /\ failed = {}

SpecHosts == Len(AllHosts)

-----------------------------------------------------------------------------
(* Pipeline.Start and RunModule *)

(* Default and Init of the next module: its tasks are given their hosts. *)
StartModule ==
    /\ pc = "module" /\ mi <= Len(Modules)
    /\ captured' = [all |-> allHosts, role |-> roleLen]
    /\ ti' = 1 /\ rounds' = 0 /\ modStatus' = "NULL"
    /\ pc' = "task"
    /\ UNCHANGED <<runtime, result, mi, slots, failed>>

(* Mutant: no comparison with SpecHosts. *)
Finish_noCheck ==
    /\ pc = "module" /\ mi > Len(Modules)
    /\ pc' = "ok"
    /\ UNCHANGED <<runtime, result, mi, ti, rounds, captured, slots, modStatus, failed>>

(* After the last module: the pipeline fails if it has lost a host. *)
Finish ==
    /\ pc = "module" /\ mi > Len(Modules)
    /\ pc' = IF SpecHosts = Len(allHosts) THEN "ok" ELSE "err"
    /\ UNCHANGED <<runtime, result, mi, ti, rounds, captured, slots, modStatus, failed>>

(* Mutant: the pipeline's index is advanced once per round of a module. *)
Until_advances ==
    /\ pc = "until"
    /\ mi' = mi + 1
    /\ \/ pc' = "module" /\ UNCHANGED <<ti, rounds>>
       \/ rounds < MaxRounds /\ rounds' = rounds + 1 /\ ti' = 1 /\ pc' = "task"
    /\ UNCHANGED <<runtime, result, captured, slots, modStatus, failed>>

(* Until ends the module, asks for another round of it, or fails. *)
Until ==
    /\ pc = "until"
    /\ \/ /\ pc' = "module" /\ mi' = mi + 1
          /\ UNCHANGED <<ti, rounds, modStatus, failed>>
       \/ /\ rounds < MaxRounds
          /\ rounds' = rounds + 1
          /\ ti' = 1 /\ pc' = "task"
          /\ UNCHANGED <<mi, modStatus, failed>>
       \/ /\ modStatus' = "FAILED" /\ failed' = failed \cup {LocalHost}
          /\ pc' = "err"
          /\ UNCHANGED <<mi, ti, rounds>>
    /\ UNCHANGED <<runtime, result, captured, slots>>

-----------------------------------------------------------------------------
(* BaseTaskModule.Run *)

kind == Modules[mi][ti]

(* t.Hosts as Execute finds it. *)
TaskHosts ==
    CASE kind = "role" -> SubSeq(roleArr, 1, captured.role)
      [] kind = "all" -> captured.all
      [] kind = "local" -> <<LocalHost>>

(* Mutant: Execute does not test HostIsDeprecated. *)
StartTask_noTest ==
    /\ pc = "task" /\ ti <= Len(Modules[mi])
    /\ slots' = [i \in DOMAIN TaskHosts |-> TaskHosts[i]]
    /\ reports' = <<>> /\ resStatus' = "NULL" /\ at' = 1
    /\ pc' = "execute"
    /\ UNCHANGED <<runtime, mi, ti, rounds, captured, modStatus, failed>>

StartTask ==
    /\ pc = "task" /\ ti <= Len(Modules[mi])
    /\ slots' = [i \in {k \in DOMAIN TaskHosts : TaskHosts[k] \notin deprecated} |-> TaskHosts[i]]
    /\ reports' = <<>> /\ resStatus' = "NULL" /\ at' = 1
    /\ pc' = "execute"
    /\ UNCHANGED <<runtime, mi, ti, rounds, captured, modStatus, failed>>

EndModule ==
    /\ pc = "task" /\ ti > Len(Modules[mi])
    /\ modStatus' = "SUCCESS"
    /\ pc' = "until"
    /\ UNCHANGED <<runtime, result, mi, ti, rounds, captured, slots, failed>>

Has(i, st) == \E k \in DOMAIN reports : reports[k] = [slot |-> i, status |-> st]

(* Execute, as TaskContract describes it: a slot may also report FAILED and *)
(* then, from the runner given up at the deadline, SUCCESS.                 *)
Report(i, st) ==
    /\ pc = "execute"
    /\ ~Has(i, st)
    /\ reports' = Append(reports, [slot |-> i, status |-> st])
    /\ resStatus' = IF st = "FAILED" THEN "FAILED" ELSE resStatus
    /\ failed' = IF st = "FAILED" THEN failed \cup {slots[i]} ELSE failed
    /\ UNCHANGED <<runtime, pc, mi, ti, rounds, captured, slots, at, modStatus>>

Executed ==
    /\ pc = "execute"
    /\ \A i \in DOMAIN slots : \E st \in {"SUCCESS", "FAILED"} : Has(i, st)
    /\ resStatus' = IF resStatus = "NULL" THEN "SUCCESS" ELSE resStatus
    /\ pc' = "results"
    /\ UNCHANGED <<runtime, mi, ti, rounds, captured, slots, reports, at, modStatus, failed>>

(* One turn of the loop over the action results. *)
ReadResult ==
    /\ pc = "results" /\ at <= Len(reports)
    /\ LET ac == reports[at]
           h == slots[ac.slot]
           removes == kind # "local" /\ ignoreErr
       IN  \/ /\ removes /\ allHosts = <<>>
              /\ modStatus' = "FAILED" /\ pc' = "err"
              /\ UNCHANGED <<runtime, resStatus, at>>
           \/ /\ removes /\ allHosts # <<>> /\ ac.status = "FAILED"
              /\ resStatus' = "SUCCESS"
              /\ IF h \in Range(allHosts)
                   THEN DeleteHost(h) /\ at' = at + 1 /\ UNCHANGED <<ignoreErr, pc>>
                   ELSE pc' = "panic" /\ UNCHANGED <<runtime, at>>
              /\ UNCHANGED modStatus
           \/ /\ ~removes \/ (allHosts # <<>> /\ ac.status # "FAILED")
              /\ at' = at + 1
              /\ UNCHANGED <<runtime, resStatus, pc, modStatus>>
    /\ UNCHANGED <<mi, ti, rounds, captured, slots, reports, failed>>

(* Mutants: a failed task does not end the module; the next task is this one. *)
EndTask_goesOn ==
    /\ pc = "results" /\ at > Len(reports)
    /\ ti' = ti + 1 /\ pc' = "task"
    /\ UNCHANGED <<runtime, result, mi, rounds, captured, slots, modStatus, failed>>

EndTask_repeats ==
    /\ pc = "results" /\ at > Len(reports)
    /\ IF resStatus = "FAILED"
         THEN modStatus' = "FAILED" /\ pc' = "err"
         ELSE pc' = "task" /\ UNCHANGED modStatus
    /\ UNCHANGED <<runtime, result, mi, ti, rounds, captured, slots, failed>>

(* After the loop: a failed task fails the module, and with it the pipeline. *)
EndTask ==
    /\ pc = "results" /\ at > Len(reports)
    /\ IF resStatus = "FAILED"
         THEN modStatus' = "FAILED" /\ pc' = "err" /\ UNCHANGED ti
         ELSE ti' = ti + 1 /\ pc' = "task" /\ UNCHANGED modStatus
    /\ UNCHANGED <<runtime, result, mi, rounds, captured, slots, failed>>

-----------------------------------------------------------------------------
Next ==
    \/ StartModule \/ Finish \/ Until
    \/ StartTask \/ EndModule
    \/ \E i \in DOMAIN slots, st \in {"SUCCESS", "FAILED"} : Report(i, st)
    \/ Executed \/ ReadResult \/ EndTask

(* kk runs the pipeline to its end; a task returns by its contract. *)
Spec == Init /\ [][Next]_vars /\ WF_vars(Next)

-----------------------------------------------------------------------------
(* Properties *)

(* A host that has reported FAILED is never given another task, whatever    *)
(* the in-place compaction has done to the list the task captured: without  *)
(* --ignore-err the pipeline stops, with it the host is gone.               *)
FailedHostNeverRunsAgain ==
    pc = "execute" /\ reports = <<>> => Range(slots) \cap failed = {}

(* No healthy host is passed over: a task of the role runs on every host of *)
(* the role, and a task of all hosts on every host, that is not removed,    *)
(* although removals have shifted the array under the captured slice.       *)
HealthyHostsRun ==
    pc = "execute" =>
      Range(slots) = CASE kind = "role" -> Range(RoleHosts) \ deprecated
                       [] kind = "all" -> Range(AllHosts) \ deprecated
                       [] kind = "local" -> {LocalHost}

(* The tables of BaseRuntime agree: allHosts, the role's slice and the      *)
(* removed hosts partition the inventory after every DeleteHost.            *)
TablesAgree ==
    /\ Range(allHosts) = Range(AllHosts) \ deprecated
    /\ Range(SubSeq(roleArr, 1, roleLen)) = Range(RoleHosts) \ deprecated
    /\ IsInjective(SubSeq(roleArr, 1, roleLen))

(* The pipeline reports success only if no task failed on any host, and an  *)
(* error only if one did: with --ignore-err every module may succeed, but   *)
(* the comparison with SpecHosts at the end of Start then tells.            *)
VerdictIsRight ==
    /\ pc = "ok" => failed = {} /\ modStatus # "FAILED"
    /\ pc = "err" => failed # {}

(* Without --ignore-err the first failure is final: no further task starts  *)
(* once a task has failed (fail-stop of Run, RunModule and Start).          *)
FailStop ==
    [][~ignoreErr /\ failed # {} /\ pc # "execute" => pc' # "execute"]_vars

(* A pipeline comes to an end, whatever its tasks report.                   *)
PipelineEnds == <>(pc \in {"ok", "err", "panic"})

(* "Ignore the error message, remove the host which reported error and      *)
(* force to continue" (--ignore-err): removing a host does not stop kk.     *)
ForceToContinue == pc # "panic"

=============================================================================
