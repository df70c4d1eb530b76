---------------------------- MODULE TaskRollback ----------------------------
(***************************************************************************)
(* RemoteTask.ExecuteRollback (cmd/kk/pkg/core/task/remote_task.go): after *)
(* a failed task its Rollback is run once per action result - successful   *)
(* ones included, and twice for a host that has two results.               *)
(*                                                                         *)
(* It is laid out like Execute, with two differences that matter.  The     *)
(* WaitGroup is incremented after the worker has been started, so a worker *)
(* may call Done first; and a worker that reports an error reads the       *)
(* runner of its copy of the runtime, which only a runner that has         *)
(* connected has set.  Both end in a panic of kk.                          *)
(*                                                                         *)
(* The WaitGroup and the panic of a nil pointer are Go's, modelled from    *)
(* how this code uses them.                                                *)
(***************************************************************************)
EXTENDS Integers, FiniteSets

CONSTANTS
    NumResults,     \* length of TaskResult.ActionResults
    Removed,        \* results whose host is nil or removed from the runtime
    PoolSize        \* DefaultCon

ASSUME NumResultsAssumption == NumResults \in Nat
ASSUME RollbackPoolAssumption == PoolSize \in Nat \ {0}

VARIABLES
    parallel,   \* t.Parallel
    main,       \* ExecuteRollback: "loop", "add", "wait", "returned", "panic"
    next,       \* its loop index
    rwg,        \* the WaitGroup's counter
    pool,       \* tokens in routinePool
    worker,     \* per result: where RollbackWithTimeout stands
    run,        \* per result: where RunRollback stands
    runner,     \* per result: has SetRunner been called on its runtime
    res,        \* per result: is RunRollback's result an error
    ctxDone     \* the context's deadline has passed

rvars == <<parallel, main, next, rwg, pool, worker, run, runner, res, ctxDone>>

Results == 1..NumResults
Live == Results \ Removed

RTypeOK ==
    /\ parallel \in BOOLEAN
    /\ main \in {"loop", "add", "wait", "returned", "panic"}
    /\ next \in 1..NumResults + 1
    /\ rwg \in 0..NumResults
    /\ pool \in 0..PoolSize
    /\ worker \in [Results -> {"none", "acquire", "select", "release", "exited"}]
    /\ run \in [Results -> {"none", "connect", "rollback", "send", "gone"}]
    /\ runner \in [Results -> BOOLEAN]
    /\ res \in [Results -> BOOLEAN]
    /\ ctxDone \in BOOLEAN

RInit ==
    /\ parallel \in BOOLEAN
    /\ main = "loop" /\ next = 1
    /\ rwg = 0 /\ pool = 0
    /\ worker = [i \in Results |-> "none"]
    /\ run = [i \in Results |-> "none"]
    /\ runner = [i \in Results |-> FALSE]
    /\ res = [i \in Results |-> FALSE]
    /\ ctxDone = FALSE

Alive == main \notin {"returned", "panic"}

-----------------------------------------------------------------------------

(* ExecuteRollback *)
Start(i) ==
    /\ main = "loop" /\ next = i
    /\ IF i \in Live
         THEN /\ worker' = [worker EXCEPT ![i] = "acquire"]
              /\ main' = "add"
              /\ UNCHANGED next
         ELSE /\ next' = next + 1
              /\ UNCHANGED <<worker, main>>
    /\ UNCHANGED <<rwg, pool, run, runner, res, ctxDone>>

(* Mutant: no Add at all. *)
Add_missing ==
    /\ main = "add"
    /\ parallel \/ worker[next] = "exited"
    /\ next' = next + 1
    /\ main' = "loop"
    /\ UNCHANGED <<rwg, pool, worker, run, runner, res, ctxDone>>

(* rwg.Add(1), which in the sequential mode only follows the call. *)
Add ==
    /\ main = "add"
    /\ parallel \/ worker[next] = "exited"
    /\ rwg' = rwg + 1
    /\ next' = next + 1
    /\ main' = "loop"
    /\ UNCHANGED <<pool, worker, run, runner, res, ctxDone>>

LoopEnds ==
    /\ main = "loop" /\ next > NumResults
    /\ main' = "wait"
    /\ UNCHANGED <<next, rwg, pool, worker, run, runner, res, ctxDone>>

Return ==
    /\ main = "wait" /\ rwg = 0
    /\ main' = "returned"
    /\ UNCHANGED <<next, rwg, pool, worker, run, runner, res, ctxDone>>

Timeout ==
    /\ Alive /\ ~ctxDone
    /\ ctxDone' = TRUE
    /\ UNCHANGED <<main, next, rwg, pool, worker, run, runner, res>>

-----------------------------------------------------------------------------

(* Mutant: the pool is not a limit. *)
Acquire_unbounded(i) ==
    /\ Alive /\ worker[i] = "acquire"
    /\ pool' = pool + 1
    /\ worker' = [worker EXCEPT ![i] = "select"]
    /\ run' = [run EXCEPT ![i] = "connect"]
    /\ UNCHANGED <<main, next, rwg, runner, res, ctxDone>>

(* RollbackWithTimeout *)
Acquire(i) ==
    /\ Alive /\ worker[i] = "acquire" /\ pool < PoolSize
    /\ pool' = pool + 1
    /\ worker' = [worker EXCEPT ![i] = "select"]
    /\ run' = [run EXCEPT ![i] = "connect"]
    /\ UNCHANGED <<main, next, rwg, runner, res, ctxDone>>

(* The log line names runtime.GetRunner().Host. *)
LogFailure(i) ==
    IF runner[i]
      THEN worker' = [worker EXCEPT ![i] = "release"] /\ UNCHANGED main
      ELSE main' = "panic" /\ UNCHANGED worker

SelectTimeout(i) ==
    /\ Alive /\ worker[i] = "select" /\ ctxDone
    /\ LogFailure(i)
    /\ UNCHANGED <<next, rwg, pool, run, runner, res, ctxDone>>

SelectResult(i) ==
    /\ Alive /\ worker[i] = "select" /\ run[i] = "send"
    /\ IF res[i] THEN LogFailure(i)
                 ELSE worker' = [worker EXCEPT ![i] = "release"] /\ UNCHANGED main
    /\ run' = [run EXCEPT ![i] = "gone"]
    /\ UNCHANGED <<next, rwg, pool, runner, res, ctxDone>>

(* Mutant: the worker leaves without wg.Done. *)
Release_noDone(i) ==
    /\ Alive /\ worker[i] = "release"
    /\ pool' = pool - 1
    /\ worker' = [worker EXCEPT ![i] = "exited"]
    /\ UNCHANGED <<main, next, rwg, run, runner, res, ctxDone>>

(* wg.Done panics when it makes the counter negative. *)
Release(i) ==
    /\ Alive /\ worker[i] = "release"
    /\ pool' = pool - 1
    /\ worker' = [worker EXCEPT ![i] = "exited"]
    /\ IF rwg > 0 THEN rwg' = rwg - 1 /\ UNCHANGED main
                  ELSE main' = "panic" /\ UNCHANGED rwg
    /\ UNCHANGED <<next, run, runner, res, ctxDone>>

-----------------------------------------------------------------------------
(* RunRollback *)

Connect(i) ==
    /\ Alive /\ run[i] = "connect"
    /\ \/ /\ runner' = [runner EXCEPT ![i] = TRUE]
          /\ run' = [run EXCEPT ![i] = "rollback"]
          /\ UNCHANGED res
       \/ /\ res' = [res EXCEPT ![i] = TRUE]
          /\ run' = [run EXCEPT ![i] = "send"]
          /\ UNCHANGED runner
    /\ UNCHANGED <<main, next, rwg, pool, worker, ctxDone>>

Rollback(i) ==
    /\ Alive /\ run[i] = "rollback"
    /\ \E failed \in BOOLEAN : res' = [res EXCEPT ![i] = failed]
    /\ run' = [run EXCEPT ![i] = "send"]
    /\ UNCHANGED <<main, next, rwg, pool, worker, runner, ctxDone>>

-----------------------------------------------------------------------------
Worker(i) == Acquire(i) \/ SelectTimeout(i) \/ SelectResult(i) \/ Release(i)
Caller == Add \/ LoopEnds \/ Return \/ \E i \in Results : Start(i)

RNext ==
    /\ \/ Caller \/ Timeout
       \/ \E i \in Results : Worker(i) \/ Connect(i) \/ Rollback(i)
    /\ UNCHANGED parallel

(* As for Execute: nothing is assumed of the rollback command itself. *)
RSpec ==
    /\ RInit /\ [][RNext]_rvars
    /\ WF_rvars(Caller /\ UNCHANGED parallel) /\ WF_rvars(Timeout /\ UNCHANGED parallel)
    /\ \A i \in Results : WF_rvars(Worker(i) /\ UNCHANGED parallel)

-----------------------------------------------------------------------------
(* Properties *)

(* When ExecuteRollback returns, it has waited for every result's worker,   *)
(* late increments of the WaitGroup notwithstanding: a Done that overtakes  *)
(* its Add is either made good by another Add or a panic.                   *)
RollbackWaitsForAll ==
    main = "returned" => \A i \in Live : worker[i] = "exited"

(* Whatever the hosts do, ExecuteRollback returns or kk is down.            *)
RollbackEnds == <>~Alive
=============================================================================
