----------------------------- MODULE RemoteTask -----------------------------
(***************************************************************************)
(* RemoteTask.Execute (cmd/kk/pkg/core/task/remote_task.go): one task run  *)
(* on a list of hosts over ssh.                                            *)
(*                                                                         *)
(* Three kinds of goroutines share the task:                               *)
(*   - the caller (Execute), which starts one worker per live slot of      *)
(*     t.Hosts - or runs it in line when the task is not Parallel - and    *)
(*     waits for the WaitGroup;                                            *)
(*   - a worker per slot (RunWithTimeout), which takes a token of the      *)
(*     routine pool, starts the runner and selects between the context's   *)
(*     deadline and the runner's result;                                   *)
(*   - a runner per slot (Run), which connects, evaluates Prepare with     *)
(*     retries, executes the Action with retries, records success or skip  *)
(*     in the TaskResult, and only then sends on the unbuffered resCh.     *)
(*                                                                         *)
(* Abstracted: what a Prepare or an Action does (its outcome is chosen),   *)
(* the delay between retries, log output, error texts, time (the deadline  *)
(* of the context may pass at any moment).  A position of t.Hosts is a     *)
(* slot, because the same host may occur twice in the list.                *)
(***************************************************************************)
EXTENDS Naturals, Sequences, FiniteSets

CONSTANTS
    Host,           \* hosts of the inventory
    HostList,       \* t.Hosts
    Deprecated,     \* hosts that are nil or that the runtime has removed
    PoolSize,       \* DefaultCon, the capacity of routinePool
    Retry           \* t.Retry after Default

ASSUME HostListAssumption == HostList \in Seq(Host)
ASSUME PoolAssumption == PoolSize \in Nat \ {0}
ASSUME RetryAssumption == Retry \in Nat \ {0}

VARIABLES
    parallel,       \* t.Parallel, which nothing changes
    main,           \* where Execute stands: "spawn", "wait", "done"
    next,           \* its loop index
    wg,             \* the WaitGroup's counter
    pool,           \* tokens in routinePool
    worker,         \* per slot: where RunWithTimeout stands
    run,            \* per slot: where Run stands
    attempt,        \* per slot: failed attempts of the current retry loop
    res,            \* per slot: is Run's result an error
    ctxDone,        \* the context's deadline has passed
    results,        \* TaskResult.ActionResults
    status          \* TaskResult.Status

vars == <<parallel, main, next, wg, pool, worker, run, attempt, res, ctxDone, results,
          status>>

Slots == 1..Len(HostList)
Live == {i \in Slots : HostList[i] \notin Deprecated}

WorkerStates == {"none", "acquire", "select", "release", "exited"}
RunStates == {"none", "connect", "when", "action", "skip", "success", "send", "gone"}

Result(i, st) == [slot |-> i, status |-> st]

TypeOK ==
    /\ main \in {"spawn", "wait", "done"}
    /\ next \in 1..Len(HostList) + 1
    /\ wg \in 0..Len(HostList)
    /\ pool \in 0..PoolSize
    /\ worker \in [Slots -> WorkerStates]
    /\ run \in [Slots -> RunStates]
    /\ attempt \in [Slots -> 0..Retry - 1]
    /\ res \in [Slots -> BOOLEAN]
    /\ ctxDone \in BOOLEAN
    /\ results \in Seq([slot : Live, status : {"SUCCESS", "SKIPPED", "FAILED"}])
    /\ status \in {"NULL", "SUCCESS", "FAILED"}

(* Default: a fresh TaskResult. *)
Init ==
    /\ parallel \in BOOLEAN
    /\ main = "spawn"
    /\ next = 1
    /\ wg = 0
    /\ pool = 0
    /\ worker = [i \in Slots |-> "none"]
    /\ run = [i \in Slots |-> "none"]
    /\ attempt = [i \in Slots |-> 0]
    /\ res = [i \in Slots |-> FALSE]
    /\ ctxDone = FALSE
    /\ results = <<>>
    /\ status = "NULL"

-----------------------------------------------------------------------------
(* The TaskResult: each append is one critical section of its mutex. *)

AppendErr(i) ==
    /\ results' = Append(results, Result(i, "FAILED"))
    /\ status' = "FAILED"

AppendDone(i, st) ==
    /\ results' = Append(results, Result(i, st))
    /\ UNCHANGED status

-----------------------------------------------------------------------------
(* Execute *)

(* Not Parallel: the previous RunWithTimeout has returned. *)
InLine == parallel \/ \A i \in Slots : worker[i] \in {"none", "exited"}

(* Mutant: no wg.Add. *)
Spawn_noAdd(i) ==
    /\ main = "spawn" /\ next = i
    /\ InLine
    /\ next' = next + 1
    /\ worker' = IF i \in Live THEN [worker EXCEPT ![i] = "acquire"] ELSE worker
    /\ UNCHANGED <<main, wg, pool, run, attempt, res, ctxDone, results, status>>

Spawn(i) ==
    /\ main = "spawn" /\ next = i
    /\ InLine
    /\ next' = next + 1
    /\ IF i \in Live
         THEN /\ wg' = wg + 1
              /\ worker' = [worker EXCEPT ![i] = "acquire"]
         ELSE UNCHANGED <<wg, worker>>
    /\ UNCHANGED <<main, pool, run, attempt, res, ctxDone, results, status>>

LoopEnds ==
    /\ main = "spawn" /\ next > Len(HostList)
    /\ InLine
    /\ main' = "wait"
    /\ UNCHANGED <<next, wg, pool, worker, run, attempt, res, ctxDone, results, status>>

(* Mutant: NormalResult without its test of the status. *)
Return_overwrites ==
    /\ main = "wait" /\ wg = 0
    /\ main' = "done"
    /\ status' = "SUCCESS"
    /\ UNCHANGED <<next, wg, pool, worker, run, attempt, res, ctxDone, results>>

(* wg.Wait, then NormalResult when nothing has failed. *)
Return ==
    /\ main = "wait" /\ wg = 0
    /\ main' = "done"
    /\ status' = IF status = "NULL" THEN "SUCCESS" ELSE status
    /\ UNCHANGED <<next, wg, pool, worker, run, attempt, res, ctxDone, results>>

(* The deadline of the context that all workers of this Execute share. *)
Timeout ==
    /\ main # "done" /\ ~ctxDone
    /\ ctxDone' = TRUE
    /\ UNCHANGED <<main, next, wg, pool, worker, run, attempt, res, results, status>>

-----------------------------------------------------------------------------
(* RunWithTimeout *)

Acquire(i) ==
    /\ worker[i] = "acquire" /\ pool < PoolSize
    /\ pool' = pool + 1
    /\ worker' = [worker EXCEPT ![i] = "select"]
    /\ run' = [run EXCEPT ![i] = "connect"]
    /\ UNCHANGED <<main, next, wg, attempt, res, ctxDone, results, status>>

SelectTimeout(i) ==
    /\ worker[i] = "select" /\ ctxDone
    /\ AppendErr(i)
    /\ worker' = [worker EXCEPT ![i] = "release"]
    /\ UNCHANGED <<main, next, wg, pool, run, attempt, res, ctxDone>>

SelectResult(i) ==
    /\ worker[i] = "select" /\ run[i] = "send"
    /\ IF res[i] THEN AppendErr(i) ELSE UNCHANGED <<results, status>>
    /\ worker' = [worker EXCEPT ![i] = "release"]
    /\ run' = [run EXCEPT ![i] = "gone"]
    /\ UNCHANGED <<main, next, wg, pool, attempt, res, ctxDone>>

(* Mutant: the token is not taken out of the pool. *)
Release_leaksToken(i) ==
    /\ worker[i] = "release"
    /\ wg' = wg - 1
    /\ worker' = [worker EXCEPT ![i] = "exited"]
    /\ UNCHANGED <<main, next, pool, run, attempt, res, ctxDone, results, status>>

Release(i) ==
    /\ worker[i] = "release"
    /\ pool' = pool - 1
    /\ wg' = wg - 1
    /\ worker' = [worker EXCEPT ![i] = "exited"]
    /\ UNCHANGED <<main, next, run, attempt, res, ctxDone, results, status>>

-----------------------------------------------------------------------------
(* Run: it goes on after its worker has given up on it. *)

Goto(i, st) == run' = [run EXCEPT ![i] = st]

(* ConfigureSelfRuntime *)
Connect(i) ==
    /\ run[i] = "connect"
    /\ \/ Goto(i, "when") /\ UNCHANGED res
       \/ Goto(i, "send") /\ res' = [res EXCEPT ![i] = TRUE]
    /\ UNCHANGED <<main, next, wg, pool, worker, attempt, ctxDone, results, status>>

(* One failed try of a retry loop: the last one is the result. *)
FailedTry(i) ==
    IF attempt[i] + 1 < Retry
      THEN /\ attempt' = [attempt EXCEPT ![i] = @ + 1]
           /\ UNCHANGED <<run, res>>
      ELSE /\ Goto(i, "send")
           /\ res' = [res EXCEPT ![i] = TRUE]
           /\ UNCHANGED attempt

(* WhenWithRetry *)
When(i) ==
    /\ run[i] = "when"
    /\ \/ FailedTry(i)
       \/ \E to \in {"action", "skip"} :
            /\ Goto(i, to)
            /\ attempt' = [attempt EXCEPT ![i] = 0]
            /\ UNCHANGED res
    /\ UNCHANGED <<main, next, wg, pool, worker, ctxDone, results, status>>

(* ExecuteWithRetry *)
Action(i) ==
    /\ run[i] = "action"
    /\ \/ FailedTry(i)
       \/ Goto(i, "success") /\ UNCHANGED <<attempt, res>>
    /\ UNCHANGED <<main, next, wg, pool, worker, ctxDone, results, status>>

(* AppendSkip, AppendSuccess; resCh is sent to only afterwards. *)
Record(i) ==
    /\ \/ run[i] = "skip" /\ AppendDone(i, "SKIPPED")
       \/ run[i] = "success" /\ AppendDone(i, "SUCCESS")
    /\ Goto(i, "send")
    /\ UNCHANGED <<main, next, wg, pool, worker, attempt, res, ctxDone>>

-----------------------------------------------------------------------------
Worker(i) == Acquire(i) \/ SelectTimeout(i) \/ SelectResult(i) \/ Release(i)
Runner(i) == Connect(i) \/ When(i) \/ Action(i) \/ Record(i)
Caller == LoopEnds \/ Return \/ \E i \in Slots : Spawn(i)

Next ==
    /\ Caller \/ Timeout \/ \E i \in Slots : Worker(i) \/ Runner(i)
    /\ UNCHANGED parallel

(* The Go scheduler runs the caller and the workers, and the timer of the   *)
(* context fires.  Nothing is assumed of a runner: an ssh command may hang. *)
Spec ==
    /\ Init /\ [][Next]_vars
    /\ WF_vars(Caller /\ UNCHANGED parallel) /\ WF_vars(Timeout /\ UNCHANGED parallel)
    /\ \A i \in Slots : WF_vars(Worker(i) /\ UNCHANGED parallel)

-----------------------------------------------------------------------------
(* Properties *)

Contract == INSTANCE TaskContract WITH
    Slots <- Live, reports <- results, verdict <- status, returned <- (main = "done")

Reported(i, statuses) == Contract!Has(results, i, statuses)

(* When Execute returns, every host it was to run on has an action result,  *)
(* whichever of timeout, retry exhaustion, skip or success ended its run:   *)
(* wg.Wait cannot overtake a worker that has not been heard of.             *)
EveryHostAccountedFor ==
    main = "done" => \A i \in Live : Reported(i, {"SUCCESS", "SKIPPED", "FAILED"})

(* The verdict Execute returns is FAILED exactly when some action result is *)
(* FAILED, and it stays so: NormalResult cannot cover up an AppendErr, and  *)
(* no AppendErr can follow the return.                                      *)
VerdictAgreesWithResults ==
    main = "done" =>
      status = IF \E i \in Live : Reported(i, {"FAILED"}) THEN "FAILED" ELSE "SUCCESS"

(* A slot that carries two action results (FAILED by timeout, and the       *)
(* success or skip its abandoned runner still recorded) does so only        *)
(* because the deadline passed, and never carries two failures or two       *)
(* successes.                                                               *)
TwoResultsOnlyOnTimeout ==
    \A j, k \in DOMAIN results :
      j # k /\ results[j].slot = results[k].slot =>
        /\ ctxDone
        /\ results[j].status = "FAILED" <=> results[k].status # "FAILED"

(* When Execute returns, the pool is empty and no worker is left that could *)
(* send on the closed routinePool; a runner that has not ended belongs to a *)
(* slot given up at the deadline and reported as failed.                    *)
CleanReturn ==
    main = "done" =>
      /\ pool = 0
      /\ \A i \in Live :
           /\ worker[i] = "exited"
           /\ run[i] # "gone" => ctxDone /\ Reported(i, {"FAILED"})

(* RemoteTask.Execute gives the task module what TaskContract promises.     *)
ImplementsContract == Contract!CSpec

(* Execute returns even if every ssh command hangs, because the deadline    *)
(* releases the workers, and these hand the pool's tokens on.               *)
ExecuteReturns == Contract!CReturns
=============================================================================
