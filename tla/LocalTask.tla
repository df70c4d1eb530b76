----------------------------- MODULE LocalTask -----------------------------
(***************************************************************************)
(* LocalTask.Execute (cmd/kk/pkg/core/task/local_task.go): one run of an   *)
(* action on the machine kk itself runs on.  There is no worker pool and   *)
(* no WaitGroup as in RemoteTask: Execute itself waits in RunWithTimeout's *)
(* select for the answer of the goroutine Run or for the deadline, and Run *)
(* goes on after Execute has given up on it, blocked for ever in the end   *)
(* on the channel nobody reads.                                            *)
(*                                                                         *)
(* Init is the state after Default of a task that has an Action.           *)
(***************************************************************************)
EXTENDS Naturals, Sequences

CONSTANT Retry      \* l.Retry after Default

VARIABLES
    main,           \* where Execute stands: "start", "select", "report", "done"
    run,            \* where Run stands
    attempt,        \* failed attempts of the current retry loop
    res,            \* is Run's result an error
    results,        \* TaskResult.ActionResults
    status          \* TaskResult.Status

vars == <<main, run, attempt, res, results, status>>

LocalHost == 1      \* the one slot of the task

TypeOK ==
    /\ main \in {"start", "select", "report", "done"}
    /\ run \in {"none", "when", "action", "skip", "success", "send", "gone"}
    /\ attempt \in Nat
    /\ res \in BOOLEAN
    /\ results \in Seq([slot : {LocalHost}, status : {"SUCCESS", "SKIPPED", "FAILED"}])
    /\ status \in {"NULL", "SUCCESS", "FAILED"}

Init ==
    /\ main = "start" /\ run = "none"
    /\ attempt = 0 /\ res = FALSE
    /\ results = <<>> /\ status = "NULL"

AppendErr ==
    /\ results' = Append(results, [slot |-> LocalHost, status |-> "FAILED"])
    /\ status' = "FAILED"

AppendDone(st) ==
    /\ results' = Append(results, [slot |-> LocalHost, status |-> st])
    /\ UNCHANGED status

-----------------------------------------------------------------------------
(* Execute and RunWithTimeout *)

Start ==
    /\ main = "start"
    /\ main' = "select" /\ run' = "when"
    /\ UNCHANGED <<attempt, res, results, status>>

(* <-ctx.Done(), also when Run has already recorded its outcome. *)
Timeout ==
    /\ main = "select"
    /\ AppendErr
    /\ main' = "report"
    /\ UNCHANGED <<run, attempt, res>>

Answer ==
    /\ main = "select" /\ run = "send"
    /\ IF res THEN AppendErr ELSE UNCHANGED <<results, status>>
    /\ main' = "report" /\ run' = "gone"
    /\ UNCHANGED <<attempt, res>>

Report ==
    /\ main = "report"
    /\ main' = "done"
    /\ status' = IF status = "NULL" THEN "SUCCESS" ELSE status
    /\ UNCHANGED <<run, attempt, res, results>>

-----------------------------------------------------------------------------
(* Run *)

FailedTry ==
    IF attempt + 1 < Retry
      THEN attempt' = attempt + 1 /\ UNCHANGED <<run, res>>
      ELSE run' = "send" /\ res' = TRUE /\ UNCHANGED attempt

(* WhenWithRetry *)
When ==
    /\ run = "when"
    /\ FailedTry \/ (run' \in {"action", "skip"} /\ attempt' = 0 /\ UNCHANGED res)
    /\ UNCHANGED <<main, results, status>>

(* ExecuteWithRetry *)
Action ==
    /\ run = "action"
    /\ FailedTry \/ (run' = "success" /\ UNCHANGED <<attempt, res>>)
    /\ UNCHANGED <<main, results, status>>

Record ==
    /\ \/ run = "skip" /\ AppendDone("SKIPPED")
       \/ run = "success" /\ AppendDone("SUCCESS")
    /\ run' = "send"
    /\ UNCHANGED <<main, attempt, res>>

-----------------------------------------------------------------------------
Execute == Start \/ Timeout \/ Answer \/ Report

Next == Execute \/ When \/ Action \/ Record

(* Execute is scheduled and its timer fires; an action may hang. *)
Spec == Init /\ [][Next]_vars /\ WF_vars(Execute)

-----------------------------------------------------------------------------
(* Properties *)

Contract == INSTANCE TaskContract WITH
    Slots <- {LocalHost}, reports <- results, verdict <- status,
    returned <- (main = "done")

(* LocalTask.Execute promises the task module the same as a RemoteTask: one *)
(* outcome at the return, a verdict that is FAILED exactly when a failure   *)
(* was recorded and that the abandoned Run of a timed-out task, which may   *)
(* still record its success, cannot change.                                 *)
ImplementsContract == Contract!CSpec
=============================================================================
