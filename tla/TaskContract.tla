---------------------------- MODULE TaskContract ----------------------------
(***************************************************************************)
(* What a task promises to the module that runs it, whatever happens on    *)
(* the hosts: a list of action results and a verdict.                      *)
(*                                                                         *)
(* A slot is a position of the task's host list.  `reports' is             *)
(* TaskResult.ActionResults, `verdict' is TaskResult.Status, `returned'    *)
(* says that Execute has returned.  A slot reports at most one failure and *)
(* at most one success or skip; every live slot has reported when Execute  *)
(* returns.  After that only a slot that was given up as failed may still  *)
(* add its late success or skip, and the verdict never changes again.      *)
(***************************************************************************)
EXTENDS Naturals, Sequences

CONSTANT Slots          \* the slots the task runs on (hosts that are not removed)

VARIABLES reports, verdict, returned

cvars == <<reports, verdict, returned>>

Entries == [slot : Slots, status : {"SUCCESS", "SKIPPED", "FAILED"}]

Has(s, i, statuses) == \E k \in DOMAIN s : s[k].slot = i /\ s[k].status \in statuses

Done == {"SUCCESS", "SKIPPED"}

CInit ==
    /\ reports = <<>>
    /\ verdict = "NULL"
    /\ returned = FALSE

Finish(i, st) ==
    /\ ~Has(reports, i, Done)
    /\ returned => Has(reports, i, {"FAILED"})
    /\ reports' = Append(reports, [slot |-> i, status |-> st])
    /\ UNCHANGED <<verdict, returned>>

Fail(i) ==
    /\ ~returned
    /\ ~Has(reports, i, {"FAILED"})
    /\ reports' = Append(reports, [slot |-> i, status |-> "FAILED"])
    /\ verdict' = "FAILED"
    /\ UNCHANGED returned

Return ==
    /\ ~returned
    /\ \A i \in Slots : Has(reports, i, Done \cup {"FAILED"})
    /\ returned' = TRUE
    /\ verdict' = IF verdict = "NULL" THEN "SUCCESS" ELSE verdict
    /\ UNCHANGED reports

CNext ==
    \/ \E i \in Slots : Fail(i) \/ \E st \in Done : Finish(i, st)
    \/ Return

CSpec == CInit /\ [][CNext]_cvars

(* A task's Execute eventually returns to the module (RemoteTask.Execute    *)
(* bounds every wait by its timeout).                                       *)
CReturns == <>returned
=============================================================================
