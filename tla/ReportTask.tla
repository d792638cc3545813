----------------------------- MODULE ReportTask -----------------------------
(***************************************************************************)
(* fishcloud.generate_report, for one job: the Celery task that turns a    *)
(* REPORTING row into a COMPLETED or FAILED one, under at-least-once       *)
(* delivery (acks_late), its own retries, several worker processes, a      *)
(* message that finalization may have sent more than once, the stale-job   *)
(* detector and the user's DELETE.                                         *)
(*                                                                         *)
(* The report's wording is abstracted to the worker that produced it: two  *)
(* executions at the same time are two different reports.                  *)
(***************************************************************************)
EXTENDS JobRow, Naturals

CONSTANTS Worker,      \* the prefork processes of the Celery worker
          NoText,      \* no report
          MaxRetries,  \* len(_RETRY_BACKOFF_S)
          MaxSent,     \* bound: messages finalization has sent (its retries)
          MaxCrashes,  \* bound: how often worker processes die
          Uncaught,    \* TRUE iff errors the task does not catch may happen
          Detector     \* TRUE iff detect_stale_jobs runs

ASSUME ReportAssumption ==
    /\ NoText \notin Worker
    /\ MaxRetries \in Nat /\ MaxSent \in Nat \ {0} /\ MaxCrashes \in Nat
    /\ Uncaught \in BOOLEAN /\ Detector \in BOOLEAN

VARIABLES
    row,      \* the job's row
    text,     \* result_report
    md,       \* sim-data/<job>/report.md in MinIO
    queue,    \* [retries -> number of undelivered messages]
    task,     \* [Worker -> what the process is doing, for which message]
    crashes,
    lost      \* history: an execution ended in an error the row does not show

vars == <<row, text, md, queue, task, crashes, lost>>

Step == {"idle", "check", "run", "save", "put", "ack"}

TypeOK ==
    /\ row \in JobRow
    /\ text \in Worker \cup {NoText} /\ md \in Worker \cup {NoText}
    /\ queue \in [0..MaxRetries -> Nat]
    /\ task \in [Worker -> [at : Step, retries : 0..MaxRetries]]
    /\ crashes \in 0..MaxCrashes
    /\ lost \in BOOLEAN

\* upload_and_finalize has moved the row to REPORTING and sent a message; a
\* retried finalization has sent another one.
Init ==
    /\ row = [NewRow("REPORTING") EXCEPT !.results = TRUE, !.simdata = TRUE]
    /\ text = NoText /\ md = NoText
    /\ \E n \in 1..MaxSent :
          queue = [r \in 0..MaxRetries |-> IF r = 0 THEN n ELSE 0]
    /\ task = [w \in Worker |-> [at |-> "idle", retries |-> 0]]
    /\ crashes = 0 /\ lost = FALSE

-----------------------------------------------------------------------------
(* The broker.  A message stays with its worker until it is acknowledged at  *)
(* the end of the execution.                                                 *)

At(w, step) == task[w].at = step

Goto(w, step) == task' = [task EXCEPT ![w].at = step]

Put(r) == queue' = [queue EXCEPT ![r] = @ + 1]

\* Mutant: a delivery counts as a retry.
DeliverCounts(w) ==
    /\ At(w, "idle")
    /\ \E r \in {i \in 0..MaxRetries : queue[i] > 0} :
          /\ queue' = [queue EXCEPT ![r] = @ - 1]
          /\ task' = [task EXCEPT ![w] = [at |-> "check", retries |-> r + 1]]
    /\ UNCHANGED <<row, text, md, crashes, lost>>

Deliver(w) ==
    /\ At(w, "idle")
    /\ \E r \in {i \in 0..MaxRetries : queue[i] > 0} :
          /\ queue' = [queue EXCEPT ![r] = @ - 1]
          /\ task' = [task EXCEPT ![w] = [at |-> "check", retries |-> r]]
    /\ UNCHANGED <<row, text, md, crashes, lost>>

Ack(w) ==
    /\ At(w, "ack")
    /\ Goto(w, "idle")
    /\ UNCHANGED <<row, text, md, queue, crashes, lost>>

\* Mutant: messages are acknowledged on delivery.
DieAckedEarly(w) ==
    /\ ~At(w, "idle") /\ crashes < MaxCrashes
    /\ crashes' = crashes + 1
    /\ Goto(w, "idle")
    /\ UNCHANGED <<row, text, md, queue, lost>>

\* The container dies or is redeployed: what it had not acknowledged is
\* delivered again.
Die(w) ==
    /\ ~At(w, "idle") /\ crashes < MaxCrashes
    /\ crashes' = crashes + 1
    /\ Goto(w, "idle")
    /\ Put(task[w].retries)
    /\ UNCHANGED <<row, text, md, lost>>

-----------------------------------------------------------------------------
(* The task.                                                                 *)

\* The idempotency guard.  A row that is gone does not stop the task.
Check(w) ==
    /\ At(w, "check")
    /\ Goto(w, IF row.status \in TerminalStatus THEN "ack" ELSE "run")
    /\ UNCHANGED <<row, text, md, queue, crashes, lost>>

RunReturns(w) ==
    /\ At(w, "run")
    /\ Goto(w, "save")
    /\ UNCHANGED <<row, text, md, queue, crashes, lost>>

\* Mutant: every retry starts the count again.
RunTransientForever(w) ==
    /\ At(w, "run")
    /\ Put(0)
    /\ Goto(w, "ack")
    /\ UNCHANGED <<row, text, md, crashes, lost>>

\* AnthropicTransientError with retries left: self.retry sends the message
\* again, counted, before this delivery is acknowledged.
RunTransient(w) ==
    /\ At(w, "run") /\ task[w].retries < MaxRetries
    /\ Put(task[w].retries + 1)
    /\ Goto(w, "ack")
    /\ UNCHANGED <<row, text, md, crashes, lost>>

\* _finalize_as_failed on row r; _mark_job_failed logs its own errors.
FinalizeAsFailed(w, r) ==
    /\ \E new \in Swallowing(r, MarkFailed(r)) :
          /\ row' = new
          /\ lost' = (lost \/ new # MarkFailed(r))
    /\ Goto(w, "ack")
    /\ UNCHANGED <<md, queue, crashes>>

\* Retries exhausted, a permanent error, missing artifacts, no markdown.
RunGivesUp(w) == At(w, "run") /\ FinalizeAsFailed(w, row) /\ UNCHANGED text

\* Anything else (the status query, the goal query, an S3 error that is not
\* NoSuchKey, artifacts that are not JSON) or a process killed while its
\* parent lives: Celery acknowledges the message and that is all.
Unhandled(w) ==
    /\ Uncaught
    /\ At(w, "check") \/ At(w, "run")
    /\ lost' = TRUE
    /\ Goto(w, "ack")
    /\ UNCHANGED <<row, text, md, queue, crashes>>

\* The UPDATE matches REPORTING rows only; on any other row it changes
\* nothing and the task goes on as if it had.
Save(w) ==
    /\ At(w, "save")
    /\ row' = SaveReport(row)
    /\ text' = IF row' # row THEN w ELSE text
    /\ Goto(w, "put")
    /\ UNCHANGED <<md, queue, crashes, lost>>

\* _build_structured or the UPDATE raises, the latter possibly after it has
\* been committed; the handler marks the job failed.
SaveFails(w) ==
    /\ At(w, "save")
    /\ \E saved \in IF DbMayFail THEN {row, SaveReport(row)} ELSE {row} :
          /\ FinalizeAsFailed(w, saved)
          /\ text' = IF saved # row THEN w ELSE text

\* put_report_md; an error is logged.
PutMd(w) ==
    /\ At(w, "put")
    /\ md' \in {md, w}
    /\ Goto(w, "ack")
    /\ UNCHANGED <<row, text, queue, crashes, lost>>

-----------------------------------------------------------------------------
(* What else changes the row in this phase.                                  *)

\* detect_stale_jobs, once the row is over its budget; the workflow has ended.
DetectorFails ==
    /\ Detector /\ row.status = "REPORTING"
    /\ \E r \in Swallowing(row, MarkFailed(row)) : row' = r
    /\ UNCHANGED <<text, md, queue, task, crashes, lost>>

UserDeletes ==
    /\ row.status # "ABSENT"
    /\ row' = [NewRow("ABSENT") EXCEPT !.pod_id = row.pod_id]
    /\ text' = NoText
    /\ UNCHANGED <<md, queue, task, crashes, lost>>

-----------------------------------------------------------------------------
Executes(w) ==
    \/ Check(w) \/ RunReturns(w) \/ RunTransient(w) \/ RunGivesUp(w)
    \/ Save(w) \/ SaveFails(w) \/ PutMd(w) \/ Unhandled(w)

Next ==
    \/ \E w \in Worker : Deliver(w) \/ Executes(w) \/ Ack(w) \/ Die(w)
    \/ DetectorFails \/ UserDeletes

\* A worker process takes messages, gets through an execution (the client has
\* a request timeout) and acknowledges it.  Beat runs the detector again and
\* again, and its UPDATE gets through at some point; that is relied on only
\* for a job that an execution has lost.
Fairness ==
    /\ \A w \in Worker : WF_vars(Deliver(w)) /\ WF_vars(Executes(w) \/ Ack(w))
    /\ WF_vars(lost /\ DetectorFails /\ row' # row)

Spec == Init /\ [][Next]_vars /\ Fairness

-----------------------------------------------------------------------------
(* Properties.                                                               *)

\* The outcome of a job is decided once: through redelivery, duplicates and
\* the detector, a COMPLETED or FAILED row keeps its status and its report
\* until the user deletes it.
DecidedOnce ==
    [][row.status \in TerminalStatus =>
          \/ row'.status = row.status /\ text' = text
          \/ row'.status = "ABSENT"]_vars

\* acks_late: as long as no error goes unhandled, a job in REPORTING has a
\* message in the broker or a process working on it, whatever dies when.
NeverForgotten ==
    (row.status = "REPORTING" /\ ~lost) =>
        \/ \E r \in 0..MaxRetries : queue[r] > 0
        \/ \E w \in Worker : task[w].at \notin {"idle", "ack"}

\* Every job leaves REPORTING: by the task itself when all errors are ones it
\* handles, whoever crashes, and else with the detector's help.
Resolved == <>(row.status # "REPORTING")

=============================================================================
