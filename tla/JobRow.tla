------------------------------- MODULE JobRow -------------------------------
(***************************************************************************)
(* One row of the table simulation_jobs and every SQL UPDATE the back end  *)
(* sends to it.  A row operator maps the row before the statement to the   *)
(* row after it: the WHERE clause is the set of statuses for which the     *)
(* statement changes anything.  The components of the system share the     *)
(* row and nothing else, so this module is what they agree on.             *)
(*                                                                         *)
(* Columns that no property tells apart (timings, live_status, heartbeat,  *)
(* enrichment text, stage number) are left out; result_* are booleans      *)
(* that say whether the column has been written.                           *)
(***************************************************************************)
CONSTANTS Pod,        \* RunPod pod identifiers
          NoPod,      \* pod_id IS NULL
          DbMayFail   \* TRUE iff a statement may raise (connection lost)

ASSUME RowAssumption == NoPod \notin Pod /\ DbMayFail \in BOOLEAN

LiveStatus == {"PENDING", "PROVISIONING", "RUNNING", "REPORTING"}

TerminalStatus == {"COMPLETED", "FAILED", "REFUNDED"}

JobStatus == {"DRAFT"} \cup LiveStatus \cup TerminalStatus

\* "ABSENT" stands for a row that the user's DELETE has removed.
JobRow == [status  : JobStatus \cup {"ABSENT"},
           pod_id  : Pod \cup {NoPod},
           results : BOOLEAN,    \* result_chat_log / result_graph written
           simdata : BOOLEAN,    \* sim_data_available
           report  : BOOLEAN]    \* the external report written

NewRow(status) == [status |-> status, pod_id |-> NoPod, results |-> FALSE,
                   simdata |-> FALSE, report |-> FALSE]

-----------------------------------------------------------------------------
\* UPDATE ... WHERE status IN S
UpdateWhere(r, S, new) == IF r.status \in S THEN new ELSE r

\* The rows a statement can leave behind when its caller swallows exceptions:
\* the updated row or, if the statement raised, the row as it was.
Swallowing(r, new) == IF DbMayFail THEN {r, new} ELSE {new}

\* Mutant: the failure write leaves PROVISIONING rows alone.
MarkFailedButProvisioning(r) ==
    UpdateWhere(r, JobStatus \ {"COMPLETED", "REFUNDED", "PROVISIONING"},
                [r EXCEPT !.status = "FAILED"])

MarkFailed(r) ==
    UpdateWhere(r, JobStatus \ {"COMPLETED", "REFUNDED"},
                [r EXCEPT !.status = "FAILED"])

SaveResults(r) ==
    UpdateWhere(r, JobStatus \ TerminalStatus, [r EXCEPT !.results = TRUE])

\* The stage write also claims that the job is running.
UpdateStage(r) ==
    UpdateWhere(r, JobStatus \ {"COMPLETED"}, [r EXCEPT !.status = "RUNNING"])

\* No status guard: the row goes to PROVISIONING whatever it was.
UpdatePodId(r, p) ==
    UpdateWhere(r, JobStatus,
                [r EXCEPT !.pod_id = p, !.status = "PROVISIONING"])

\* Mutant: the swap keeps the recorded pod.
ClearNothing(r) == r

ClearPodId(r) == UpdateWhere(r, JobStatus, [r EXCEPT !.pod_id = NoPod])

UpdateMetadata(r, p) == UpdateWhere(r, JobStatus, [r EXCEPT !.pod_id = p])

UpdateSimData(r) == UpdateWhere(r, JobStatus, [r EXCEPT !.simdata = TRUE])

TransitionToRunning(r) ==
    UpdateWhere(r, {"PROVISIONING"}, [r EXCEPT !.status = "RUNNING"])

\* Mutant: the handoff accepts RUNNING rows only.
TransitionFromRunning(r) ==
    UpdateWhere(r, {"RUNNING"}, [r EXCEPT !.status = "REPORTING"])

TransitionToReporting(r) ==
    UpdateWhere(r, {"RUNNING", "PROVISIONING"},
                [r EXCEPT !.status = "REPORTING"])

\* Mutant: the report is saved whatever the status.
SaveReportAlways(r) ==
    UpdateWhere(r, JobStatus, [r EXCEPT !.report = TRUE, !.status = "COMPLETED"])

SaveReport(r) ==
    UpdateWhere(r, {"REPORTING"},
                [r EXCEPT !.report = TRUE, !.status = "COMPLETED"])

=============================================================================
