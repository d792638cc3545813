------------------------------- MODULE JobApi -------------------------------
(***************************************************************************)
(* The requests of one user to the job API (saas/jobs/api*.py): create,    *)
(* retry, drafts, launch, share, revoke, delete.  A handler reads the row, *)
(* awaits Temporal, and commits; several handlers run at once and each may *)
(* be cut off between two steps.  Nothing locks a row: the session writes  *)
(* the columns the handler has assigned, whatever they are by then.        *)
(*                                                                         *)
(* Of the workflow, the report task and the detector only the writes that  *)
(* change the status are here, in the order they come in; SimWorkflow,     *)
(* ReportTask and StaleDetector have what leads to them, lost writes and   *)
(* attempts that outlive their workflow included.                          *)
(***************************************************************************)
EXTENDS JobRow, Naturals, FiniteSets

CONSTANTS Request,    \* handlers that may run at the same time
          Content,    \* what a user asks for: seed, goal and tier
          NoContent,  \* a draft that lacks one of them
          MaxJobs,    \* bound: rows ever inserted
          MaxTokens   \* bound: share tokens ever issued

ASSUME ApiAssumption ==
    /\ NoContent \notin Content
    /\ MaxJobs \in Nat \ {0} /\ MaxTokens \in Nat

Job == 1..MaxJobs

VARIABLES
    row,      \* [Job -> JobRow], "ABSENT" until the insert is committed
    card,     \* [Job -> the columns that only the API writes]
    next,     \* the sequence of ids
    issued,   \* how many share tokens there have been
    wf,       \* [Job -> the workflow "sim-<id>" in Temporal, and whether it
              \* has written to the row, or would have if there were one]
    req,      \* [Request -> the handler's place and what it holds]
    seen,     \* history: [Job -> jobs that were there at its duplicate check]
    blurred,  \* history: drafts whose launch overlapped an edit or was cut off
    overtaken \* history: jobs made PENDING after their workflow had written

history == <<seen, blurred, overtaken>>
vars == <<row, card, next, issued, wf, req, history>>

Visible == {j \in Job : row[j].status # "ABSENT"}

\* `recent': created within _DUP_JOB_WINDOW_SECONDS.
Card == [content : Content \cup {NoContent}, draft : BOOLEAN, recent : BOOLEAN,
         retryOf : Job \cup {0}, token : 0..MaxTokens]
NewCard(c, draft) == [content |-> c, draft |-> draft, recent |-> TRUE,
                      retryOf |-> 0, token |-> 0]

WorkflowRun == [state : {"none", "running", "closed"},
                content : Content \cup {NoContent}, wrote : BOOLEAN]
NewRun(state, c) == [state |-> state, content |-> c, wrote |-> FALSE]

Place == {"idle", "insert", "start", "commit", "link", "edit", "launch", "mark", "share"}
Handler == [at : Place, job : Job \cup {0}, content : Content \cup {NoContent},
            origin : Job \cup {0}]
Idle == [at |-> "idle", job |-> 0, content |-> NoContent, origin |-> 0]

TypeOK ==
    /\ row \in [Job -> JobRow]
    /\ card \in [Job -> Card]
    /\ next \in 1..MaxJobs + 1 /\ issued \in 0..MaxTokens
    /\ wf \in [Job -> WorkflowRun]
    /\ req \in [Request -> Handler]
    /\ seen \in [Job -> SUBSET Job] /\ {blurred, overtaken} \subseteq SUBSET Job

Init ==
    /\ row = [j \in Job |-> NewRow("ABSENT")]
    /\ card = [j \in Job |-> NewCard(NoContent, FALSE)]
    /\ next = 1 /\ issued = 0
    /\ wf = [j \in Job |-> NewRun("none", NoContent)]
    /\ req = [r \in Request |-> Idle]
    /\ seen = [j \in Job |-> {}] /\ blurred = {} /\ overtaken = {}

-----------------------------------------------------------------------------
(* Handlers.                                                                 *)

Goes(r, h) == req' = [req EXCEPT ![r] = h]
Moves(r, place) == Goes(r, [req[r] EXCEPT !.at = place])
Replies(r) == Goes(r, Idle)
At(r, place) == req[r].at = place
OnJob(places, j) == \E r \in Request : req[r].at \in places /\ req[r].job = j

\* A reply with an error, a lost connection, a restart of the API: the session
\* is rolled back.
CutOff(r) ==
    /\ ~At(r, "idle")
    /\ Replies(r)
    /\ blurred' = IF At(r, "mark") THEN blurred \cup {req[r].job} ELSE blurred
    /\ UNCHANGED <<row, card, next, issued, wf, seen, overtaken>>

-----------------------------------------------------------------------------
(* Create, and retry, which calls it.                                        *)

\* Mutant: a job that waits for its report is not looked for.
TwinsBeforeReport(c) ==
    {j \in Visible : row[j].status \in LiveStatus \ {"REPORTING"}
                        /\ card[j].recent /\ card[j].content = c}

Twins(c) ==
    {j \in Visible : row[j].status \in LiveStatus /\ card[j].recent /\ card[j].content = c}

\* One twin is a 409; two are one row too many for the query and a 500.
Checks(r, c, origin) ==
    /\ At(r, "idle") /\ Twins(c) = {}
    /\ next <= MaxJobs
    /\ Goes(r, [at |-> "start", job |-> next, content |-> c, origin |-> origin])
    /\ seen' = [seen EXCEPT ![next] = Visible]
    /\ next' = next + 1
    /\ UNCHANGED <<row, card, issued, wf, blurred, overtaken>>

CreateJob(r) == \E c \in Content : Checks(r, c, 0)

RetryJob(r) ==
    \E j \in Visible :
        /\ row[j].status \in {"FAILED", "REFUNDED"}
        /\ card[j].content # NoContent
        /\ Checks(r, card[j].content, j)

Starts(j, c) == wf' = [wf EXCEPT ![j] = NewRun("running", c)]

\* Mutant: a start that failed is not an error.
StartsOrNot(r) ==
    /\ At(r, "start")
    /\ Starts(req[r].job, req[r].content) \/ UNCHANGED wf
    /\ Moves(r, "commit")
    /\ UNCHANGED <<row, card, next, issued, history>>

StartWorkflow(r) ==
    /\ At(r, "start")
    /\ \/ Starts(req[r].job, req[r].content) /\ Moves(r, "commit")
       \/ (Starts(req[r].job, req[r].content) \/ UNCHANGED wf) /\ Replies(r)
    /\ UNCHANGED <<row, card, next, issued, history>>

\* The commit says PENDING whatever the workflow has made of itself by then.
SaysPending(j) ==
    overtaken' = IF wf[j].wrote THEN overtaken \cup {j} ELSE overtaken \ {j}

CommitJob(r) ==
    LET j == req[r].job IN
    /\ At(r, "commit")
    /\ row' = [row EXCEPT ![j] = NewRow("PENDING")]
    /\ card' = [card EXCEPT ![j] = NewCard(req[r].content, FALSE)]
    /\ SaysPending(j)
    /\ IF req[r].origin = 0 THEN Replies(r) ELSE Moves(r, "link")
    /\ UNCHANGED <<next, issued, wf, seen, blurred>>

\* Mutant: the identifiers of the UPDATE are the wrong way round.
LinkBackwards(r) ==
    /\ At(r, "link")
    /\ card' = [card EXCEPT ![req[r].origin].retryOf = req[r].job]
    /\ Replies(r)
    /\ UNCHANGED <<row, next, issued, wf, history>>

\* An UPDATE: a job deleted meanwhile has no row left to match.
Link(r) ==
    /\ At(r, "link")
    /\ card' = IF req[r].job \notin Visible THEN card
               ELSE [card EXCEPT ![req[r].job].retryOf = req[r].origin]
    /\ Replies(r)
    /\ UNCHANGED <<row, next, issued, wf, history>>

-----------------------------------------------------------------------------
(* Drafts.                                                                   *)

CreateDraft ==
    /\ next <= MaxJobs
    /\ \E c \in Content \cup {NoContent} :
          card' = [card EXCEPT ![next] = NewCard(c, TRUE)]
    /\ row' = [row EXCEPT ![next] = NewRow("DRAFT")]
    /\ next' = next + 1
    /\ UNCHANGED <<issued, wf, req, history>>

\* Mutant: any job may be edited.
OwnJob(j) == j \in Visible

UserDraft(j) == j \in Visible /\ row[j].status = "DRAFT"

LoadsDraft(r, j, place, others) ==
    /\ At(r, "idle") /\ UserDraft(j)
    /\ Goes(r, [at |-> place, job |-> j, content |-> card[j].content, origin |-> 0])
    /\ blurred' = IF OnJob(others, j) THEN blurred \cup {j} ELSE blurred
    /\ UNCHANGED <<row, card, next, issued, wf, seen, overtaken>>

UpdateDraft(r) == \E j \in Job : LoadsDraft(r, j, "edit", {"launch", "mark"})

\* The row of a draft that is gone matches nothing: the commit raises.
CommitDraft(r) ==
    LET j == req[r].job IN
    /\ At(r, "edit")
    /\ IF j \in Visible
       THEN \E c \in Content \cup {NoContent} : card' = [card EXCEPT ![j].content = c]
       ELSE UNCHANGED card
    /\ Replies(r)
    /\ UNCHANGED <<row, next, issued, wf, history>>

LaunchDraft(r) ==
    \E j \in Job : /\ card[j].content # NoContent
                   /\ LoadsDraft(r, j, "launch", {"edit", "launch", "mark"})

\* Temporal refuses an identifier that is running, and takes one that is not.
StartLaunch(r) ==
    LET j == req[r].job IN
    /\ At(r, "launch")
    /\ \/ wf[j].state # "running" /\ Starts(j, req[r].content) /\ Moves(r, "mark")
             /\ UNCHANGED blurred
       \/ wf[j].state # "running" /\ Starts(j, req[r].content) /\ Replies(r)
             /\ blurred' = blurred \cup {j}
       \/ UNCHANGED wf /\ Replies(r) /\ UNCHANGED blurred
    /\ UNCHANGED <<row, card, next, issued, seen, overtaken>>

CommitLaunch(r) ==
    /\ At(r, "mark")
    /\ row' = [row EXCEPT ![req[r].job] =
                   UpdateWhere(@, JobStatus, [@ EXCEPT !.status = "PENDING"])]
    /\ SaysPending(req[r].job)
    /\ Replies(r)
    /\ UNCHANGED <<card, next, issued, wf, seen, blurred>>

-----------------------------------------------------------------------------
(* Sharing and deletion.                                                     *)

\* Mutant: whatever has a row can be shared.
ShareableAnything(j) == j \in Visible

Shareable(j) == row[j].status = "COMPLETED"

\* A job that has a token returns it and writes nothing.
CreateShareLink(r) ==
    \E j \in Job :
        /\ At(r, "idle") /\ Shareable(j) /\ card[j].token = 0
        /\ Goes(r, [Idle EXCEPT !.at = "share", !.job = j])
        /\ UNCHANGED <<row, card, next, issued, wf, history>>

CommitShareLink(r) ==
    LET j == req[r].job IN
    /\ At(r, "share") /\ issued < MaxTokens
    /\ issued' = IF j \in Visible THEN issued + 1 ELSE issued
    /\ card' = IF j \in Visible THEN [card EXCEPT ![j].token = issued + 1] ELSE card
    /\ Replies(r)
    /\ UNCHANGED <<row, next, wf, history>>

RevokeShareLink ==
    /\ \E j \in Visible : card[j].token # 0 /\ card' = [card EXCEPT ![j].token = 0]
    /\ UNCHANGED <<row, next, issued, wf, req, history>>

\* The workflow is not told.
DeleteJob ==
    /\ \E j \in Visible :
          /\ row' = [row EXCEPT ![j] = NewRow("ABSENT")]
          /\ card' = [card EXCEPT ![j] = NewCard(NoContent, FALSE)]
    /\ UNCHANGED <<next, issued, wf, req, history>>

-----------------------------------------------------------------------------
(* The rest of the system.                                                   *)

\* A minute passes, longer than any handler takes.
Ages ==
    /\ \E j \in Visible : card[j].recent /\ card' = [card EXCEPT ![j].recent = FALSE]
    /\ UNCHANGED <<row, next, issued, wf, req, history>>

Write(j, r) == row' = [row EXCEPT ![j] = r]

Running(j) == wf[j].state = "running"

\* A pod is there, the first or another one: which one is SimWorkflow's business.
WfHasPod(j) ==
    /\ Running(j)
    /\ Write(j, UpdatePodId(row[j], row[j].pod_id))
    /\ wf' = [wf EXCEPT ![j].wrote = TRUE]

WfRuns(j) ==
    /\ Running(j) /\ wf[j].wrote
    /\ Write(j, TransitionToRunning(row[j])) \/ Write(j, UpdateStage(row[j]))
    /\ UNCHANGED wf

Closes(j) == wf' = [wf EXCEPT ![j] = [@ EXCEPT !.state = "closed", !.wrote = TRUE]]

WfFails(j) == Running(j) /\ Write(j, MarkFailed(row[j])) /\ Closes(j)

\* A simulation has had a pod, and takes longer than a request.
WfReports(j) ==
    /\ Running(j) /\ wf[j].wrote /\ ~OnJob({"launch", "mark"}, j)
    /\ Write(j, TransitionToReporting(row[j])) /\ Closes(j)

ReportIsSaved(j) == Write(j, SaveReport(row[j])) /\ UNCHANGED wf

\* By the report task when the report fails, by the detector when it finds the
\* workflow over and the row at work.
IsGivenUp(j) ==
    /\ wf[j].state = "closed" /\ row[j].status \in LiveStatus
    /\ Write(j, MarkFailed(row[j])) /\ UNCHANGED wf

Workflow ==
    /\ \E j \in Job : \/ WfHasPod(j) \/ WfRuns(j) \/ WfFails(j) \/ WfReports(j)
                      \/ ReportIsSaved(j) \/ IsGivenUp(j)
    /\ UNCHANGED <<card, next, issued, req, history>>

Handles(r) ==
    \/ CreateJob(r) \/ RetryJob(r) \/ StartWorkflow(r) \/ CommitJob(r) \/ Link(r)
    \/ UpdateDraft(r) \/ CommitDraft(r)
    \/ LaunchDraft(r) \/ StartLaunch(r) \/ CommitLaunch(r)
    \/ CreateShareLink(r) \/ CommitShareLink(r)
    \/ CutOff(r)

Next ==
    \/ \E r \in Request : Handles(r)
    \/ CreateDraft \/ RevokeShareLink \/ DeleteJob
    \/ Ages \/ Workflow

Spec == Init /\ [][Next]_vars

-----------------------------------------------------------------------------
(* list_jobs shows what no other job of the user's is a retry of.            *)

Superseded == {card[j].retryOf : j \in Visible}

Listed == Visible \ Superseded

\* A job, its retries, their retries, ...
RepeatsOf(j) ==
    LET upTo[n \in 0..MaxJobs] ==
            IF n = 0 THEN {j}
            ELSE upTo[n - 1] \cup {k \in Visible : card[k].retryOf \in upTo[n - 1]}
    IN  upTo[MaxJobs]

-----------------------------------------------------------------------------
(* Properties.                                                               *)

\* Two identical jobs are at work within one window only if the request for the
\* second had begun before the first was in the table: one after the other, or
\* again after a reply that was lost, the second is refused.
TwinsOverlapped ==
    \A j, k \in Visible :
        (/\ j \in seen[k] /\ ~card[j].draft /\ ~card[k].draft
         /\ card[j].content = card[k].content
         /\ {row[j].status, row[k].status} \subseteq LiveStatus)
            => ~card[j].recent

\* Whichever step of which handler went wrong, a row at work has its workflow at
\* work: one that is provisioning or running has it running, and so has one that
\* waits, unless the commit of create or launch came after its own workflow had
\* already written the row (api.py:145, api_draft.py:180 say PENDING regardless):
\* that row may be left waiting for nothing, until the detector finds it.
LiveHasWorkflow ==
    \A j \in Visible :
        /\ row[j].status \in {"PROVISIONING", "RUNNING"} => Running(j)
        /\ row[j].status = "PENDING" => Running(j) \/ j \in overtaken

\* The user sees what runs: the workflow of a visible job was given the job's
\* content, unless a draft's launch overlapped an edit, or was cut off.
RunsWhatItShows ==
    \A j \in Visible :
        (row[j].status # "DRAFT" /\ j \notin blurred) => card[j].content = wf[j].content

\* A retry hides the job it repeats, and a retry that is deleted brings it back:
\* of every job the page lists the job itself or a later one that repeats it.
EveryJobIsListed == \A j \in Visible : \E k \in RepeatsOf(j) \cap Listed : k >= j

\* Whoever follows a share link sees a finished job.
SharedIsFinished ==
    \A j \in Visible : card[j].token # 0 => row[j].status = "COMPLETED"

=============================================================================
