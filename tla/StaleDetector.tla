---------------------------- MODULE StaleDetector ----------------------------
(***************************************************************************)
(* detect_stale_jobs, the Celery beat task that fails jobs the rest of the *)
(* system has lost, next to the jobs it looks at.  A pass works on a       *)
(* snapshot of the rows and on the time it was taken, asks Temporal about  *)
(* one job at a time, and writes the row and terminates the pod the        *)
(* snapshot named, while the jobs go on.                                   *)
(*                                                                         *)
(* A job's workflow is reduced to the writes the detector can see; module  *)
(* SimWorkflow has it in full.                                             *)
(***************************************************************************)
EXTENDS JobRow, Naturals

CONSTANTS Job,
          Budget,    \* [LiveStatus -> Nat]: _phase_budget_s for one tier
          MaxTime,   \* bound: the clock stops here
          MaxStart,  \* bound: no job is created later
          Drafts     \* TRUE iff jobs may start as drafts

ASSUME DetectorAssumption ==
    /\ Budget \in [LiveStatus -> Nat] /\ MaxTime \in Nat /\ MaxStart \in 0..MaxTime
    /\ Drafts \in BOOLEAN

VARIABLES
    row,       \* [Job -> row]
    api,       \* [Job -> how far the API has got with the job]
    created,   \* [Job -> created_at]
    wf,        \* [Job -> where the workflow is]
    held,      \* [Job -> the pod the workflow works on]
    pods,      \* [Pod -> PodState]; RunPod uses an identifier once
    now,
    det        \* the detector's pass: its snapshot, its clock, its place

jobVars == <<row, api, created, wf, held, pods>>
vars == <<jobVars, now, det>>

ApiState == {"none", "creating", "draft", "launching", "recorded"}
WfState == {"none", "start", "pod", "reported", "closed"}
PodState == {"absent", "up", "gone"}
Snapshot == UNION {[S -> [status : LiveStatus, pod : Pod \cup {NoPod},
                          recorded : BOOLEAN, created : 0..MaxTime]] : S \in SUBSET Job}
Open(j) == wf[j] \in {"start", "pod", "reported"}
Resting == [at |-> <<"idle">>, snap |-> <<>>, time |-> 0, todo |-> {}]

TypeOK ==
    /\ row \in [Job -> JobRow]
    /\ api \in [Job -> ApiState]
    /\ created \in [Job -> 0..MaxTime]
    /\ wf \in [Job -> WfState]
    /\ held \in [Job -> Pod \cup {NoPod}]
    /\ pods \in [Pod -> PodState]
    /\ now \in 0..MaxTime
    /\ det \in [at : {<<"idle">>, <<"loop">>} \cup ({"describe", "mark", "kill"} \X Job),
                snap : Snapshot, time : 0..MaxTime, todo : SUBSET Job]
    /\ det.todo \subseteq DOMAIN det.snap

Init ==
    /\ row = [j \in Job |-> NewRow("ABSENT")]
    /\ api = [j \in Job |-> "none"]
    /\ created = [j \in Job |-> 0]
    /\ wf = [j \in Job |-> "none"]
    /\ held = [j \in Job |-> NoPod]
    /\ pods = [p \in Pod |-> "absent"]
    /\ now = 0 /\ det = Resting

-----------------------------------------------------------------------------
(* The jobs.                                                                 *)

Write(j, r) == row' = [row EXCEPT ![j] = r]

\* NoPod is nobody's pod.
Killed(p) == [q \in Pod |-> IF q = p THEN "gone" ELSE pods[q]]

Tick == now < MaxTime /\ now' = now + 1 /\ UNCHANGED <<jobVars, det>>

\* create_job starts the workflow while its INSERT is uncommitted: until the
\* commit, which may never come, the workflow's UPDATEs find no row.
CreateStarts(j) ==
    /\ api[j] = "none" /\ now <= MaxStart
    /\ created' = [created EXCEPT ![j] = now]
    /\ api' = [api EXCEPT ![j] = "creating"]
    /\ wf' = [wf EXCEPT ![j] = "start"]
    /\ UNCHANGED <<row, held, pods, now, det>>

CreateCommits(j) ==
    /\ api[j] = "creating"
    /\ Write(j, NewRow("PENDING"))
    /\ api' = [api EXCEPT ![j] = "recorded"]
    /\ UNCHANGED <<created, wf, held, pods, now, det>>

CreateDraft(j) ==
    /\ Drafts /\ api[j] = "none" /\ now <= MaxStart
    /\ Write(j, NewRow("DRAFT"))
    /\ created' = [created EXCEPT ![j] = now]
    /\ api' = [api EXCEPT ![j] = "draft"]
    /\ UNCHANGED <<wf, held, pods, now, det>>

\* launch_draft, too, starts the workflow first ...
LaunchStarts(j) ==
    /\ api[j] = "draft" /\ row[j].status = "DRAFT"
    /\ api' = [api EXCEPT ![j] = "launching"]
    /\ wf' = [wf EXCEPT ![j] = "start"]
    /\ UNCHANGED <<row, created, held, pods, now, det>>

\* ... and writes PENDING over whatever the workflow has written by then.
LaunchCommits(j) ==
    /\ api[j] = "launching" /\ row[j].status # "ABSENT"
    /\ Write(j, [row[j] EXCEPT !.status = "PENDING"])
    /\ api' = [api EXCEPT ![j] = "recorded"]
    /\ UNCHANGED <<created, wf, held, pods, now, det>>

WfStage(j) ==
    /\ wf[j] \in {"start", "pod"}
    /\ Write(j, UpdateStage(row[j]))
    /\ UNCHANGED <<api, created, wf, held, pods, now, det>>

WfProvisions(j, p) ==
    /\ wf[j] = "start" /\ pods[p] = "absent"
    /\ pods' = [pods EXCEPT ![p] = "up"]
    /\ held' = [held EXCEPT ![j] = p]
    /\ wf' = [wf EXCEPT ![j] = "pod"]
    /\ Write(j, UpdatePodId(row[j], p))
    /\ UNCHANGED <<api, created, now, det>>

WfSwaps(j) ==
    /\ wf[j] = "pod"
    /\ pods' = Killed(held[j])
    /\ held' = [held EXCEPT ![j] = NoPod]
    /\ wf' = [wf EXCEPT ![j] = "start"]
    /\ Write(j, ClearPodId(row[j]))
    /\ UNCHANGED <<api, created, now, det>>

WfReports(j) ==
    /\ wf[j] = "pod"
    /\ wf' = [wf EXCEPT ![j] = "reported"]
    /\ Write(j, TransitionToReporting(row[j]))
    /\ UNCHANGED <<api, created, held, pods, now, det>>

Closes(j) == /\ wf' = [wf EXCEPT ![j] = "closed"]
             /\ held' = [held EXCEPT ![j] = NoPod]
             /\ UNCHANGED <<api, created, now, det>>

WfEnds(j) ==
    /\ wf[j] = "reported"
    /\ pods' = Killed(held[j])
    /\ Closes(j)
    /\ UNCHANGED row

WfFails(j) ==
    /\ Open(j)
    /\ pods' = Killed(held[j])
    /\ Closes(j)
    /\ Write(j, MarkFailed(row[j]))

\* Temporal loses the execution, or it is terminated from outside: no handler
\* of the workflow runs.
WfLost(j) == Open(j) /\ Closes(j) /\ UNCHANGED <<row, pods>>

\* The report task: done, failed, or still nowhere.
ReportEnds(j) ==
    /\ row[j].status = "REPORTING"
    /\ Write(j, SaveReport(row[j])) \/ Write(j, MarkFailed(row[j]))
    /\ UNCHANGED <<api, created, wf, held, pods, now, det>>

UserDeletes(j) ==
    /\ row[j].status # "ABSENT"
    /\ Write(j, NewRow("ABSENT"))
    /\ UNCHANGED <<api, created, wf, held, pods, now, det>>

JobStep(j) ==
    \/ CreateStarts(j) \/ CreateCommits(j)
    \/ CreateDraft(j) \/ LaunchStarts(j) \/ LaunchCommits(j)
    \/ WfStage(j) \/ (\E p \in Pod : WfProvisions(j, p)) \/ WfSwaps(j)
    \/ WfReports(j) \/ WfEnds(j) \/ WfFails(j) \/ WfLost(j)
    \/ ReportEnds(j) \/ UserDeletes(j)

-----------------------------------------------------------------------------
(* A pass of the detector.                                                   *)

\* Mutant: rows in REPORTING are not scanned.
ScannedButReporting == LiveStatus \ {"REPORTING"}

Scanned == LiveStatus

\* The snapshot keeps the columns the pass uses.
LoadLiveJobs ==
    /\ det.at = <<"idle">>
    /\ LET live == {j \in Job : row[j].status \in Scanned}
       IN  det' = [at |-> <<"loop">>, time |-> now, todo |-> live,
                   snap |-> [j \in live |->
                        [status |-> row[j].status, pod |-> row[j].pod_id,
                         recorded |-> api[j] = "recorded", created |-> created[j]]]]
    /\ UNCHANGED <<jobVars, now>>

AtJob(step) == {j \in DOMAIN det.snap : det.at = <<step, j>>}

GoOn(at) == det' = [det EXCEPT !.at = at]

\* The age of the JOB against the budget of its phase.
OverBudget(j) == det.time - det.snap[j].created >= Budget[det.snap[j].status]

\* Mutant: the budget alone decides.
NextJobByBudget(j) ==
    /\ det.at = <<"loop">> /\ j \in det.todo
    /\ det' = [det EXCEPT !.todo = @ \ {j},
                          !.at = IF OverBudget(j) THEN <<"mark", j>> ELSE <<"loop">>]
    /\ UNCHANGED <<jobVars, now>>

NextJob(j) ==
    /\ det.at = <<"loop">> /\ j \in det.todo
    /\ det' = [det EXCEPT
          !.todo = @ \ {j},
          !.at = CASE ~OverBudget(j) -> <<"loop">>
                   [] OverBudget(j) /\ det.snap[j].recorded -> <<"describe", j>>
                   [] OTHER -> <<"mark", j>>]
    /\ UNCHANGED <<jobVars, now>>

PassEnds ==
    /\ det.at = <<"loop">> /\ det.todo = {}
    /\ det' = Resting
    /\ UNCHANGED <<jobVars, now>>

\* Temporal answers: finished or unknown, or still running ...
Described(j) ==
    /\ j \in AtJob("describe")
    /\ GoOn(IF Open(j) THEN <<"loop">> ELSE <<"mark", j>>)
    /\ UNCHANGED <<jobVars, now>>

\* ... or it cannot be asked: never act on that.
NotDescribed(j) ==
    /\ j \in AtJob("describe")
    /\ GoOn(<<"loop">>)
    /\ UNCHANGED <<jobVars, now>>

Mark == \E j \in AtJob("mark") :
    /\ \E r \in Swallowing(row[j], MarkFailed(row[j])) : Write(j, r)
    /\ GoOn(<<"kill", j>>)
    /\ UNCHANGED <<api, created, wf, held, pods, now>>

\* _best_effort_terminate_pod, on the pod of the snapshot.
Kill == \E j \in AtJob("kill") :
    /\ pods' \in {pods, Killed(det.snap[j].pod)}
    /\ GoOn(<<"loop">>)
    /\ UNCHANGED <<row, api, created, wf, held, now>>

Pass ==
    \/ LoadLiveJobs \/ PassEnds \/ Mark \/ Kill
    \/ \E j \in Job : NextJob(j) \/ Described(j) \/ NotDescribed(j)

Next == Tick \/ (\E j \in Job : JobStep(j)) \/ Pass

\* Beat runs the detector every 15 minutes and a pass has no unbounded wait;
\* Temporal does not fail every single query about the same job.
Spec == Init /\ [][Next]_vars /\ WF_vars(Tick) /\ WF_vars(Pass)
             /\ \A j \in Job : SF_vars(Described(j))

-----------------------------------------------------------------------------
(* Properties.                                                               *)

\* "If the workflow is actively RUNNING, Temporal is still trying, don't step
\* on it": although minutes and writes lie between the snapshot, the query and
\* the two effects, of the jobs whose workflow id it has read the detector
\* fails none whose workflow is running and terminates no pod such a workflow
\* works on.  (A launch that is not committed yet has no id to read.)
Identified(j) == j \in DOMAIN det.snap /\ det.snap[j].recorded

NeverReapsRunning ==
    /\ [][Mark => \A j \in Job : row'[j] # row[j] => ~(Identified(j) /\ Open(j))]_vars
    /\ [][Kill => \A j \in Job : (Identified(j) /\ held[j] # NoPod) =>
                                      pods'[held[j]] = pods[held[j]]]_vars

\* A job whose workflow is over does not keep a live status, whoever was lost
\* on the way: the workflow, its last write, the report task, the launch.
StaleReconciled ==
    \A j \in Job :
        (wf[j] = "closed" /\ row[j].status \in LiveStatus) ~>
            row[j].status \notin LiveStatus

=============================================================================
