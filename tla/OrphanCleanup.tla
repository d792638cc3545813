---------------------------- MODULE OrphanCleanup ----------------------------
(***************************************************************************)
(* cleanup_orphaned_pods, the Celery beat task that terminates RunPod pods *)
(* no job needs, next to the workflows that create, swap, lose and give    *)
(* back pods.  A pass lists the pods first and reads the database          *)
(* afterwards, so both views may be old when it terminates a pod.          *)
(*                                                                         *)
(* A pod's age is one of three: below GRACE_PERIOD_SECONDS, below          *)
(* TAG_MISMATCH_GRACE_SECONDS, or above both.  The workflows are reduced   *)
(* to what they do with pods and rows; module SimWorkflow has them in full.*)
(***************************************************************************)
EXTENDS JobRow, Naturals

CONSTANTS Job,
          NoJob,     \* a pod's name bears no job
          Foreign,   \* pods of the account that do not bear our name prefix
          Legacy     \* pods that bear it without a job's tag

ASSUME CleanupAssumption ==
    NoJob \notin Job /\ Foreign \subseteq Pod /\ Legacy \subseteq Pod \ Foreign

Young == 0
Grace == 1      \* older than GRACE_PERIOD_SECONDS
MismatchGrace == 2      \* older than TAG_MISMATCH_GRACE_SECONDS

VARIABLES
    row,      \* [Job -> row]
    wf,       \* [Job -> where the workflow is]
    held,     \* [Job -> the pod the workflow works on]
    pods,     \* [Pod -> "absent", "up" or "gone"]
    tag,      \* [Pod -> the job in the pod's name]
    age,      \* [Pod -> Young..MismatchGrace]
    pass      \* the cleanup pass: its place, the pods listed, the ids read

wfVars == <<row, wf, held, pods, tag, age>>
vars == <<wfVars, pass>>

WfState == {"start", "created", "pod", "closed"}
Resting == [at |-> <<"idle">>, listed |-> {}, active |-> {}]

TypeOK ==
    /\ row \in [Job -> JobRow]
    /\ wf \in [Job -> WfState]
    /\ held \in [Job -> Pod \cup {NoPod}]
    /\ pods \in [Pod -> {"absent", "up", "gone"}]
    /\ tag \in [Pod -> Job \cup {NoJob}]
    /\ age \in [Pod -> Young..MismatchGrace]
    /\ pass \in [at : {<<"idle">>, <<"read">>, <<"loop">>} \cup ({"kill"} \X Pod),
                 listed : SUBSET Pod, active : SUBSET (Pod \cup {NoPod})]

Init ==
    /\ row = [j \in Job |-> NewRow("PENDING")]
    /\ wf = [j \in Job |-> "start"]
    /\ held = [j \in Job |-> NoPod]
    /\ pods = [p \in Pod |-> IF p \in Foreign \cup Legacy THEN "up" ELSE "absent"]
    /\ tag = [p \in Pod |-> NoJob]
    /\ age = [p \in Pod |-> Young]
    /\ pass = Resting

-----------------------------------------------------------------------------
(* The workflows.                                                            *)

Killed(p) == [q \in Pod |-> IF q = p THEN "gone" ELSE pods[q]]

Write(j, r) == row' = [row EXCEPT ![j] = r]

Holds(j, state, p) == /\ wf' = [wf EXCEPT ![j] = state]
                      /\ held' = [held EXCEPT ![j] = p]

\* The pod's name bears the job.
WfCreates(j, p) ==
    /\ wf[j] = "start" /\ pods[p] = "absent"
    /\ pods' = [pods EXCEPT ![p] = "up"]
    /\ tag' = [tag EXCEPT ![p] = j]
    /\ Holds(j, "created", p)
    /\ UNCHANGED <<row, age, pass>>

\* on_created; an error is logged and the pod is used all the same.
WfRecords(j) ==
    /\ wf[j] = "created"
    /\ \E r \in Swallowing(row[j], UpdatePodId(row[j], held[j])) : Write(j, r)
    /\ Holds(j, "pod", held[j])
    /\ UNCHANGED <<pods, tag, age, pass>>

WfReuses(j) ==
    /\ wf[j] = "start"
    /\ row[j].pod_id # NoPod /\ pods[row[j].pod_id] = "up"
    /\ Holds(j, "pod", row[j].pod_id)
    /\ UNCHANGED <<row, pods, tag, age, pass>>

\* The provision attempt dies, before or after the pod was recorded.
WfAttemptDies(j) ==
    /\ wf[j] \in {"created", "pod"}
    /\ Holds(j, "start", NoPod)
    /\ UNCHANGED <<row, pods, tag, age, pass>>

WfSwaps(j) ==
    /\ wf[j] = "pod"
    /\ pods' = Killed(held[j])
    /\ \E r \in Swallowing(row[j], ClearPodId(row[j])) : Write(j, r)
    /\ Holds(j, "start", NoPod)
    /\ UNCHANGED <<tag, age, pass>>

WfWorks(j) ==
    /\ wf[j] = "pod"
    /\ \E new \in {UpdateStage(row[j]), TransitionToRunning(row[j])} :
          \E r \in Swallowing(row[j], new) : Write(j, r)
    /\ UNCHANGED <<wf, held, pods, tag, age, pass>>

\* Success or failure, with a teardown that may use up its attempts.
WfEnds(j) ==
    /\ wf[j] # "closed"
    /\ \/ wf[j] = "pod" /\ Write(j, TransitionToReporting(row[j]))
       \/ Write(j, MarkFailed(row[j]))
    /\ pods' \in {pods, Killed(held[j])}
    /\ Holds(j, "closed", NoPod)
    /\ UNCHANGED <<tag, age, pass>>

\* The report task or the stale-job detector.
JobEnds(j) ==
    /\ wf[j] = "closed" /\ row[j].status \in LiveStatus
    /\ Write(j, SaveReport(row[j])) \/ Write(j, MarkFailed(row[j]))
    /\ UNCHANGED <<wf, held, pods, tag, age, pass>>

UserDeletes(j) ==
    /\ row[j].status # "ABSENT"
    /\ Write(j, NewRow("ABSENT"))
    /\ UNCHANGED <<wf, held, pods, tag, age, pass>>

JobStep(j) ==
    \/ (\E p \in Pod : WfCreates(j, p))
    \/ WfRecords(j) \/ WfReuses(j) \/ WfAttemptDies(j) \/ WfSwaps(j)
    \/ WfWorks(j) \/ WfEnds(j) \/ JobEnds(j) \/ UserDeletes(j)

\* Timing: create_pod and the callback that records the pod are seconds
\* apart, and a pass takes seconds; both are far below the graces.
PodAges(p) ==
    /\ pods[p] = "up" /\ age[p] < MismatchGrace
    /\ pass.at = <<"idle">>
    /\ \A j \in Job : wf[j] = "created" => held[j] # p
    /\ age' = [age EXCEPT ![p] = @ + 1]
    /\ UNCHANGED <<row, wf, held, pods, tag, pass>>

-----------------------------------------------------------------------------
(* A pass.                                                                   *)

GetPods ==
    /\ pass.at = <<"idle">>
    /\ pass' = [Resting EXCEPT !.at = <<"read">>,
                               !.listed = {p \in Pod : pods[p] = "up"}]
    /\ UNCHANGED wfVars

\* Mutant: jobs that are being provisioned are not active.
ActiveButProvisioning == LiveStatus \ {"PROVISIONING"}

Active == LiveStatus

GetActivePodIds ==
    /\ pass.at = <<"read">>
    /\ pass' = [pass EXCEPT
          !.at = <<"loop">>,
          !.active = {row[j].pod_id : j \in {i \in Job : row[i].status \in Active}}]
    /\ UNCHANGED wfVars

\* The database cannot be reached: terminate nothing.
PassGivesUp ==
    /\ DbMayFail
    /\ pass.at \in {<<"read">>, <<"loop">>}
    /\ pass' = Resting
    /\ UNCHANGED wfVars

\* Mutant: the tag does not protect a pod the row does not name.
SparedByActiveSet(p) ==
    p \in Foreign \/ p \in pass.active \/ age[p] < Grace

\* Mutant: the tag of a live job protects a pod for ever.
SparedByTag(p) ==
    \/ p \in Foreign \/ p \in pass.active \/ age[p] < Grace
    \/ tag[p] # NoJob /\ row[tag[p]].status \in LiveStatus

Spared(p) ==
    \/ p \in Foreign
    \/ p \in pass.active
    \/ /\ tag[p] # NoJob /\ row[tag[p]].status \in LiveStatus
       /\ age[p] < MismatchGrace
    \/ age[p] < Grace

Judge(p) ==
    /\ pass.at = <<"loop">> /\ p \in pass.listed
    /\ pass' = [pass EXCEPT !.listed = @ \ {p},
                            !.at = IF Spared(p) THEN <<"loop">> ELSE <<"kill", p>>]
    /\ UNCHANGED wfVars

Terminate(p) ==
    /\ pass.at = <<"kill", p>>
    /\ pods' = Killed(p)
    /\ pass' = [pass EXCEPT !.at = <<"loop">>]
    /\ UNCHANGED <<row, wf, held, tag, age>>

TerminateFails(p) ==
    /\ pass.at = <<"kill", p>>
    /\ pass' = [pass EXCEPT !.at = <<"loop">>]
    /\ UNCHANGED wfVars

PassEnds ==
    /\ pass.at = <<"loop">> /\ pass.listed = {}
    /\ pass' = Resting
    /\ UNCHANGED wfVars

Cleanup ==
    \/ GetPods \/ GetActivePodIds \/ PassEnds
    \/ \E p \in Pod : Judge(p) \/ Terminate(p) \/ TerminateFails(p)

Next ==
    \/ \E j \in Job : JobStep(j)
    \/ \E p \in Pod : PodAges(p)
    \/ Cleanup \/ PassGivesUp

\* Beat runs a pass every ten minutes, and again and again one gets to its end;
\* RunPod does not refuse every termination; pods get older.  (A pod ages twice
\* and is terminated once, so fairness of some pod's step is fairness of each.)
Fairness ==
    /\ WF_vars(Cleanup) /\ []<><<PassEnds>>_vars
    /\ SF_vars(\E p \in Pod : PodAges(p))
    /\ SF_vars(\E p \in Pod : Terminate(p))

Spec == Init /\ [][Next]_vars /\ Fairness

-----------------------------------------------------------------------------
(* Properties.                                                               *)

InUse(j) == wf[j] \in {"created", "pod"} /\ row[j].status \in LiveStatus

\* A pod that a live job works on is not terminated before it is past the
\* mismatch grace, even when the row names another pod or none because a
\* write was lost: the tag stands in for the row.
NoKillInGrace ==
    [][\A p \in Pod : Terminate(p) =>
          \A j \in Job : InUse(j) /\ age[p] < MismatchGrace => held[j] # p]_vars

\* A pod that a live job works on and that its row names is not terminated at
\* any age, although the pods were listed before the rows were read and the job
\* may have come to its pod in between.  (If the write of pod_id was lost only
\* the grace protects the pod: the code's comments know of this case.)
NoKillNamed ==
    [][\A p \in Pod : Terminate(p) =>
          \A j \in Job : InUse(j) /\ held[j] = p => row[j].pod_id # p]_vars

\* A pod of ours that no workflow holds and no live row names goes away,
\* even if its job lives on for ever.
Orphan(p) ==
    /\ pods[p] = "up" /\ p \notin Foreign
    /\ \A j \in Job : held[j] # p /\ (row[j].status \in LiveStatus => row[j].pod_id # p)

OrphansGo == \A p \in Pod : Orphan(p) ~> pods[p] = "gone"

=============================================================================
