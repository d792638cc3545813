----------------------------- MODULE SimWorkflow -----------------------------
(***************************************************************************)
(* fishcloud.SimulationWorkflow and the activities it schedules, for one   *)
(* job: pre-GPU work, the two nested swap loops around the GPU phase, the  *)
(* hand-off to the report task, and the failure and teardown handlers.     *)
(*                                                                         *)
(* The workflow's own code is deterministic and survives crashes (Temporal *)
(* replays it), so `pc' only moves when an activity completes or has used  *)
(* up its attempts.  An activity ATTEMPT is what can fail: it can raise,   *)
(* its worker can die between two of its statements, or the server can     *)
(* time it out while the coroutine lives on ("overrun") and keeps calling  *)
(* RunPod and writing the row next to the attempt that replaces it.        *)
(***************************************************************************)
EXTENDS JobRow, Naturals

CONSTANTS MaxSwap,         \* CIRCUIT_BREAKER_MAX_RETRIES
          MaxBadHost,      \* BAD_HOST_MAX_RETRIES
          MaxUnreachable,  \* POD_UNREACHABLE_MAX_RETRIES
          Attempts,        \* [Activity -> Nat]: the retry policies
          Overruns         \* TRUE iff a timed-out attempt may live on

\* The program counter names the activity the workflow is waiting for.
Activity == {"enrich", "derive", "pre_failed", "provision", "health",
             "bad_host_terminate", "poll", "swap_terminate", "swap_clear",
             "finalize", "mark_failed", "teardown"}

ASSUME WorkflowAssumption ==
    /\ MaxSwap \in Nat /\ MaxBadHost \in Nat /\ MaxUnreachable \in Nat
    /\ Attempts \in [Activity -> Nat \ {0}]
    /\ Overruns \in BOOLEAN

VARIABLES
    \* shared with the rest of the system
    row,        \* the job's row
    pods,       \* [Pod -> PodState]: what RunPod runs
    enqueued,   \* report messages sent to the Celery broker
    \* the workflow's local variables
    pc, held, swaps, badHosts, unreachable, uploaded,
    att,        \* number of the attempt of the activity at pc
    \* the bodies of multi-step activities
    prov,       \* [{"cur", "old"} -> where a provision_pod attempt is]
    fin,        \* where upload_and_finalize is
    poller,     \* the pod an overrun submit_and_poll still watches
    \* history, for the properties only
    handed,     \* pods provision_pod has returned to the workflow
    abandoned,  \* pods whose terminate_pod used up its attempts
    released,   \* pods a terminate_pod activity of the workflow has terminated
    swapped,    \* those terminated by the circuit-breaker / slow-pod swap
    unmarked    \* TRUE iff some mark_failed used up its attempts

loopVars == <<swaps, badHosts, unreachable, uploaded>>
history  == <<handed, abandoned, released, swapped, unmarked>>
vars == <<row, pods, enqueued, pc, held, loopVars, att, prov, fin, poller, history>>

PodState == {"absent", "starting", "up", "dying", "gone"}
Dead     == {"dying", "gone"}

ProvStep == {"idle", "check", "probe", "stage", "create", "record", "wait"}
Idle     == [at |-> "idle", pod |-> NoPod]
Fresh    == [at |-> "check", pod |-> NoPod]
FinStep  == {"meta", "simdata", "reporting", "enqueue", "return"}

TypeOK ==
    /\ row \in JobRow
    /\ pods \in [Pod -> PodState]
    /\ enqueued \in Nat
    /\ pc \in Activity \cup {"done"}
    /\ held \in Pod \cup {NoPod}
    /\ swaps \in 0..MaxSwap
    /\ badHosts \in 0..MaxBadHost
    /\ unreachable \in 0..MaxUnreachable
    /\ uploaded \in BOOLEAN
    /\ att \in Nat
    /\ prov \in [{"cur", "old"} -> [at : ProvStep, pod : Pod \cup {NoPod}]]
    /\ fin \in FinStep
    /\ poller \in Pod \cup {NoPod}
    /\ handed \subseteq Pod /\ abandoned \subseteq Pod
    /\ released \subseteq Pod /\ swapped \subseteq Pod
    /\ unmarked \in BOOLEAN

\* A row the API has committed; what may happen when the workflow is ahead of the
\* commit, or the job is deleted or failed by others beside it, is in StaleDetector
\* and JobApi.  enrich_web decides whether the first activity is the enrichment.
Init ==
    /\ row = NewRow("PENDING")
    /\ pods = [p \in Pod |-> "absent"]
    /\ enqueued = 0
    /\ pc \in {"enrich", "derive"}
    /\ att = 1
    /\ held = NoPod /\ poller = NoPod
    /\ swaps = 0 /\ badHosts = 0 /\ unreachable = 0 /\ uploaded = FALSE
    /\ prov = [s \in {"cur", "old"} |-> Idle]
    /\ fin = "meta"
    /\ handed = {} /\ abandoned = {} /\ released = {} /\ swapped = {}
    /\ unmarked = FALSE

-----------------------------------------------------------------------------
(* Temporal: an activity completes, or an attempt fails and the retry policy *)
(* either allows another attempt or raises ActivityError in the workflow.    *)

GoTo(l) == pc' = l /\ att' = 1

LastAttempt == att >= Attempts[pc]

\* Mutant: no maximum_attempts.
RetryForever(l) == att' = att /\ UNCHANGED pc

RetryOr(l) == IF att < Attempts[pc] THEN att' = att + 1 /\ UNCHANGED pc
                                    ELSE GoTo(l)

(* RunPod *)

\* terminate_pod(p): accepted for a pod that runs, a no-op for one that is
\* already on its way out.
Killed(p) == [pods EXCEPT ![p] = IF @ \in {"starting", "up"} THEN "dying" ELSE @]

\* The call may also raise, before or after RunPod acted on it.
KillAttempt(p) == pods' \in {pods, Killed(p)}

PodReady(p) == /\ pods[p] = "starting"
               /\ pods' = [pods EXCEPT ![p] = "up"]
               /\ UNCHANGED <<row, enqueued, pc, held, loopVars, att, prov, fin, poller, history>>

PodVanishes(p) == /\ pods[p] = "dying"
                  /\ pods' = [pods EXCEPT ![p] = "gone"]
                  /\ UNCHANGED <<row, enqueued, pc, held, loopVars, att, prov, fin, poller, history>>

\* A pod that is being destroyed may still answer through RunPod's proxy.
Answers(p) == pods[p] \in {"up", "dying"}

-----------------------------------------------------------------------------
(* Phase 1: enrich_seed and derive_markets.  Their row writes are columns    *)
(* this module leaves out.                                                   *)

StartProvisioning == prov' = [prov EXCEPT !["cur"] = Fresh]

PreGpuDone ==
    /\ \/ pc = "enrich" /\ GoTo("derive") /\ UNCHANGED prov
       \/ pc = "derive" /\ GoTo("provision") /\ StartProvisioning
    /\ UNCHANGED <<row, pods, enqueued, held, loopVars, fin, poller, history>>

PreGpuAttemptFails ==
    /\ pc \in {"enrich", "derive"}
    /\ RetryOr("pre_failed")
    /\ UNCHANGED <<row, pods, enqueued, held, loopVars, prov, fin, poller, history>>

-----------------------------------------------------------------------------
(* provision_pod.  Slot "cur" is the attempt Temporal waits for, slot "old"  *)
(* an overrun attempt: its result is discarded, its side effects are not.    *)

ProvAt(s, step) == prov[s].at = step

ProvGoTo(s, step, p) == prov' = [prov EXCEPT ![s] = [at |-> step, pod |-> p]]

ProvReturns(s, p) ==
    /\ prov' = [prov EXCEPT ![s] = Idle]
    /\ IF s = "cur"
       THEN /\ GoTo("health")
            /\ held' = p
            /\ handed' = handed \cup {p}
       ELSE UNCHANGED <<pc, att, held, handed>>
    /\ UNCHANGED <<abandoned, released, swapped, unmarked>>

\* The attempt raises or dies.  old' is what becomes of slot "old".
ProvFails(s, old) ==
    /\ IF s = "cur"
       THEN /\ RetryOr("mark_failed")
            /\ prov' = [cur |-> IF LastAttempt THEN Idle ELSE Fresh, old |-> old]
       ELSE /\ prov' = [prov EXCEPT !["old"] = Idle]
            /\ UNCHANGED <<pc, att>>
    /\ UNCHANGED <<held, history>>

\* _load_job_snapshot: is a pod recorded?  An unreadable row counts as no.
ProvCheck(s) ==
    /\ ProvAt(s, "check")
    /\ \/ row.pod_id # NoPod /\ ProvGoTo(s, "probe", row.pod_id)
       \/ (row.pod_id = NoPod \/ DbMayFail) /\ ProvGoTo(s, "stage", NoPod)
    /\ UNCHANGED <<row, pods, enqueued, pc, held, loopVars, att, fin, poller, history>>

\* Re-entry: reuse the recorded pod if GET /health gives 200 ...
ProvReuse(s) ==
    /\ ProvAt(s, "probe")
    /\ Answers(prov[s].pod)
    /\ ProvReturns(s, prov[s].pod)
    /\ UNCHANGED <<row, pods, enqueued, loopVars, fin, poller>>

\* ... otherwise terminate it (an error is logged) and go on to a new one.
ProvDiscardStale(s) ==
    /\ ProvAt(s, "probe")
    /\ KillAttempt(prov[s].pod)
    /\ ProvGoTo(s, "stage", NoPod)
    /\ UNCHANGED <<row, enqueued, pc, held, loopVars, att, fin, poller, history>>

ProvStage(s) ==
    /\ ProvAt(s, "stage")
    /\ \E r \in Swallowing(row, UpdateStage(row)) : row' = r
    /\ ProvGoTo(s, "create", NoPod)
    /\ UNCHANGED <<pods, enqueued, pc, held, loopVars, att, fin, poller, history>>

ProvCreate(s) ==
    /\ ProvAt(s, "create")
    /\ \E p \in Pod :
          /\ pods[p] = "absent"
          /\ pods' = [pods EXCEPT ![p] = "starting"]
          /\ ProvGoTo(s, "record", p)
    /\ UNCHANGED <<row, enqueued, pc, held, loopVars, att, fin, poller, history>>

\* No GPU type has stock in any cloud pool.
ProvNoStock(s) ==
    /\ ProvAt(s, "create")
    /\ ProvFails(s, prov["old"])
    /\ UNCHANGED <<row, pods, enqueued, loopVars, fin, poller>>

ProvRecord(s) ==
    /\ ProvAt(s, "record")
    /\ \E r \in Swallowing(row, UpdatePodId(row, prov[s].pod)) : row' = r
    /\ ProvGoTo(s, "wait", prov[s].pod)
    /\ UNCHANGED <<pods, enqueued, pc, held, loopVars, att, fin, poller, history>>

ProvReady(s) ==
    /\ ProvAt(s, "wait")
    /\ pods[prov[s].pod] = "up"
    /\ ProvReturns(s, prov[s].pod)
    /\ UNCHANGED <<row, pods, enqueued, loopVars, fin, poller>>

\* Poll budget exhausted, or cancelled while polling: the provider terminates
\* the pod it created and the attempt raises.
ProvNotReady(s) ==
    /\ ProvAt(s, "wait")
    /\ KillAttempt(prov[s].pod)
    /\ ProvFails(s, prov["old"])
    /\ UNCHANGED <<row, enqueued, loopVars, fin, poller>>

\* The worker process dies at this point of the attempt, or an await before
\* the pod exists is cancelled.
ProvDies(s) ==
    /\ prov[s].at # "idle"
    /\ ProvFails(s, prov["old"])
    /\ UNCHANGED <<row, pods, enqueued, loopVars, fin, poller>>

\* Heartbeat timeout: the server gives up on an attempt that is still running.
ProvOverrun ==
    /\ Overruns
    /\ pc = "provision" /\ ProvAt("old", "idle")
    /\ ProvFails("cur", prov["cur"])
    /\ UNCHANGED <<row, pods, enqueued, loopVars, fin, poller>>

ProvStepOf(s) ==
    \/ ProvCheck(s) \/ ProvReuse(s) \/ ProvDiscardStale(s) \/ ProvStage(s)
    \/ ProvCreate(s) \/ ProvNoStock(s) \/ ProvRecord(s) \/ ProvReady(s)
    \/ ProvNotReady(s) \/ ProvDies(s)

-----------------------------------------------------------------------------
(* wait_for_worker_health and the bad-host swap.                             *)

HealthOk ==
    /\ pc = "health"
    /\ Answers(held)
    /\ GoTo("poll")
    /\ unreachable' = 0
    /\ UNCHANGED <<row, pods, enqueued, held, swaps, badHosts, uploaded, prov, fin, poller, history>>

\* Mutant: the budget test is off by one.
HealthFailsOffByOne ==
    /\ pc = "health"
    /\ RetryOr(IF badHosts <= MaxBadHost THEN "bad_host_terminate" ELSE "mark_failed")
    /\ UNCHANGED <<row, pods, enqueued, held, loopVars, prov, fin, poller, history>>

HealthFails ==
    /\ pc = "health"
    /\ RetryOr(IF badHosts < MaxBadHost THEN "bad_host_terminate" ELSE "mark_failed")
    /\ UNCHANGED <<row, pods, enqueued, held, loopVars, prov, fin, poller, history>>

\* Mutant: the bad pod is forgotten, not terminated.
BadHostForget ==
    /\ pc = "bad_host_terminate"
    /\ held' = NoPod
    /\ badHosts' = badHosts + 1
    /\ GoTo("provision")
    /\ StartProvisioning
    /\ UNCHANGED <<row, pods, enqueued, swaps, unreachable, uploaded, fin, poller, history>>

\* The bad pod is gone for the workflow; provision again.  The row still
\* names it.
BadHostSwap ==
    /\ pc = "bad_host_terminate"
    /\ pods' = Killed(held)
    /\ released' = released \cup {held}
    /\ held' = NoPod
    /\ badHosts' = badHosts + 1
    /\ GoTo("provision")
    /\ StartProvisioning
    /\ UNCHANGED <<row, enqueued, swaps, unreachable, uploaded, fin, poller,
                   handed, abandoned, swapped, unmarked>>

-----------------------------------------------------------------------------
(* submit_and_poll, seen from the row: what its callbacks write while the    *)
(* pod answers, and the ways it ends.                                        *)

\* _stage_cb / _status_cb of a poller that watches p.
PollCallback(p) ==
    /\ Answers(p)
    /\ \E new \in {UpdateStage(row), TransitionToRunning(row)} :
          \E r \in Swallowing(row, new) : row' = r
    /\ UNCHANGED <<pods, enqueued, pc, held, loopVars, att, prov, fin, poller, history>>

PollProgress == pc = "poll" /\ PollCallback(held)

PollCompletes(up) ==
    /\ pc = "poll"
    /\ Answers(held)
    /\ \E r \in Swallowing(row, SaveResults(row)) : row' = r
    /\ uploaded' = up
    /\ GoTo("finalize")
    /\ UNCHANGED <<pods, enqueued, held, swaps, badHosts, unreachable, prov, fin, poller, history>>

\* The pod-unreachable marker, with budget: same pod, same activity again.
PollUnreachable ==
    /\ pc = "poll"
    /\ unreachable < MaxUnreachable
    /\ unreachable' = unreachable + 1
    /\ UNCHANGED <<row, pods, enqueued, pc, held, swaps, badHosts, uploaded, att, prov, fin, poller, history>>

\* The circuit-breaker or slow-pod marker, with budget.
PollSwap ==
    /\ pc = "poll"
    /\ swaps < MaxSwap
    /\ GoTo("swap_terminate")
    /\ UNCHANGED <<row, pods, enqueued, held, loopVars, prov, fin, poller, history>>

\* Anything else (a failed pipeline, a timeout, a marker with its budget
\* used up, a worker that died before or after the results were saved).
PollFails ==
    /\ pc = "poll"
    /\ row' \in {row, SaveResults(row)}
    /\ RetryOr("mark_failed")
    /\ UNCHANGED <<pods, enqueued, held, loopVars, prov, fin, poller, history>>

\* A heartbeat or start-to-close timeout whose coroutine lives on.
PollOverrun ==
    /\ Overruns
    /\ pc = "poll" /\ poller = NoPod
    /\ poller' = held
    /\ RetryOr("mark_failed")
    /\ UNCHANGED <<row, pods, enqueued, held, loopVars, prov, fin, history>>

OverrunPollerWrites == poller # NoPod /\ PollCallback(poller)

OverrunPollerEnds ==
    /\ poller # NoPod
    /\ poller' = NoPod
    /\ row' \in {row, SaveResults(row)}
    /\ UNCHANGED <<pods, enqueued, pc, held, loopVars, att, prov, fin, history>>

\* The swap proper: terminate, then clear the row's pod_id.
SwapTerminated ==
    /\ pc = "swap_terminate"
    /\ pods' = Killed(held)
    /\ released' = released \cup {held}
    /\ swapped' = swapped \cup {held}
    /\ GoTo("swap_clear")
    /\ UNCHANGED <<row, enqueued, held, loopVars, prov, fin, poller, handed, abandoned, unmarked>>

SwapCleared ==
    /\ pc = "swap_clear"
    /\ \E r \in Swallowing(row, ClearPodId(row)) : row' = r
    /\ held' = NoPod
    /\ swaps' = swaps + 1
    /\ badHosts' = 0
    /\ GoTo("provision")
    /\ StartProvisioning
    /\ UNCHANGED <<pods, enqueued, unreachable, uploaded, fin, poller, history>>

SwapClearAttemptFails ==
    /\ pc = "swap_clear"
    /\ row' \in {row, ClearPodId(row)}
    /\ RetryOr("mark_failed")
    /\ UNCHANGED <<pods, enqueued, held, loopVars, prov, fin, poller, history>>

-----------------------------------------------------------------------------
(* upload_and_finalize, one action per statement that can fail on its own.   *)

FinGoTo(step) == /\ fin' = step
                 /\ UNCHANGED <<pods, pc, held, loopVars, att, prov, poller, history>>

FinMeta ==
    /\ pc = "finalize" /\ fin = "meta" /\ uploaded
    /\ \E r \in Swallowing(row, UpdateMetadata(row, held)) : row' = r
    /\ FinGoTo("simdata")
    /\ UNCHANGED enqueued

\* sim_data_upload_failed is an ordinary error: the attempt is retried.
FinNotUploaded ==
    /\ pc = "finalize" /\ fin = "meta" /\ ~uploaded
    /\ \E r \in Swallowing(row, UpdateMetadata(row, held)) : row' = r
    /\ RetryOr("mark_failed")
    /\ UNCHANGED <<pods, enqueued, held, loopVars, prov, fin, poller, history>>

FinSimData ==
    /\ pc = "finalize" /\ fin = "simdata"
    /\ \E r \in Swallowing(row, UpdateSimData(row)) : row' = r
    /\ FinGoTo("reporting")
    /\ UNCHANGED enqueued

FinReporting ==
    /\ pc = "finalize" /\ fin = "reporting"
    /\ row' = TransitionToReporting(row)
    /\ FinGoTo("enqueue")
    /\ UNCHANGED enqueued

FinEnqueue ==
    /\ pc = "finalize" /\ fin = "enqueue"
    /\ enqueued' = enqueued + 1
    /\ FinGoTo("return")
    /\ UNCHANGED row

FinReturns ==
    /\ pc = "finalize" /\ fin = "return"
    /\ fin' = "meta"
    /\ GoTo("teardown")
    /\ UNCHANGED <<row, pods, enqueued, held, loopVars, prov, poller, history>>

\* An exception (DB, broker), a timeout or a dead worker, at any statement;
\* the next attempt starts over, whatever this one had already done.
FinAttemptFails ==
    /\ pc = "finalize"
    /\ RetryOr("mark_failed")
    /\ fin' = "meta"
    /\ UNCHANGED <<row, pods, enqueued, held, loopVars, prov, poller, history>>

-----------------------------------------------------------------------------
(* The handlers: mark_failed (both of them) and the finally block.           *)

\* Mutant: the except block returns without the finally block.
AfterMarkNoFinally == "done"

AfterMark == IF pc = "pre_failed" THEN "done" ELSE "teardown"

MarkFailedRuns ==
    /\ pc \in {"pre_failed", "mark_failed"}
    /\ \E r \in Swallowing(row, MarkFailed(row)) : row' = r
    /\ GoTo(AfterMark)
    /\ UNCHANGED <<pods, enqueued, held, loopVars, prov, fin, poller, history>>

\* The attempt is lost; its write may have been committed.  Losing the last
\* one raises from the except block, and the finally block still runs.
MarkFailedAttemptFails ==
    /\ pc \in {"pre_failed", "mark_failed"}
    /\ row' \in {row, MarkFailed(row)}
    /\ unmarked' = (unmarked \/ LastAttempt)
    /\ RetryOr(AfterMark)
    /\ UNCHANGED <<pods, enqueued, held, loopVars, prov, fin, poller, handed, abandoned, released, swapped>>

TeardownNothing ==
    /\ pc = "teardown" /\ held = NoPod
    /\ GoTo("done")
    /\ UNCHANGED <<row, pods, enqueued, held, loopVars, prov, fin, poller, history>>

TeardownTerminated ==
    /\ pc = "teardown" /\ held # NoPod
    /\ pods' = Killed(held)
    /\ released' = released \cup {held}
    /\ GoTo("done")
    /\ UNCHANGED <<row, enqueued, held, loopVars, prov, fin, poller, handed, abandoned, swapped, unmarked>>

\* terminate_pod raised or was lost (three call sites, one retry policy).
AfterTerminateFailed == IF pc = "teardown" THEN "done" ELSE "mark_failed"

TerminateAttemptFails ==
    /\ pc \in {"bad_host_terminate", "swap_terminate", "teardown"}
    /\ held # NoPod
    /\ KillAttempt(held)
    /\ RetryOr(AfterTerminateFailed)
    /\ abandoned' = IF LastAttempt THEN abandoned \cup {held} ELSE abandoned
    /\ UNCHANGED <<row, enqueued, held, loopVars, prov, fin, poller, handed, released, swapped, unmarked>>

-----------------------------------------------------------------------------
\* Steps of the workflow and of the attempts it waits for.
Workflow ==
    \/ PreGpuDone \/ PreGpuAttemptFails
    \/ ProvStepOf("cur") \/ ProvOverrun
    \/ HealthOk \/ HealthFails \/ BadHostSwap
    \/ \E up \in BOOLEAN : PollCompletes(up)
    \/ PollUnreachable \/ PollSwap \/ PollFails \/ PollOverrun
    \/ SwapTerminated \/ SwapCleared \/ SwapClearAttemptFails
    \/ FinMeta \/ FinNotUploaded \/ FinSimData \/ FinReporting \/ FinEnqueue
    \/ FinReturns \/ FinAttemptFails
    \/ MarkFailedRuns \/ MarkFailedAttemptFails
    \/ TeardownNothing \/ TeardownTerminated \/ TerminateAttemptFails

\* What happens around it: RunPod, callbacks, attempts that were given up on.
Around ==
    \/ \E p \in Pod : PodReady(p) \/ PodVanishes(p)
    \/ PollProgress
    \/ ProvStepOf("old")
    \/ OverrunPollerWrites \/ OverrunPollerEnds

Next == Workflow \/ Around

\* Every activity has a start-to-close timeout and a bounded retry policy and
\* the Temporal server schedules what is due, so the workflow never waits for
\* ever.  Nothing is assumed about RunPod or about overrun attempts.
Spec == Init /\ [][Next]_vars /\ WF_vars(Workflow)

-----------------------------------------------------------------------------
(* Properties.                                                               *)

\* When the workflow has ended, no pod that provision_pod ever returned to it
\* still runs, unless all attempts to terminate that pod failed: through both
\* swap loops, the reuse check and the except/finally pair.
TeardownComplete ==
    pc = "done" => \A p \in handed \ abandoned : pods[p] \in Dead

\* After a circuit-breaker or slow-pod swap the workflow never works on a pod
\* it has swapped out, although that pod's /health may still answer: this is
\* what clear_pod_id is for.
SwapIsFresh == pc \in {"health", "poll"} => held \notin swapped

\* The same for the bad-host swap (see the findings).
BadHostSwapIsFresh == pc \in {"health", "poll"} => held \notin released

\* When the workflow has ended and its mark_failed was not lost, the job is
\* FAILED, or it is REPORTING with everything the report task needs in place
\* and a message for it on the queue.  No other status is left behind by any
\* combination of retries, swaps and half-done finalization attempts.
SettledWhenDone ==
    (pc = "done" /\ ~unmarked) =>
        \/ row.status = "FAILED"
        \/ row.status = "REPORTING" /\ row.results /\ row.simdata /\ enqueued > 0

\* A report message is only sent while the row is REPORTING: a task that
\* starts at once must not find a row its final UPDATE would not match.
EnqueuedInReporting == [][enqueued' # enqueued => row.status = "REPORTING"]_vars

\* The workflow ends, however often attempts fail.
Termination == <>(pc = "done")

\* The workflow keeps the custody promise.
CustodyOf(p) ==
    IF p = held /\ pc \in {"health", "bad_host_terminate", "poll", "swap_terminate", "finalize"}
    THEN "held"
    ELSE IF p \in released THEN "released"
    ELSE IF p \in abandoned /\ pc = "done" THEN "leaked"
    ELSE IF p \in handed THEN "held" ELSE "free"

Custody == INSTANCE PodCustody WITH Recycle <- TRUE,
                custody <- [p \in Pod |-> CustodyOf(p)], ended <- (pc = "done")

CustodyKept == Custody!Spec

=============================================================================
