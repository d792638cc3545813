# SimSwarm, specified

TLA+ models of SimSwarm from the request that creates a job to the story told
of its result: the job API, the durable workflow that rents a GPU pod, runs a
simulation on it and gives it back, the worker and pipeline on the pod, the
simulation engine with its environments and beliefs, what is extracted from its
log, and the tasks that write the report and clean up after what went wrong.
TLC checks the models on small instances; TLAPS proves the safety properties
that matter most, and one refinement, for instances of any size. Paths below
are relative to the repository; line numbers are those of this commit.

1. [The system](#the-system)
2. [Modules](#modules)
3. [Runs](#runs)
4. [Fairness and timing](#fairness-and-timing)
5. [Proofs](#proofs)
6. [Disagreements between code and text](#disagreements-between-code-and-text)
7. [Not modelled](#not-modelled)
8. [Plan](#plan)

How to run: `tlc -config wf_safety.cfg MCSimWorkflow` (module and configuration
of every run are in `PROJECT.json`), `tlapm SimWorkflow_proofs.tla`.

## The system

    browser -- FastAPI (saas/jobs/api*.py) --start_workflow--> Temporal
                  |  row of simulation_jobs (Postgres)            |
                  |      ^   ^   ^                                v
                  |      |   |   +-- activities <---- SimulationWorkflow
                  |      |   |            |    create/terminate   (saas/workflows)
                  |      |   |            +--> RunPod --> pod: worker_api.py,
                  |      |   |            |                  run_job_v2*.py,
                  |      |   |            +-- HTTP --------> simswarm engine
                  |      |   |            +-- send_task --> broker   |
                  |      |   +-- generate_report_task <------+       v
                  |      +------ detect_stale_jobs    (beat, 15 min) MinIO
                  +------------- cleanup_orphaned_pods (beat, 10 min)

The parts share the job's row, the pods of one RunPod account and two queues.
There is no lock between them. Every write is one `UPDATE ... WHERE`, and the
`WHERE` clause is the only protection against a write that comes late.

| Part | State it keeps | Operations | How it meets the others | What is hard | What makes it correct |
|---|---|---|---|---|---|
| Job row, `saas/jobs/models.py`, `persistence_sync*.py` | status, pod_id, results, sim_data_available, report | one UPDATE per helper, some guarded by status, some not; most helpers swallow exceptions | written by five processes | late and lost writes; unguarded helpers | the outcome of a job is decided once |
| Workflow, `saas/workflows/sim_workflow.py` | locals of `run`, replayed by Temporal: held pod, swap counters | schedules activities; two nested swap loops, an inner unreachable loop, except/finally | activities | attempts that fail half-way, time out and live on; budgets that reset; errors inside handlers | every pod given back; it ends; what it leaves in the row is consistent |
| Provisioning, `activities/provisioning.py`, `gpu/runpod_provider.py` | none but the row's pod_id | reuse or create, record, wait until ready | RunPod, row | crash between create and record; a dying pod that still answers /health | a pod that was swapped out is not handed back |
| submit_and_poll, `activities/pipeline.py`, `saas/jobs/pipeline.py` | counters and windows of one loop | entry check, POST, poll, callbacks, detectors | HTTP to the pod, row | lost requests and replies, pod restarts, re-entry | healthy pods kept, broken ones given up, results kept |
| Worker API, `infra/docker/worker_api.py` | one in-memory job under a lock; result files; objects in MinIO | POST /job, /status, /logs, the pipeline thread, upload | poll loop, pipeline (a subprocess), MinIO | the state dies with the container; POSTs are repeated; uploads fail one by one | one pipeline at a time; what is shown as completed is whole |
| Pipeline, `infra/docker/run_job_v2*.py` | files under /tmp/results | entities, simulation, relations, personas, write | worker, engine | some stages swallow errors, some do not; files of an earlier run | a finished run leaves all its files |
| Report task, `saas/jobs/tasks_report.py` | none but the row | guard, run, retry, save | broker, row, MinIO | at-least-once delivery, duplicates, retries, crashes | no job forgotten; decided once |
| Stale detector, `saas/jobs/stale_detector.py` | a snapshot per pass | query Temporal, fail the row, terminate the pod | row, Temporal, RunPod | acts on old reads | spares running jobs; leaves no job live for ever |
| Orphan cleanup, `saas/jobs/cleanup.py` | a pod list and a row set per pass | judge and terminate each pod | RunPod, row | two reads at different times, lost pod_id writes | spares pods in use; no pod leaks for ever |
| Job API, `saas/jobs/api*.py` | request-scoped transaction | create, retry, draft, edit, launch, share, revoke, delete | starts workflows before it commits | check-then-insert; crash between start and commit; handlers that overlap | no twins one after the other; a visible job has a workflow that runs what it shows |
| Report loop, `saas/jobs/report.py`, `simswarm/report.py` | transcript | LLM turns with tools | report task | turn and time limits | ends with a document or an error |
| Progress stream, `saas/jobs/progress.py` | last event sent | poll the row, send events | browser, row | ends exactly when the job does | every terminal state is announced |
| Engine, `simswarm/engine.py`, `bridge.py` | agents, environments, events, log | rounds of concurrent agents | LLM, environments | interleaving at awaits; a failing agent ends the run; events cleared in the round | an event is heard once; log and environments tell the same story |
| Environments, `simswarm/environments/` | posts and votes; AMM accounts; jobs and money | tool calls, tick, publish | engine | arithmetic, bounds, calls in any order | worth conserved; a post goes viral once |
| Beliefs, `simswarm/belief.py` | positions, trust, exposure memory | update after a round | engine | clamping, the cap | an agent moves towards its peers only |
| Extraction, `simswarm/graph.py`, `extractor_*.py`, `story_signals*.py` | none | functions of the log | engine's log, page, report | each finds posts, votes and rounds in the log in its own way | the tables agree with one another and with the environments |
| Authentication, `saas/auth/` | users, one-time tokens | register, verify, reset | browser | a token used twice, expired | a token works once |
| Storage, `saas/storage/` | objects under sim-data/ | put, presign, download | pod, report task | overwrites | -- |
| Application shell, frontend, docs, migrations, scripts, demos | -- | wiring, text, UI | -- | -- | -- |

The hazards found on the way, each with its line and the properties that cover
it, are in `PROJECT.json` under `hazards`.

## Modules

The modules about jobs extend `JobRow`, which is what the parts
agree on: the row and every UPDATE as an operator from row to row. A statement
whose caller logs and swallows exceptions is used as
`\E r \in Swallowing(row, Op(row)) : row' = r`: the write may be lost and the
caller goes on. With `DbMayFail = FALSE` no write is lost.

**SimWorkflow** -- `SimulationWorkflow.run` and the bodies of its activities,
for one job whose row is committed. `pc` is the activity the workflow waits for, `att` the number of
its attempt; workflow code between two activities is part of the action that
completes the first of them. `RetryOr(l)` is the retry policy: another attempt,
or `l`, where the code goes on when `ActivityError` is raised.

| Code | Actions |
|---|---|
| enrichment, derivation and their except blocks | `PreGpu*` (the failure of either ends the job before there is a pod) |
| `provision_pod` | `ProvCheck` (snapshot of the row), `ProvReuse`, `ProvDiscardStale`, `ProvStage`, `ProvCreate`, `ProvRecord` (on_created), `ProvReady`, `ProvNotReady`, `ProvNoStock`, `ProvDies`: one action per await, since an attempt can die at each |
| `wait_for_worker_health`, bad-host branch | `HealthOk`, `HealthFails`, `BadHostSwap` |
| `submit_and_poll` | `PollProgress` (callbacks), `PollCompletes`, `PollUnreachable`, `PollSwap`, `PollFails`: its ending is nondeterministic here and worked out in the pod-side modules |
| circuit-breaker and slow-pod swap | `SwapTerminated`, `SwapCleared`, `SwapClearAttemptFails` |
| `upload_and_finalize` | `FinMeta` ... `FinReturns`, `FinAttemptFails` at any of them |
| except, finally | `MarkFailed*`, `Teardown*`, `TerminateAttemptFails` |

An attempt that the server has timed out may live on (`Overruns`): slot `"old"`
of `prov` and `poller` are such attempts. Their results are discarded; their
writes to the row and calls to RunPod are not. Pods go through
absent, starting, up, dying, gone; a dying pod may still answer /health through
RunPod's proxy (`Answers`), which is what comments in `sim_workflow.py` say
happens. `Init` is a PENDING row in the table. That a workflow may start before the
commit of its row (`api.py:132-145`, `api_draft.py:167-181`), a DELETE and the
detector do not run beside it: StaleDetector and JobApi have those, with the workflow
reduced to what meets them.

**PodCustody** -- the abstract specification: pods are acquired one at a time,
given back, and all given back at the end. `CustodyKept` is that SimWorkflow
implements it under the mapping `CustodyOf`.

**ReportTask** -- `generate_report_task` under Celery: `queue[r]` counts
undelivered messages that carry `r` retries, `task[w]` is where process `w` is.
`Deliver`, `Ack` and `Die` are at-least-once delivery with `acks_late`; `Check`
is the idempotency guard; `RunTransient` is `self.retry`, which sends the next
message before this one is acknowledged; `RunGivesUp`, `Save`, `SaveFails`,
`PutMd` follow the task's branches; `Unhandled` stands for the exceptions it
does not catch. A report is the process that wrote it, so that two reports can
be told apart. Finalization may have sent several messages (`MaxSent`), because
its attempt can be lost after `send_task`.

**StaleDetector** -- a pass of `detect_stale_jobs`: `LoadLiveJobs` takes the
snapshot and the clock, `NextJob` decides on the age, `Described` /
`NotDescribed` are Temporal's answers, `Mark` and `Kill` the two effects. The
jobs go on between any two of these. They are reduced to what the detector can
see, but include the API's start-before-commit (`CreateStarts`,
`CreateCommits`, `LaunchStarts`, `LaunchCommits`) and the loss of a workflow.

**OrphanCleanup** -- a pass of `cleanup_orphaned_pods`: `GetPods`,
`GetActivePodIds`, then `Judge` and `Terminate` or `TerminateFails` per pod.
`Spared` is the four rules of the code in their order. A pod's age has three
values, since the code compares it with two graces. Workflows create, lose,
reuse, swap and give back pods.

**PodWorker** -- the pod: the worker API with its one job in memory, the
pipeline it starts as a subprocess and the upload of the result files.

| Code | Actions |
|---|---|
| `submit_job` under its lock | `Accepts`, `Conflict`, `AcceptsInVain` (the job is set to running, then an error outside the lock) |
| `run_job_v2*.py`, stage by stage | `WaitForNeo4j`, `ExtractEntities`, `FallbackEntities`, `RunSimulation`, `ExtractRelations`, `RepairRelations`, `EnrichPersonas`, `WriteResults`; each fails, or swallows its errors, as the code's try blocks do |
| `proc.wait(timeout)` | `PipelineTimesOut`, at any stage |
| `_upload_sim_data` | `SkipFile`, `PutFile`, `PutFails` (the object may be there all the same), `FinishPipeline` |
| the container | `PodRestarts`: the memory is gone, the disk is as it was or empty |

A file's content is the number of the pipeline run that wrote it, on disk and
in MinIO. That is what the properties need: whether the files, the chat log and
the flag that reach the client are of one run.

**SubmitPoll** (extends PodWorker) -- `submit_and_poll`, the loop of
`poll_until_complete` and the workflow's re-entry on the same pod: entry query,
POST, polls, failures in a row, the answer of the poll that found the job
completed, and what is saved of it. A request that fails may have arrived.
RunPod's proxy may answer a POST with an empty error (`PostBlankReply`) or send
it a second time (`copy`, `CopyArrives`); the copy comes while the loop is
polling, before the pod has answered another call and before the pipeline is
done, which takes minutes.

**PollWatchdog** -- the stuck watchdog and the slow-pod detector. They see the
pod's round only through the tail of its log, fetched on even polls. The clock goes on
through every poll, whether it is answered or lost: `LogTakes` bounds the time from the
answer of /status (`AskLogs`) to that of /logs (`LogsCome`), `TurnTakes` the time
from there, or from a poll without a log, to the next answer or timeout of /status:
the sleep, the request for the partial chat and the writes of the row included. A log
is judged by the time of its poll's status (`polled`), as the code takes `now_mono`
before it asks for the log. The unit of time is any. The detector's deque of samples
is the set of its pairs of time and round. `slowest` is the longest time the pod has
been at one round so far.

**LlmBreaker** -- the circuit breaker over overlapping tails of the log. The
client in `simswarm/llm.py` logs transient errors and nothing for a call that
succeeds, so the log grows by a line of an error, of a round, or of something
else (`PodLogs`). `Fetch` takes a sample of its tail, or fails. `llmSamples` is
the function from the fetches it still holds to their counts.

**JobApi** -- the handlers of create, retry, draft, edit, launch, share, revoke
and delete, for one user. `req[r]` is where request `r` is: a handler that
awaits something has a place of its own (`start`, `commit`, `link`, `edit`,
`launch`, `mark`, `share`), the others are one step. `CutOff` is a request that
ends at any of them: a lost client, an error, a restart. A start that raised may have
started the workflow. Of the workflow, the report task and the detector it has the
writes that change the row's status, in the order in which they come: `WfHasPod`
(UPDATE of pod_id, which says PROVISIONING whatever was there), `WfRuns`,
`WfReports`, `WfFails`, `ReportIsSaved`, and `IsGivenUp` for the failure written by
report task or detector. Lost writes and attempts that outlive their workflow are left to
SimWorkflow. `overtaken` are the jobs whose commit said PENDING after their
workflow had written. A request is refused or
replied to in the step that decides it. `Listed` is what the jobs page shows.

**EnvironmentBase**, **SocialEnvironment**, **MarketEnvironment**,
**EconomicEnvironment** -- the environments as operators: each handler takes
the environment, the agent and the call, and returns the environment, whether
the call was accepted and the data that the log keeps. Posts are numbered in
the order in which they are written, which stands for their identifiers. Events
are sets, each event with its round. Market and economy compute in whole
numbers, a quotient rounded down: `Exact` names the trades whose quotient is
whole, and the run makes those, since the code's floats round elsewhere. The
proofs allow any trade. A follow takes any string, as `social.py:178-183` does: an
agent's id, or one of `Handles`, which may be a name, an id that nobody has, or the
empty string.

**Beliefs** -- `belief.py` in thousandths: pull of the posts by trust and
confidence, reception of one's own posts, clamps, the exposure cap. The posts of
a round are keyed by their author and their place in the author's answer. Which
hashes the cap drops is left open, as the code iterates over a set.

**Extraction** -- what is computed from the log: nodes and edges of the graph,
top posts, engagement, follows, profiles, trajectories, trades, and the story's
scale, phases, blocs and quotes. Each is the function the code has, over
records with the round, agent, action, arguments, acceptance and data. `StandsFor` is
what the graph makes of a target: an id is itself, a name its bearer, anything else
nobody. `TopPosts` ranks by engagement, then by number in the log, and shows the first
`TopLimit` (20 in the code).

**Engine** (extends the six above) -- `SimulationEngine.run`. A round is
`ObserveRound` (scheduled events, feeds, digests), then a `StepAgent` per agent
in any order the semaphore allows (`InFlight`), then `EndRound` (log, beliefs,
ticks, bridge). The answer's calls are carried out one after another in one
step: there is no await between them. A call carries the arguments its tool's
schema names (the code does not check that); `StrayCalls` calls a tool of an
environment that the run does not have, or of none. `ChatDrops` is a failed attempt to reach
the model; the last of them, and a handler that raises (`ToolRaises`), end the
run with nothing, as the exception leaves `gather`.

| Code | Definitions |
|---|---|
| `inject_scheduled`, observation, digests | `InjectScheduled`, `Digest`, `ObserveRound` |
| `step_agent`, `_find_env_for_action`, memory | `StepAgent`, `Execute`, `FindEnvForAction`, `Remember` |
| `LLMClient.chat`'s attempts | `ChatDrops`, `RunFails` |
| end of the round in `run` | `EndRound`, `ApplyBeliefUpdates`, `TickAll`, `NewEvents` |

The modules compose: SimWorkflow takes the ending of `submit_and_poll` as a
choice that SubmitPoll, PollWatchdog and LlmBreaker work out; SubmitPoll runs
against PodWorker; PodWorker's `RunSimulation` ends as Engine does; Engine runs on
the environments, and Extraction reads its log; ReportTask, StaleDetector,
OrphanCleanup and JobApi meet the workflow in the row and each have the part of it
that they can see. Modules named `*_proofs` hold the proofs about the module
before the underscore; modules named `MC*` its instance for TLC.

Variables marked "history" in the modules exist for the properties; no guard
reads them, but for the fairness condition of ReportTask named below.

## Runs

TypeOK is checked by the runs of the three modules where it says most; for
every module with a run it is proved.

| Run | Instance | What it shows |
|---|---|---|
| wf_safety | 3 pods; the code's swap budgets (1, 1, 2); two attempts where the code allows more; no lost writes, no overruns | After a circuit-breaker or slow-pod swap the workflow never works on a swapped-out pod (`SwapIsFresh`). At its end the job is FAILED, or REPORTING with results, simdata and a message (`SettledWhenDone`). Messages are sent in REPORTING only (`EnqueuedInReporting`). It ends (`Termination`). |
| wf_faults | 2 pods; one swap of each kind; writes may be lost; overruns; two attempts | Every pod handed to the workflow is given back, or all attempts to terminate it failed (`TeardownComplete`), and the whole history of custody is one PodCustody allows (`CustodyKept`). |
| wf_bad_host_reuse | 2 pods, one bad-host retry | violation, see below |
| report_outcome | 2 processes, the code's 5 retries, 1 or 2 messages, 2 crashes, lost writes, unhandled errors, detector, DELETE | The outcome is decided once (`DecidedOnce`), a REPORTING job always has a message or a process (`NeverForgotten`), and leaves REPORTING (`Resolved`). |
| detector_reconciles | 1 job, 2 pods, clock to 3, drafts | The detector fails no job and kills no pod of a running workflow it could identify (`NeverReapsRunning`), and a job whose workflow is over does not stay live (`StaleReconciled`). |
| cleanup_passes | 1 job, 3 pods of which one untagged, lost writes | Cleanup spares pods in use (`NoKillInGrace` for all within the mismatch grace, `NoKillNamed` for those the row names) and orphans go (`OrphansGo`). |
| poll_protocol | 3 result files, one of them never written; 2 upload attempts; 2 container restarts; 5 polls, 3 failures, 1 re-entry | A completed job has all files of its own run (`CompletedIsWhole`); results saved with the flag have them in MinIO, with a chat log of the same run (`SavedIsWhole`). One pipeline at a time (`OnePipeline`), and no POST over finished results (`ResultsNotDiscarded`). The pod is given up only after an outage (`GivesUpOnOutageOnly`), and the activity and its re-entries end (`Termination`). |
| poll_relations | 1 restart, 4 polls, 2 failures, 1 re-entry | violation, see below |
| watch_detectors | stuck threshold 5, window 11, a gate of 2 rounds at 4 a round; a log takes up to 1, a turn 1 or 2; 2 failures in a row; 4 rounds, clock to 14, 2 lost polls, 1 blind fetch | A pod called slow has been too long at some round (`SlowMeansSlow`); stuck means no visible progress for the threshold (`StuckMeansStalled`); a stall is noticed, if no fetch was blind (`StuckIsNoticed`). |
| breaker_tail | tail of 4 lines, window of 2 fetches, 3 samples, rate 60 percent, 6 lines, 5 fetches | The breaker trips only if some tail it still counts was dominated by errors (`DominatedTail`). |
| engine_rounds | 2 agents, 3 rounds, concurrency 1 or 2; social, social with market, market, economic; answers of up to 2 calls; 2 tool calls and lost connections in a run, 3 on the social platform with both agents at work; follows by id, name, and of nobody; a feed of one post | Scheduled events are heard once, in their round (`ScheduledHeardOnce`). Graph and tables computed from the log agree with the environments and with one another (`GraphAgrees`, `TablesAgree`), so does the story (`StoryIsConsistent`). A post goes viral once (`ViralOnce`). Trading makes no money (`WorthConserved`) and the trades in the log explain every portfolio (`TradesExplainPortfolios`). Beliefs move towards what others wrote (`PeersPull`). |
| job_api | 2 requests, 2 contents, 2 jobs, 1 share token; symmetric in requests and contents | Twins come from overlapping requests only (`TwinsOverlapped`). A row at work has its workflow running, unless a late commit made it PENDING (`LiveHasWorkflow`), and the workflow runs the content shown (`RunsWhatItShows`). Every job is listed, itself or by a later retry (`EveryJobIsListed`). Shared jobs are COMPLETED (`SharedIsFinished`). |

Why these bounds are enough:

- *Pods.* RunPod never issues an identifier twice, so an instance that runs out
  of pods only stops provisioning (`ProvNoStock`). With the code's budgets the
  interesting histories need the pod that was swapped out, its replacement and
  one more; wf_faults uses two, since custody concerns one pod and whatever
  else is held. A pod that an overrun attempt creates is one of them.
- *Attempts.* A second attempt is one that finds what an earlier one left; a third
  finds nothing a second could not. The proofs hold for any number.
- *One job.* Jobs share the RunPod account and a pass. Within a pass each job
  (detector) or pod (cleanup) is judged by its own columns, so a second job
  only delays; delay is already any number of steps of the first job between
  two steps of the pass. In cleanup the untagged pod plays the part of pods that
  are nobody's. The proofs hold for any number of jobs.
- *Time.* The detector's budgets keep the code's order (PENDING shortest,
  RUNNING longest, PROVISIONING and REPORTING between) in units that let
  a job be under, at and over each. The clock stops at its bound; by then
  every job is over every budget, so nothing depends on what lies beyond.
- *Watchdog.* The thresholds are scaled down, and nothing is claimed about how far the
  code's own values lie from a healthy pod's pace (see the disagreements). What the
  instance must have is paces on both sides: rounds so long that the detector may call
  the pod slow, and rounds so short that it must not (`PaceAssumption`, which the run
  evaluates). An outage of lost polls, a late log and a blind fetch fit between two
  rounds, and both detectors do end runs of the instance.
- *Poll loop.* Thresholds are scaled down (30 to 3, a tier's polls to 5), with
  room for an outage to begin, break off and begin again before the loop ends.
  Two restarts and a re-entry let files of three runs meet on disk and in
  MinIO. The file that is asked for and never written is
  `market_curves.json`; the order in which files are written and uploaded differs.
- *Crashes.* Two crashes allow one process to die in each of its two deliveries
  or both processes to die once; the proofs below lift this bound.
- *Breaker.* Two fetches whose tails overlap are the least in which a line is
  counted twice; six lines fill a tail and push its first lines out.
- *Engine.* Two agents are the least that can vote, reply, follow and trade against
  each other; with both in flight every order of answers occurs. Three rounds
  are one to write in, one in which it is seen, and one after, and the boundary
  of the story's three phases. A run has few calls, chosen from all the tools of its
  environments, so that every call is met in every place of a run.
  Most rules concern one post or one trade and those that are made of it; the viral threshold
  is 2, and a post with a vote of each agent, or a vote and a repost, passes it.
  The feed of top posts holds one, so that it is cut as soon as there are two. Of the strings
  that are no id, one is a name, one nobody's and one empty.
- *Job API.* Every interleaving of two handlers, each cut off anywhere, with
  the job's workflow going on; a retry needs a second job. Two jobs reach one retry and
  no retry of a retry, and with one token the commit of a second one is not reached:
  for those `EveryJobIsListedTheorem` and `SharedIsFinishedTheorem` stand, which hold for
  any number of jobs and tokens.

## Fairness and timing

- *SimWorkflow*: weak fairness of the workflow's own steps. Every activity has
  a start-to-close timeout and a bounded retry policy and Temporal schedules
  what is due, so some action of the activity at `pc` (success, failure,
  timeout) comes. Nothing is assumed of RunPod, of callbacks or overrun attempts.
- *ReportTask*: processes take messages, executions end (clients have
  timeouts), acknowledgements follow. The detector's effective write is assumed
  only for a job that an unhandled error or a lost write has left (`lost`): otherwise
  `Resolved` must come from the task alone.
- *StaleDetector*: the clock runs, passes go on, and Temporal does not fail
  every single query about a job (strong fairness of `Described`).
- *OrphanCleanup*: passes start, and again and again one is not cut short;
  RunPod does not refuse every termination; pods get older.
- *SubmitPoll*: weak fairness of the client, as every call it makes has a
  timeout. Nothing of the pod, which may hang, restart or never answer.
- *Timing in OrphanCleanup*: `PodAges` waits while a pass runs or a pod is
  between creation and recording. A pass and that gap take seconds; the graces
  are ten and thirty minutes. Without this no property of a grace could hold.
- *Timing in JobApi*: `recent` ends by a step of its own, at any time; a workflow does
  not come to its report while the handler that launched it is under way, as a
  simulation takes longer than a request.
- *Timing in SubmitPoll*: the proxy repeats a POST within seconds, a pipeline
  takes minutes.
- Engine, JobApi, PollWatchdog and LlmBreaker have safety properties only.

## Proofs

The modules `*_proofs` prove, for every value of the constants (any sets of
pods, jobs, requests or processes, any budgets, retry policies, thresholds and
files, lost writes and overruns included unless said otherwise), from the named
assumptions in the modules and nothing else:

| Module | Theorems | State |
|---|---|---|
| SimWorkflow_proofs | `TypeTheorem` | type correctness; the three swap budgets are never exceeded |
| | `TeardownTheorem` | `TeardownComplete` |
| | `SwapIsFreshTheorem`, `SettledWhenDoneTheorem`, `EnqueuedInReportingTheorem` | the properties of these names, without overruns and lost writes (`Calm`) |
| | `CustodyTheorem` | SimWorkflow implements PodCustody |
| ReportTask_proofs | `TypeTheorem`, `NeverForgottenTheorem`, `DecidedOnceTheorem` | type correctness, no message exceeds MaxRetries; `NeverForgotten`; `DecidedOnce`, an action property |
| StaleDetector_proofs | `TypeTheorem`, `NeverReapsRunningTheorem` | type correctness; `NeverReapsRunning`, an action property |
| OrphanCleanup_proofs | `TypeTheorem`, `NoKillNamedTheorem`, `NoKillInGraceTheorem` | type correctness; both action properties |
| SubmitPoll_proofs | `TypeTheorem`, `OutageTheorem`, `CompletedTheorem`, `SavedTheorem`, `OnePipelineTheorem`, `ResultsTheorem` | type correctness and every safety property of its run |
| PollWatchdog_proofs | `TypeTheorem`, `StuckMeansStalledTheorem`, `StuckIsNoticedTheorem`, `SlowMeansSlowTheorem` | type correctness and every property of its run |
| | `BreakerTypeTheorem`, `DominatedTailTheorem` | of LlmBreaker: type correctness and `DominatedTail` |
| JobApi_proofs | `TypeTheorem`, `LiveHasWorkflowTheorem`, `RunsWhatItShowsTheorem`, `SharedIsFinishedTheorem`, `TwinsOverlappedTheorem`, `EveryJobIsListedTheorem` | type correctness and every property of its run |
| Engine_proofs | `TypeTheorem` | type correctness of the engine and its environments: posts reply to older posts, feeds show posts that exist, beliefs in their ranges, seen and remembered texts under their caps |
| | `ScheduledHeardOnceTheorem`, `ViralOnceTheorem`, `WorthConservedTheorem`, `TradesExplainPortfoliosTheorem`, `GraphAgreesTheorem`, `TablesAgreeTheorem`, `StoryIsConsistentTheorem` | the invariants of these names: every invariant of its run |
| | `PeersPullTheorem` | `PeersPull`, an action property |

*SimWorkflow.* `TeardownComplete` speaks of the end only. What is inductive is
`IInv`, the conjunction of `TypeOK`; `NamesExist` (a pod that the row, an
attempt or the history names has been created, so "absent" pods are new);
`ProvNames` (a provisioning attempt that probes, records or waits has a pod);
`BudgetLeft` (a swap is only begun with a swap left in its budget, so the
counters stay in their types); and `Accounted` (every pod ever handed out is
dead, abandoned, or the one held, and none is held where the workflow is about
to provision). The step lemma has one case per action; each case that hands
out, terminates or drops a pod shows which disjunct of `Accounted` takes over.
Without overruns and lost writes `CalmInv` is inductive on top of it:
`NoStrays` (the slots of old attempts are empty), `OnFreshPod` (while the workflow works
towards a result, row, attempt and workflow name no pod that was swapped out) and `InStep` (what the row holds
at each place of the workflow).

*PodCustody.* The mapping reads custody off `pc`, the pod in hand and the
swapped-out pods. `RInv` adds `Returned` to `IInv`: a pod that was given back
is not the one in use. Each step of SimWorkflow is of one of five kinds
(`GoesOn`, `Acquires`, `GivesBack`, `Forgets`, `Ends`), and each kind is a step
of the promise or a stutter; `View` says what the mapping shows in each place.

*ReportTask.* `NeverForgotten` is made inductive by `SavedIsOver`: once a
process has been through its save, the row is no longer REPORTING. Then a
REPORTING row has its message in the queue, or in a process at check, run or
save; each step of such a process hands the obligation on (retry puts a
message, death puts it back, save and failure leave REPORTING). `DecidedOnce`
follows from the WHERE clauses and the guards of the steps, given the type
invariant.

*StaleDetector.* The snapshot may be old, so the invariant says what of it is
still true. The pods ever remembered as a job's, by its row, its workflow or the
snapshot, are `Mine`; `Apart` says that no two jobs share one, so the pod that
the pass terminates is nobody else's; and an identified job that the pass is about to fail has had
its workflow found over, and it stays over.

*OrphanCleanup.* `RecordedLate` is the heart: a live row that names a pod the
pass has not read was written during the pass, for a pod created just before, so
that its age spares it. `KillOK` carries the verdict of `Judge` to `Terminate`.

*SubmitPoll.* `IInv` is `TypeOK`, `PodInv`, `Counters` and `ClientInv`. `PodInv`
ties the pod's state to the pipeline's place: `RunWritten` (from the upload on,
all outputs are of the current run), `NothingElse` (only outputs are ever on disk,
and only those that have an upload URL in MinIO) and `Ledger`, which says that the number of uploads
counted is the size of a set of files that MinIO holds in their current form;
with the number of files that exist, it makes the flag mean what it says.

*PollWatchdog.* `Remembered` (a round the watchdog counts as progress is no older
than the highest one the logs have shown), `Armed` (with no blind fetch the two
agree), `Awaits` (the answer awaited comes in its time) and `Timely` (the next one
comes before the threshold, one log and the turns lost are up) bound the age of the
last progress: the loop is over when it exceeds the threshold by
`LogTakes + MaxFailures * TurnTakes`. `SlowMeansSlow` is about the other detector and
needs no assumption on the pace: `TooLong(d)` says when a pod with a round of length d
may be called slow, which is a function of gate, rate and the lateness of a log.
Lost polls, blind fetches and the window do not enter, as the oldest and the newest
sample both name a round and a time. `PaceInv` has `Answers` (polls and logs come in time)
and `Paced`: each sample bounds when the pod began the round it is in (`InTime`), since
from the sample's round on no round took longer than `slowest`. In seconds, with 15 for a
log that is late: on the small and medium tiers (4 rounds of 200 s) a pod that is never
longer than 157 s at a round is not called slow, on the large one (150 s) no pod that is
never longer than 117 s.

*LlmBreaker.* The breaker opens on a sum over samples. If the weighted sum of
errors exceeds that of lines, one of its terms does (`DominatedTail`); each
sample still held has the counts of its tail, since the log only grows.

*JobApi.* `PlaceOK` says what each place of a handler entitles it to, `JobOK`
relates row, card and workflow, `Served` is `LiveHasWorkflow` before the row is there
as well as after, `Alone` that an identifier just drawn is one
request's, `Apart` that a launch that is not blurred has the draft for itself, and
`FreshOK` that the content of a job about to be inserted is one that no job it saw
claims (`Claims`). Together with `TypeOK` they are inductive; there is a lemma per
action. `EveryJobIsListed` follows a job to a retry of it, to a retry of that one,
and so on: identifiers grow along the chain, so of the visible ones there is a
last, and the last is listed.

*Engine.* `ControlInv` (phase, round, who has acted, attempts below the limit)
is inductive alone. On it rest `HeardInv` (nothing is pending between rounds, and
the digest of round n is what is due in it), `WorldInv` (the state of each
environment, with the sums that `WorthConserved` names; what the agents were
shown), and on these `ViralInv` (published viral events and viral posts match one
to one, and no event is of a later round), `BeliefInv` and `MemoryInv`. A turn is
a recursion over the calls of an answer (`Unfolded`): a property that each call
keeps is kept by the turn, by descent on the number of calls. Totals are folds
over sets that take out members in an order nobody knows; `Sum`'s lemmas show
that the order does not matter and what the change of one term does to the total.
A trade is worth nothing on balance whatever its quotient is rounded to, because
what leaves a reserve is what the trader is paid; that it leaves nobody in debt
needs the guard of each handler. `TradesExplainPortfolios` speaks of the times
between rounds; what is inductive is `LedgerInv`, that in mid-round the log and
the records of the round together explain every portfolio, and that a pool which
has moved has an accepted trade in one of them. Each call of an answer adds one
record and changes the portfolio by what that record says, and at the end of the
round the records, agent after agent, are appended to the log: both are
statements about sums over indices (`TotalJoined`, `RoundTotals`), proved by
descent on the length.

`GraphAgrees`, `TablesAgree` and `StoryIsConsistent` compare what Extraction
computes from the whole log with the social platform, between rounds. What is
inductive is `ReportInv`. An accepted call is a deed: a post or a reply written (by
whom, under which id, in which round or under which post), a vote, a repost, a
follow. `Tally` is how often a list of records tells of a deed, and `Told` that log
and records of the round together tell of each post, reply and vote exactly once
when the platform has it and else never, of as many reposts as it counts, and of a
follow if and only if it holds. Each call appends one record and does what
the record tells (`SocialTold`), so a turn keeps it (`ReportAnswer`); the end of a
round only moves the records into the log. `AllFine` adds what the extractors lean on
without checking: a vote, reply or repost names a post and no agent, and with the
platform in the run no post is refused, and a reply or repost only when the id it
names is no post's (ids are uuids: one that an agent makes up is never given to a
later post either); a follow names an agent argument and no post. The platform keeps the
string that was followed and the graph the agent it stands for: `GraphAgrees` says that
there is an edge from one agent to another exactly when the platform holds a target of the
first that stands for the second. `LogTells` is the case between rounds. From it the
three are counting: a record pairs off with what it left (`Paired`), an edge's weight
with votes, replies or follows, a post's shares with its reposts and replies. That cards,
trajectories and nodes count each record once is the fibre lemma (`Fibres`), an
induction over finite sets. The feed of top posts is cut at its limit: the posts ahead
of a post, which are ranked by engagement and place, have no gap, and so there are as many
posts with fewer than `TopLimit` ahead of them as the limit allows (`FirstsCounted`), and
none left out is ahead of one that is shown (`FirstsLead`). The story needs less, that records are dated and their
agents known: the phases share out the rounds for any number of them
(`PhaseHolds`), and the quotes are an induction over the groups (`PickedUpTo`).

`PeersPull` needs that the pull of a post has the sign
of its stance's distance to the position and that the clamp keeps to the range.

Two things the prover lacks are got round in the same way in all of these.
Induction is by descent: a set of counterexamples in which each has a smaller one
is empty (`WFMin` of the library, or the least element of a set of numbers). And
functions that a recursion defines are used through their equation only.

Only model-checked: everything under fairness (`Termination`, `Resolved`,
`StaleReconciled`, `OrphansGo`), since the prover has neither ENABLED nor
fairness. Every safety property of a passing run, invariant or action property,
is also a theorem.

## Disagreements between code and text

Checked by a run that must find the violation:

1. *wf_bad_host_reuse.* The bad-host branch (`sim_workflow.py:138`) terminates
   and provisions again without `clear_pod_id`; the reuse check can return the
   pod just terminated. The text promises a fresh host, and lines 199-204
   describe this very race for the other swap.
2. *poll_relations.* "On failure we keep the interaction-only graph rather than
   failing the whole job" (`run_job_v2_runner.py:132-133`), but only
   `RelationExtractionError` is caught: a lost connection to the model ends the
   pipeline and a finished simulation is not written.

Met while modelling and reflected in the models or in conditions of the
properties, without a run of their own.

Jobs, report, cleanup:

- Two messages for one job are executed twice if they overlap: the guard of
  `generate_report_task` looks at terminal statuses only. The outcome is still
  decided once.
- Errors outside its except clauses leave the row in REPORTING until the
  detector's turn (`Unhandled`).
- A row whose launch is not committed has no workflow id; the detector fails it
  although its workflow runs. Hence `Identified` in `NeverReapsRunning`.
- The detector compares the budget of the present phase with the age of the job
  (`stale_detector.py:154`), not with the time in the phase.
- If the write of pod_id was lost, the tag protects the pod for the mismatch
  grace only, then cleanup terminates a pod at work. Hence two properties.
- `clear_pod_id` swallows its error: when the write is lost, a circuit-breaker swap, too, may get
  the old pod back. Hence `DbMayFail = FALSE` in wf_safety and `Calm` in the proofs.
- A draft edited while it is launched shows other content than its workflow
  runs, and `launch_draft` looks for no duplicates. Hence `blurred`, and `draft`
  in `TwinsOverlapped`.
- Create and launch commit PENDING whatever the workflow has written by then
  (`api.py:145`, `api_draft.py:180`): a workflow that failed first leaves a row that waits
  for nothing until the detector finds it. Hence `overtaken` in `LiveHasWorkflow`.
- Two overlapping requests to share leave the first link dead. A retry does not
  carry `enrich_web` over. DELETE does not cancel the workflow.
- The progress stream compares statuses with lower-case words (`progress.py:36`)
  and `JobStatus` has upper-case ones: it does not end by itself.
- The report loop's texts say five turns (`saas/jobs/report.py:51`), its constant is 10.

Pod and poll loop:

- A lost entry query skips the POST; a pod that never got the job answers "idle"
  to every poll until the timeout, where the comment
  (`activities/pipeline.py:103-105`) expects recovery or a trip.
- `submit_job` sets "running" under the lock and can raise after it
  (`AcceptsInVain`): the worker then runs nothing until its container restarts.
- The breaker's rate is of log lines, and successful calls leave none, so it
  can trip when most calls succeed; its window counts a line once per fetch that saw it.
- A fetch that shows no round disarms the watchdog until the next round line,
  which then counts as progress. Hence `blind = 0` in `StuckIsNoticed`.
- The slow-pod detector needs two rounds within its window before it judges, so
  the slowest pods are left to the stuck watchdog.
- The loop tolerates 29 lost polls of up to 25 s, some 725 s, which exceeds the stuck
  thresholds of the small and medium tiers (300 and 600 s, `saas/constants/tiers.py:16`):
  after an outage a healthy pod may be given up as stuck, and the number of polls
  lost in all has no limit. `StuckMeansStalled` therefore speaks of progress that was visible.
- The database writes between two polls have no timeout; `LogTakes` and `TurnTakes` take it
  that they return.
- Watchdog and breaker raise before they look at a status that says completed.
- Rounds of 100 to 200 s are what `saas/constants/tiers.py:15` calls typical of the medium and
  large tiers; the rate required of the large one is a round in 150 s, that of the
  others one in 200 s. Such pods may be called slow, and `TooLong` says so.
- `partial_chat` prefers a final chat log that an earlier run left to the partial one
  of the run under way.
- `market_curves.json` has an upload URL and is produced by nobody.

Engine and extraction:

- Events that environments publish are never heard: the bridge receives them at
  `engine.py:150` and is cleared at `engine.py:163`, before the next digests.
  `docs-site/docs/engine/architecture.md:89-90` has them "for next round's digests".
  `bridge._format_event` also looks for keys that a `price_move` does not have.
- One malformed argument raises in the handler, leaves `step_agent` and `gather`, and the
  run is lost (`ToolRaises`); `LLMClient.chat` does not look at the HTTP status,
  so an error reply is an empty answer.
- Beliefs are updated in the round of the posts, when nobody has seen them: likes
  and dislikes move neither influence nor confidence, against
  `belief.py:9-10`. Trust is documented by agent id (`types.py:16`) and kept by name.
- The cap drops "the oldest hashes first" (`belief.py:99`) from a set, which has no order.
- A follow that names an agent by its name is an edge of the graph
  (`graph.py:256-261`), but the feed's ranking looks for author ids among what
  the platform stored (`social.py:192-198`): such a follow has no effect in the simulation. A follow of
  an id that nobody has succeeds too.
- Extraction takes a vote without a value for a dislike, the environment for a like;
  top posts count refused votes, and the graph takes a value of 0 for a like.
- `_engagement_for_post` looks for actions and targets the engine never writes,
  so it is always 0. Replies are not searched for mentions.
- Economic agents start with nothing and are enrolled without money, so only
  negative amounts can be invested at first; handlers take negative amounts.
- Names that have one slug become one entity.

## Not modelled

- Columns of the row nothing decides on (live_status, heartbeat, enrichment,
  markets, credits), wording, logging, metrics, alerts.
- Inside the activities: choice of GPU type and cloud pool, command lines,
  presigned URLs, enrichment and market derivation (single model calls).
- The report's tool loop is one step of ReportTask with its four outcomes. Its
  transcript lives and dies with the call.
- The progress stream: it writes nothing, and what is wrong with it shows without a model.
- Authentication: single-row reads and writes of one request each, apart from
  the job machinery.
- `run_sweep`, which runs the engine several times and averages; the hot score that
  orders the feed; trades whose quotient is not whole.
- The texts: topics, quotes' wording, mentions by spelling, personas, stance
  scoring. A text is a member of a small set with its stance, class and mentions.
- The legacy runner (`saas/jobs/runner.py`), no longer called.
- Application shell, frontend, documentation, migrations, scripts, demos.

## Plan

Order of work, most important first. Done: steps 1 to 10.

1. Row and workflow, with PodCustody as its abstract specification.
2. Report task.
3. Detector and cleanup.
4. Poll loop, watchdog, breaker.
5. The pod: worker, pipeline, upload; the poll loop against it.
6. The job API.
7. Engine, environments, beliefs; extraction against them.
8. Proofs: the refinement, and the safety properties of steps 1 to 6.
9. Proofs: the watchdog's two detectors, the breaker, the list of jobs, and the engine
   with its environments, beliefs and trades.
10. Proofs: *GraphAgrees*, *TablesAgree* and *StoryIsConsistent*, from an account of
   the accepted records like the one of the trades.
11. *SimSystem*: SimWorkflow, ReportTask and the two beat tasks over one row, with
   an abstract *JobLifecycle* specification (draft, live, decided, deleted) that
   each of them implements. Today each module has the others' writes as steps of
   its own.
12. A refinement of the engine: rounds in which agents act one after another.
13. *AuthTokens*, *ReportLoop*, *ProgressStream*.

Runs stay few: a new module gets one run for what holds, and shares instances
where it can; runs for disagreements are kept only for the weightiest.
