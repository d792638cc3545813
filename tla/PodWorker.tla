----------------------------- MODULE PodWorker -----------------------------
(***************************************************************************)
(* The worker API of one pod (infra/docker/worker_api.py) and the pipeline *)
(* it runs as a subprocess (run_job_v2*.py): entities, simulation,         *)
(* relations, personas, result files; then the worker uploads the files.   *)
(* Every file carries the number of the pipeline run that wrote it.        *)
(***************************************************************************)
EXTENDS Naturals, Sequences, FiniteSets

CONSTANTS Files,           \* the keys of upload_urls, in order (SIM_DATA_FILES)
          Written,         \* the files write_results writes, in order
          ChatLog,         \* the one of them that /status returns
          UploadAttempts,  \* attempts_per_file
          MaxRestarts      \* bound: how often the pod's container restarts

FileNames == {Files[i] : i \in DOMAIN Files} \cup {Written[i] : i \in DOMAIN Written}

\* The upload URLs are the keys of a dictionary: each name once.
ASSUME PodAssumption ==
    /\ Files \in Seq(FileNames) /\ Written \in Seq(FileNames)
    /\ \A i, j \in DOMAIN Files : Files[i] = Files[j] => i = j
    /\ \E i \in DOMAIN Written : Written[i] = ChatLog
    /\ UploadAttempts \in Nat \ {0} /\ MaxRestarts \in Nat

VARIABLES
    worker,    \* _job["status"]
    result,    \* _job["result"]: the run its chat log is of, the upload's outcome
    starts,    \* history: has POST /job been accepted since the pod's start
    restarts,
    run,       \* how many pipelines have been started
    stage,     \* where the pipeline is
    files,     \* /tmp/results: the run each file is of, 0 for none
    stored,    \* the same, of the objects in MinIO
    file, attempt, uploaded,  \* the locals of _upload_sim_data
    why        \* history: where the last pipeline that failed did

podVars == <<worker, result, starts, restarts, run, stage, files, stored,
             file, attempt, uploaded, why>>

NoResult == [chat |-> 0, simdata |-> FALSE]
WorkerStatus == {"idle", "running", "completed", "failed"}
Subprocess == {"wait", "entities", "fallback", "simulation",
               "relations", "repair", "personas", "write"}
Produced == {f \in {Files[i] : i \in DOMAIN Files} : files[f] # 0}

PodTypeOK ==
    /\ worker \in WorkerStatus
    /\ result \in [chat : Nat, simdata : BOOLEAN]
    /\ starts \in BOOLEAN /\ restarts \in 0..MaxRestarts
    /\ run \in Nat /\ stage \in Subprocess \cup {"none", "upload"}
    /\ files \in [FileNames -> 0..run] /\ stored \in [FileNames -> 0..run]
    /\ file \in 1..Len(Files) + 1 /\ attempt \in 0..UploadAttempts - 1
    /\ uploaded \in 0..Len(Files)
    /\ why \in Subprocess \cup {"none", "timeout"}

PodInit ==
    /\ worker = "idle" /\ result = NoResult /\ starts = FALSE /\ restarts = 0
    /\ run = 0 /\ stage = "none"
    /\ files = [f \in FileNames |-> 0] /\ stored = [f \in FileNames |-> 0]
    /\ file = 1 /\ attempt = 0 /\ uploaded = 0 /\ why = "none"

-----------------------------------------------------------------------------
(* POST /job.                                                                *)

\* Under the worker's lock.
Takes(next) ==
    /\ worker' = "running" /\ result' = NoResult /\ starts' = TRUE
    /\ run' = run + 1 /\ stage' = next
    /\ UNCHANGED <<restarts, files, stored, file, attempt, uploaded, why>>

\* Mutant: a pipeline that runs does not keep another from being started.
AcceptsAnyway == Takes("wait")

Accepts == worker # "running" /\ Takes("wait")

Conflict == worker = "running" /\ UNCHANGED podVars

\* The log file or the thread cannot be made: the worker says it is running,
\* and nothing runs.
AcceptsInVain == worker # "running" /\ Takes("none")

-----------------------------------------------------------------------------
(* The subprocess.  It ends in the last stage with exit code 0, or with an   *)
(* exception that leaves main().                                             *)

GoTo(next) ==
    /\ stage' = next
    /\ UNCHANGED <<worker, result, starts, restarts, run, files, stored,
                   file, attempt, uploaded, why>>

Fails(reason) ==
    /\ worker' = "failed" /\ stage' = "none" /\ why' = reason
    /\ UNCHANGED <<result, starts, restarts, run, stored, file, attempt, uploaded>>

\* Mutant: the exit code is not looked at.
DiesUnnoticed ==
    /\ stage' = "upload" /\ file' = 1 /\ attempt' = 0 /\ uploaded' = 0
    /\ UNCHANGED <<worker, result, starts, restarts, run, files, stored, why>>

Dies == Fails(stage) /\ UNCHANGED files

WaitForNeo4j == stage = "wait" /\ (GoTo("entities") \/ Dies)

\* The model's list of entities; whatever goes wrong with it is caught.
ExtractEntities ==
    /\ stage = "entities"
    /\ GoTo("simulation") \/ GoTo("fallback")

\* The capitalised words of the seed, at least one.
FallbackEntities == stage = "fallback" /\ GoTo("simulation")

\* Engine.run; module Engine has it.  Without posts no relations are asked for.
RunSimulation ==
    /\ stage = "simulation"
    /\ GoTo("relations") \/ GoTo("personas") \/ Dies

\* The answer is a list, or empty, or is not understood and asked for again;
\* the call may also fail.
ExtractRelations ==
    /\ stage = "relations"
    /\ GoTo("personas") \/ GoTo("repair") \/ Dies

RepairRelations == stage = "repair" /\ (GoTo("personas") \/ Dies)

\* Every error is caught.
EnrichPersonas == stage = "personas" /\ GoTo("write")

WrittenUpTo(n) ==
    files' = [f \in FileNames |-> IF \E i \in 1..n : Written[i] = f THEN run ELSE files[f]]

WriteResults ==
    /\ stage = "write"
    /\ \/ /\ WrittenUpTo(Len(Written))
          /\ stage' = "upload" /\ file' = 1 /\ attempt' = 0 /\ uploaded' = 0
          /\ UNCHANGED <<worker, result, starts, restarts, run, stored, why>>
       \/ \E n \in 0..Len(Written) - 1 : WrittenUpTo(n) /\ Fails("write")

\* proc.wait times out; the subprocess is killed first.
PipelineTimesOut ==
    /\ stage \in Subprocess
    /\ Fails("timeout") /\ UNCHANGED files

-----------------------------------------------------------------------------
(* The upload, by the worker's thread: each file that exists, some attempts. *)

Uploading == stage = "upload" /\ file <= Len(Files)
Exists == files[Files[file]] # 0

NextFile ==
    /\ file' = file + 1 /\ attempt' = 0
    /\ UNCHANGED <<worker, result, starts, restarts, run, stage, files, why>>

SkipFile ==
    /\ Uploading /\ ~Exists
    /\ NextFile /\ UNCHANGED <<stored, uploaded>>

Stores == stored' = [stored EXCEPT ![Files[file]] = files[Files[file]]]

PutFile ==
    /\ Uploading /\ Exists
    /\ Stores /\ uploaded' = uploaded + 1
    /\ NextFile

\* An error or a lost reply: the object may be there nevertheless.
PutFails ==
    /\ Uploading /\ Exists
    /\ Stores \/ UNCHANGED stored
    /\ UNCHANGED uploaded
    /\ IF attempt + 1 = UploadAttempts THEN NextFile
       ELSE /\ attempt' = attempt + 1
            /\ UNCHANGED <<worker, result, starts, restarts, run, stage, files, file, why>>

\* Mutant: one file is enough.
UploadedAny == uploaded > 0

UploadedAll == uploaded = Cardinality(Produced) /\ uploaded > 0

FinishPipeline ==
    /\ stage = "upload" /\ file > Len(Files)
    /\ worker' = "completed" /\ stage' = "none"
    /\ result' = [chat |-> files[ChatLog], simdata |-> UploadedAll]
    /\ UNCHANGED <<starts, restarts, run, files, stored, file, attempt, uploaded, why>>

PipelineStep ==
    \/ WaitForNeo4j \/ ExtractEntities \/ FallbackEntities \/ RunSimulation
    \/ ExtractRelations \/ RepairRelations \/ EnrichPersonas \/ WriteResults
    \/ PipelineTimesOut
    \/ SkipFile \/ PutFile \/ PutFails \/ FinishPipeline

\* The container restarts: the worker keeps its state in memory only; of the
\* disk's contents nothing is known.
PodRestarts ==
    /\ restarts < MaxRestarts
    /\ worker' = "idle" /\ result' = NoResult /\ starts' = FALSE
    /\ restarts' = restarts + 1
    /\ stage' = "none" /\ why' = "none"
    /\ files' \in {files, [f \in FileNames |-> 0]}
    /\ file' = 1 /\ attempt' = 0 /\ uploaded' = 0
    /\ UNCHANGED <<run, stored>>

=============================================================================
