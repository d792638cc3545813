------------------------- MODULE SubmitPoll_proofs -------------------------
(***************************************************************************)
(* What holds between the client and the pod for any files, any number of  *)
(* polls, failures, re-entries and container restarts.                     *)
(*                                                                         *)
(* The argument has two halves.  PodInv is about the pod alone: something  *)
(* runs only while the worker says so, the files of a run that is through  *)
(* its last stage are its own, and Ledger accounts for the upload: the     *)
(* files counted as uploaded are as many different ones, all in MinIO.     *)
(* ClientInv is about the activity: while it is about to POST the worker   *)
(* has neither a pipeline nor results, and what it is about to save is     *)
(* the result of a worker that will not touch MinIO any more.              *)
(***************************************************************************)
EXTENDS SubmitPoll, FiniteSetTheorems, TLAPS

Uploads == {Files[i] : i \in DOMAIN Files}
Outputs == {Written[i] : i \in DOMAIN Written}

\* The files of the present run are all there, whatever was there before.
RunWritten == run > 0 /\ \A f \in Outputs : files[f] = run

\* Nothing else is ever written, or stored.
NothingElse ==
    \A f \in FileNames : /\ files[f] # 0 => f \in Outputs
                         /\ stored[f] # 0 => f \in Outputs \cap Uploads

\* The names that the upload has been through.
Before(n) == {Files[i] : i \in 1..n - 1}

Counted(put) == /\ Cardinality(put) = uploaded
                /\ \A f \in put : files[f] # 0 /\ stored[f] = files[f]

Ledger == stage = "upload" => \E put \in SUBSET Before(file) : Counted(put)

\* MinIO has the files of the run whose chat log r has, if r says so.
Whole(r) ==
    r.simdata => /\ r.chat # 0
                 /\ \A f \in FileNames : stored[f] \in {0, r.chat}
                 /\ \A f \in Uploads \cap Outputs : stored[f] = r.chat

PodInv ==
    /\ PodTypeOK
    /\ uploaded < file
    /\ stage # "none" => worker = "running" /\ run > 0
    /\ stage = "upload" \/ worker = "completed" => RunWritten
    /\ worker = "completed" => result.chat = run /\ Whole(result)
    /\ NothingElse
    /\ Ledger

Counters ==
    /\ at \in {"entry", "post"} => polls = 0 /\ failures = 0
    /\ at = "poll" => polls < MaxPolls /\ failures < MaxFailures
    /\ failures <= outage
    /\ at = "unreachable" => failures >= MaxFailures

ClientInv ==
    /\ at = "post" => worker \in {"idle", "failed"}
    /\ at \in {"save", "returned"} => stage = "none" /\ Whole(answer)
    /\ saved = IF at = "returned" THEN answer ELSE NoResult

IInv == TypeOK /\ PodInv /\ Counters /\ ClientInv

-----------------------------------------------------------------------------
LEMMA Names ==
    /\ Len(Files) \in Nat /\ DOMAIN Files = 1..Len(Files)
    /\ Len(Written) \in Nat /\ DOMAIN Written = 1..Len(Written)
    /\ Uploads \in SUBSET FileNames /\ Outputs \in SUBSET FileNames
    /\ ChatLog \in Outputs
    /\ UploadAttempts \in Nat \ {0} /\ MaxRestarts \in Nat
    /\ MaxPolls \in Nat \ {0} /\ MaxFailures \in Nat \ {0} /\ MaxUnreachable \in Nat
<1>1. Len(Files) \in Nat /\ DOMAIN Files = 1..Len(Files)
  BY PodAssumption
<1>2. Len(Written) \in Nat /\ DOMAIN Written = 1..Len(Written)
  BY PodAssumption
<1>3. Uploads \in SUBSET FileNames /\ Outputs \in SUBSET FileNames
  BY DEF Uploads, Outputs, FileNames
<1>4. ChatLog \in Outputs
  BY PodAssumption DEF Outputs
<1> QED
  BY <1>1, <1>2, <1>3, <1>4, PodAssumption, PollAssumption

\* What is said of the files that both lists name, by their places.
LEMMA WholeByPlace ==
    ASSUME NEW r, Whole(r), r.simdata
    PROVE  \A i \in DOMAIN Files, j \in DOMAIN Written :
              Files[i] = Written[j] => stored[Files[i]] = r.chat
BY DEF Whole, Uploads, Outputs

\* The files that the upload has been through are finitely many.
LEMMA BeforeFinite ==
    ASSUME NEW n \in 1..Len(Files) + 1
    PROVE  /\ IsFiniteSet(Before(n)) /\ Before(n) \in SUBSET Uploads
<1>1. n \in Nat /\ n - 1 \in Nat /\ 1..n - 1 \in SUBSET DOMAIN Files
  BY Names
<1>2. Before(n) \in SUBSET Uploads
  BY <1>1 DEF Before, Uploads
<1>3. IsFiniteSet(1..n - 1)
  BY <1>1, FS_Interval
<1> DEFINE place == [i \in 1..n - 1 |-> Files[i]]
<1>4. place \in Surjection(1..n - 1, Before(n))
  BY DEF Surjection, Before
<1>5. IsFiniteSet(Before(n))
  BY <1>3, <1>4, FS_Surjection
<1> QED
  BY <1>2, <1>5

\* The file the upload is at is none of those it has been through.
LEMMA NextIsNew ==
    ASSUME NEW n \in 1..Len(Files)
    PROVE  /\ Files[n] \notin Before(n) /\ Files[n] \in Uploads
           /\ Before(n + 1) = Before(n) \cup {Files[n]}
<1>1. n \in DOMAIN Files /\ n \in Nat /\ Len(Files) \in Nat
  BY Names
<1>2. Files[n] \in Uploads
  BY <1>1 DEF Uploads
<1>3. \A i \in 1..n - 1 : i \in DOMAIN Files /\ i # n
  BY <1>1, Names
<1>4. Files[n] \notin Before(n)
  BY <1>1, <1>3, PodAssumption DEF Before
<1>5. 1..(n + 1) - 1 = (1..n - 1) \cup {n}
  BY <1>1
<1>6. Before(n + 1) = Before(n) \cup {Files[n]}
  BY <1>5 DEF Before
<1> QED
  BY <1>2, <1>4, <1>6

-----------------------------------------------------------------------------
(* The pod.                                                                  *)

LEMMA InitPod == PodInit => PodInv
<1> SUFFICES ASSUME PodInit PROVE PodInv
  OBVIOUS
<1>1. PodTypeOK
  <2>1. files \in [FileNames -> 0..run] /\ stored \in [FileNames -> 0..run]
    BY DEF PodInit
  <2>2. /\ file \in 1..Len(Files) + 1 /\ attempt \in 0..UploadAttempts - 1
        /\ uploaded \in 0..Len(Files) /\ restarts \in 0..MaxRestarts
    BY Names DEF PodInit
  <2> QED
    BY <2>1, <2>2 DEF PodInit, PodTypeOK, NoResult, WorkerStatus, Subprocess
<1>2. NothingElse
  BY DEF PodInit, NothingElse
<1>3. Ledger
  BY DEF PodInit, Ledger
<1>4. ~(worker = "completed") /\ stage = "none" /\ uploaded < file
  BY DEF PodInit
<1> QED
  BY <1>1, <1>2, <1>3, <1>4 DEF PodInv

LEMMA PodStays == PodInv /\ UNCHANGED podVars => PodInv'
BY DEF PodInv, podVars, PodTypeOK, RunWritten, Whole, NothingElse, Ledger, Counted,
       Before, Produced, Outputs, Uploads

\* A POST that is accepted, even in vain: whatever was there, it is the
\* beginning of a run of its own.
LEMMA TakesStep ==
    ASSUME PodInv, worker # "running", NEW next \in {"wait", "none"}, Takes(next)
    PROVE  /\ PodInv' /\ stage = "none" /\ worker' = "running"
<1> USE DEF Takes
<1>1. run' \in Nat /\ files' \in [FileNames -> 0..run'] /\ stored' \in [FileNames -> 0..run']
  BY DEF PodInv, PodTypeOK
<1>2. PodTypeOK'
  BY <1>1 DEF PodInv, PodTypeOK, NoResult, WorkerStatus, Subprocess
<1>3. NothingElse'
  BY DEF PodInv, NothingElse, Outputs, Uploads
<1>4. Ledger'
  BY DEF Ledger
<1> QED
  BY <1>1, <1>2, <1>3, <1>4 DEF PodInv, PodTypeOK

\* A stage of the subprocess that hands over to the next one.
LEMMA GoToStep ==
    ASSUME PodInv, stage \in Subprocess, NEW next \in Subprocess, GoTo(next)
    PROVE  PodInv'
<1> USE DEF GoTo
<1>1. stage # "none" /\ next # "upload" /\ next # "none"
  BY DEF Subprocess
<1>2. PodTypeOK'
  BY DEF PodInv, PodTypeOK
<1>3. NothingElse'
  BY DEF PodInv, NothingElse, Outputs, Uploads
<1>4. Ledger'
  BY <1>1 DEF Ledger
<1> QED
  BY <1>1, <1>2, <1>3, <1>4 DEF PodInv

\* A pipeline that ends with an error: of its files nothing is claimed.
LEMMA FailsStep ==
    ASSUME PodInv, stage \in Subprocess, NEW reason \in Subprocess \cup {"timeout"},
           Fails(reason), NEW n \in 0..Len(Written),
           UNCHANGED files \/ WrittenUpTo(n)
    PROVE  PodInv'
<1> USE DEF Fails
<1>1. \A i \in 1..n : Written[i] \in Outputs
  BY Names DEF Outputs
<1>2. files \in [FileNames -> 0..run] /\ run \in 0..run
  BY DEF PodInv, PodTypeOK
<1>3. files' \in [FileNames -> 0..run] /\ \A f \in FileNames : files'[f] # 0 => f \in Outputs
  <2>1. CASE UNCHANGED files
    BY <1>2, <2>1 DEF PodInv, NothingElse
  <2>2. CASE WrittenUpTo(n)
    BY <1>1, <1>2, <2>2 DEF PodInv, NothingElse, WrittenUpTo
  <2> QED
    BY <2>1, <2>2
<1>4. PodTypeOK'
  BY <1>3 DEF PodInv, PodTypeOK, WorkerStatus
<1>5. NothingElse'
  BY <1>3 DEF PodInv, NothingElse, Outputs, Uploads
<1>6. Ledger'
  BY DEF Ledger
<1> QED
  BY <1>4, <1>5, <1>6 DEF PodInv

\* The last stage has overwritten every file that there is to write.
LEMMA WriteResultsStep ==
    ASSUME PodInv, WriteResults
    PROVE  PodInv'
<1>1. stage \in Subprocess /\ stage = "write" /\ worker = "running"
  BY DEF WriteResults, Subprocess, PodInv
<1>2. CASE \E n \in 0..Len(Written) - 1 : WrittenUpTo(n) /\ Fails("write")
  <2>1. PICK n \in 0..Len(Written) - 1 : WrittenUpTo(n) /\ Fails("write")
    BY <1>2
  <2>2. n \in 0..Len(Written) /\ "write" \in Subprocess
    BY <2>1, Names DEF Subprocess
  <2> QED
    BY <1>1, <2>1, <2>2, FailsStep
<1>3. CASE ~\E n \in 0..Len(Written) - 1 : WrittenUpTo(n) /\ Fails("write")
  <2>1. /\ WrittenUpTo(Len(Written))
        /\ stage' = "upload" /\ file' = 1 /\ attempt' = 0 /\ uploaded' = 0
        /\ UNCHANGED <<worker, result, starts, restarts, run, stored, why>>
    BY <1>3 DEF WriteResults
  <2>2. \A f \in FileNames : (\E i \in 1..Len(Written) : Written[i] = f) <=> f \in Outputs
    BY Names DEF Outputs
  <2>3. files' = [f \in FileNames |-> IF f \in Outputs THEN run ELSE files[f]]
    BY <2>1, <2>2 DEF WrittenUpTo
  <2>4. files' \in [FileNames -> 0..run]
    BY <2>3 DEF PodInv, PodTypeOK
  <2>5. run > 0
    BY <1>1 DEF PodInv
  <2>6. RunWritten'
    BY <2>1, <2>3, <2>5, Names DEF RunWritten, Outputs
  <2>7. PodTypeOK'
    BY <2>1, <2>4, Names DEF PodInv, PodTypeOK, WorkerStatus
  <2>8. NothingElse'
    BY <2>1, <2>3 DEF PodInv, NothingElse, Outputs, Uploads
  <2>9. Ledger'
    <3>1. Cardinality({}) = 0 /\ {} \in SUBSET Before(1)
      BY FS_EmptySet
    <3>2. Counted({})'
      BY <2>1, <3>1 DEF Counted
    <3> QED
      BY <2>1, <3>1, <3>2 DEF Ledger, Before
  <2> QED
    BY <1>1, <2>1, <2>6, <2>7, <2>8, <2>9 DEF PodInv
<1> QED
  BY <1>2, <1>3

\* What the upload never touches.
LEMMA UploadFrame ==
    ASSUME PodInv, stage = "upload",
           stored' \in [FileNames -> 0..run],
           \A f \in FileNames : stored'[f] # 0 => f \in Outputs \cap Uploads,
           file' \in 1..Len(Files) + 1, attempt' \in 0..UploadAttempts - 1,
           uploaded' \in 0..Len(Files), uploaded' < file', Ledger',
           UNCHANGED <<worker, result, starts, restarts, run, stage, files, why>>
    PROVE  PodInv'
<1>1. PodTypeOK'
  BY DEF PodInv, PodTypeOK
<1>2. NothingElse'
  BY DEF PodInv, NothingElse, Outputs, Uploads
<1>3. RunWritten'
  BY DEF PodInv, RunWritten, Outputs
<1>4. worker # "completed" /\ worker = "running" /\ run > 0
  BY DEF PodInv
<1> QED
  BY <1>1, <1>2, <1>3, <1>4 DEF PodInv

LEMMA UploadStep ==
    ASSUME PodInv, SkipFile \/ PutFile \/ PutFails
    PROVE  PodInv'
<1>0. PICK name : name = Files[file]
  OBVIOUS
<1>1. /\ stage = "upload" /\ stage' = "upload" /\ file \in 1..Len(Files)
      /\ file \in Nat /\ Len(Files) \in Nat /\ uploaded \in Nat /\ uploaded < file
  BY Names DEF PodInv, PodTypeOK, SkipFile, PutFile, PutFails, Uploading, NextFile
<1>2. /\ name \notin Before(file) /\ name \in Uploads /\ name \in FileNames
      /\ Before(file + 1) = Before(file) \cup {name}
  BY <1>0, <1>1, NextIsNew, Names
<1>3. PICK put \in SUBSET Before(file) : Counted(put)
  BY <1>1 DEF PodInv, Ledger
<1>4. IsFiniteSet(put) /\ put \in SUBSET FileNames /\ Before(file) \in SUBSET FileNames
  <2>1. file \in 1..Len(Files) + 1
    BY <1>1
  <2> QED
    BY <2>1, <1>3, BeforeFinite, FS_Subset, Names
<1>5. Stores => /\ stored' \in [FileNames -> 0..run]
                /\ \A f \in FileNames \ {name} : stored'[f] = stored[f]
                /\ stored'[name] = files[name]
  BY <1>0, <1>2 DEF Stores, PodInv, PodTypeOK
<1>6. /\ stored \in [FileNames -> 0..run] /\ files \in [FileNames -> 0..run]
      /\ attempt \in 0..UploadAttempts - 1
  BY DEF PodInv, PodTypeOK
<1>7. ASSUME Stores \/ UNCHANGED stored, UNCHANGED files
      PROVE  /\ stored' \in [FileNames -> 0..run]
             /\ \A f \in FileNames : stored'[f] # 0 => f \in Outputs \cap Uploads
             /\ \A f \in put : files'[f] # 0 /\ stored'[f] = files'[f]
  <2>1. CASE Stores
    BY <1>2, <1>3, <1>4, <1>5, <1>7, <2>1 DEF PodInv, NothingElse, Counted
  <2>2. CASE UNCHANGED stored
    BY <1>3, <1>6, <1>7, <2>2 DEF PodInv, NothingElse, Counted
  <2> QED
    BY <1>7, <2>1, <2>2
<1>8. attempt' \in 0..UploadAttempts - 1 /\ file' \in {file, file + 1}
      /\ UNCHANGED <<worker, result, starts, restarts, run, stage, files, why>>
  BY <1>1, <1>6, Names DEF SkipFile, PutFile, PutFails, NextFile
<1>9. CASE PutFile
  <2>1. Stores /\ files[name] # 0 /\ uploaded' = uploaded + 1 /\ file' = file + 1
    BY <1>0, <1>9 DEF PutFile, NextFile, Exists
  <2>2. /\ IsFiniteSet(put \cup {name})
        /\ Cardinality(put \cup {name}) = uploaded + 1
    BY <1>2, <1>3, <1>4, FS_AddElement DEF Counted
  <2>3. put \cup {name} \in SUBSET Before(file + 1)
    BY <1>2, <1>3
  <2>4. Counted(put \cup {name})'
    BY <1>5, <1>7, <1>8, <2>1, <2>2 DEF Counted
  <2>5. Ledger'
    BY <2>1, <2>3, <2>4 DEF Ledger, Before
  <2>6. file' \in 1..Len(Files) + 1 /\ uploaded' \in 0..Len(Files) /\ uploaded' < file'
    BY <1>1, <2>1
  <2> QED
    BY <1>1, <1>7, <1>8, <2>1, <2>5, <2>6, UploadFrame
<1>10. CASE SkipFile \/ PutFails
  <2>1. (Stores \/ UNCHANGED stored) /\ uploaded' = uploaded
    BY <1>10 DEF SkipFile, PutFails, NextFile
  <2>2. put \in SUBSET Before(file')
    BY <1>2, <1>3, <1>8
  <2>3. Counted(put)'
    BY <1>3, <1>7, <1>8, <2>1 DEF Counted
  <2>4. Ledger'
    BY <2>2, <2>3 DEF Ledger, Before
  <2>5. file' \in 1..Len(Files) + 1 /\ uploaded' \in 0..Len(Files) /\ uploaded' < file'
    BY <1>1, <1>8, <2>1
  <2> QED
    BY <1>1, <1>7, <1>8, <2>1, <2>4, <2>5, UploadFrame
<1> QED
  BY <1>9, <1>10

\* Of as many files counted as there are, each is in MinIO.
LEMMA FinishStep ==
    ASSUME PodInv, FinishPipeline
    PROVE  PodInv'
<1>1. /\ stage = "upload" /\ file > Len(Files) /\ worker' = "completed" /\ stage' = "none"
      /\ result' = [chat |-> files[ChatLog], simdata |-> UploadedAll]
      /\ UNCHANGED <<starts, restarts, run, files, stored, file, attempt, uploaded, why>>
  BY DEF FinishPipeline
<1>2. RunWritten /\ run > 0 /\ files[ChatLog] = run
  BY <1>1, Names DEF PodInv, RunWritten
<1>3. file = Len(Files) + 1 /\ Len(Files) \in Nat /\ file \in 1..Len(Files) + 1
  BY <1>1, Names DEF PodInv, PodTypeOK
<1>4. Before(file) = Uploads
  BY <1>3, Names DEF Before, Uploads
<1>5. UploadedAll \in BOOLEAN
  BY DEF UploadedAll
<1>6. ASSUME UploadedAll
      PROVE  \A f \in Produced : stored[f] = files[f]
  <2>1. PICK put \in SUBSET Uploads : Counted(put)
    BY <1>1, <1>4 DEF PodInv, Ledger
  <2>2. put \in SUBSET Produced /\ Cardinality(put) = Cardinality(Produced)
    BY <1>6, <2>1 DEF Counted, UploadedAll, Produced, Uploads
  <2>3. IsFiniteSet(Uploads) /\ Produced \in SUBSET Uploads
    BY <1>3, <1>4, BeforeFinite DEF Produced, Uploads
  <2>4. IsFiniteSet(Produced)
    BY <2>3, FS_Subset
  <2>5. put = Produced
    BY <2>2, <2>4, FS_Subset
  <2> QED
    BY <2>1, <2>5 DEF Counted
<1>7. PodTypeOK'
  <2>1. files[ChatLog] \in Nat
    BY <1>2 DEF PodInv, PodTypeOK
  <2> QED
    BY <1>1, <1>5, <2>1 DEF PodInv, PodTypeOK, WorkerStatus
<1>8. Whole(result)'
  <2> SUFFICES ASSUME UploadedAll
               PROVE  /\ run # 0
                      /\ \A f \in FileNames : stored[f] \in {0, run}
                      /\ \A f \in Uploads \cap Outputs : stored[f] = run
    BY <1>1, <1>2 DEF Whole, Uploads, Outputs
  <2>1. Uploads \cap Outputs \in SUBSET Produced
    BY <1>2 DEF Produced, Uploads, RunWritten
  <2>2. \A f \in Uploads \cap Outputs : stored[f] = run
    BY <1>2, <1>6, <2>1 DEF RunWritten
  <2>3. \A f \in FileNames : stored[f] # 0 => f \in Uploads \cap Outputs
    BY DEF PodInv, NothingElse
  <2>4. run # 0
    BY <1>2 DEF PodInv, PodTypeOK
  <2> QED
    BY <2>2, <2>3, <2>4
<1>9. NothingElse' /\ Ledger' /\ RunWritten'
  BY <1>1, <1>2 DEF PodInv, NothingElse, Ledger, RunWritten, Outputs, Uploads
<1>10. result'.chat = run' /\ uploaded' < file' /\ stage' = "none"
  BY <1>1, <1>2 DEF PodInv
<1> QED
  BY <1>7, <1>8, <1>9, <1>10 DEF PodInv

LEMMA RestartStep ==
    ASSUME PodInv, PodRestarts
    PROVE  PodInv'
<1> USE DEF PodRestarts
<1>1. /\ files' \in [FileNames -> 0..run]
      /\ \A f \in FileNames : files'[f] # 0 => f \in Outputs
  BY DEF PodInv, PodTypeOK, NothingElse
<1>2. restarts' \in 0..MaxRestarts /\ file' \in 1..Len(Files) + 1
      /\ attempt' \in 0..UploadAttempts - 1 /\ uploaded' \in 0..Len(Files)
  BY Names DEF PodInv, PodTypeOK
<1>3. PodTypeOK'
  BY <1>1, <1>2 DEF PodInv, PodTypeOK, NoResult, WorkerStatus, Subprocess
<1>4. NothingElse'
  BY <1>1 DEF PodInv, NothingElse, Outputs, Uploads
<1>5. Ledger'
  BY DEF Ledger
<1>6. worker' = "idle" /\ stage' = "none" /\ uploaded' < file'
  OBVIOUS
<1> QED
  BY <1>3, <1>4, <1>5, <1>6 DEF PodInv

LEMMA PodStep ==
    ASSUME PodInv, PipelineStep
    PROVE  PodInv'
<1>1. ASSUME stage \in Subprocess, Dies
      PROVE  PodInv'
  <2>1. 0 \in 0..Len(Written)
    BY Names
  <2> QED
    BY <1>1, <2>1, FailsStep DEF Dies
<1>2. CASE \/ WaitForNeo4j \/ ExtractEntities \/ FallbackEntities \/ RunSimulation
           \/ ExtractRelations \/ RepairRelations \/ EnrichPersonas
  <2>1. /\ stage \in Subprocess
        /\ Dies \/ \E next \in Subprocess : GoTo(next)
    BY <1>2 DEF WaitForNeo4j, ExtractEntities, FallbackEntities, RunSimulation,
                ExtractRelations, RepairRelations, EnrichPersonas, Subprocess
  <2> QED
    BY <1>1, <2>1, GoToStep
<1>3. CASE PipelineTimesOut
  <2>1. stage \in Subprocess /\ Fails("timeout") /\ UNCHANGED files /\ 0 \in 0..Len(Written)
    BY <1>3, Names DEF PipelineTimesOut
  <2> QED
    BY <2>1, FailsStep
<1> QED
  BY <1>2, <1>3, WriteResultsStep, UploadStep, FinishStep DEF PipelineStep

-----------------------------------------------------------------------------
(* The client and the pod together.                                          *)

LEMMA InitIInv == Init => IInv
<1> SUFFICES ASSUME Init PROVE IInv
  OBVIOUS
<1>1. PodInv
  BY InitPod DEF Init
<1>2. TypeOK
  <2>1. NoResult \in [chat : Nat, simdata : BOOLEAN]
    BY DEF NoResult
  <2>2. polls \in 0..MaxPolls /\ failures \in 0..MaxFailures /\ entries \in 0..MaxUnreachable
    BY Names DEF Init
  <2>3. PodTypeOK
    BY <1>1 DEF PodInv
  <2> QED
    BY <2>1, <2>2, <2>3 DEF Init, TypeOK
<1>3. Counters /\ ClientInv
  BY Names DEF Init, Counters, ClientInv
<1> QED
  BY <1>1, <1>2, <1>3 DEF IInv

\* A pipeline that makes a step is one that the worker calls running.
LEMMA PipelineRuns == PodInv /\ PipelineStep => stage # "none" /\ worker = "running" /\ run' = run
BY DEF PodInv, PipelineStep, WaitForNeo4j, ExtractEntities, FallbackEntities,
       RunSimulation, ExtractRelations, RepairRelations, EnrichPersonas, WriteResults,
       PipelineTimesOut, SkipFile, PutFile, PutFails, FinishPipeline, Uploading,
       Subprocess, GoTo, Dies, Fails, NextFile

LEMMA PodKeeps == IInv /\ Pod => IInv'
<1> SUFFICES ASSUME IInv, Pod PROVE IInv'
  OBVIOUS
<1>1. PodInv' /\ UNCHANGED clientVars
  BY PodStep, RestartStep DEF IInv, Pod
<1>2. TypeOK' /\ Counters'
  BY <1>1 DEF IInv, TypeOK, Counters, clientVars, PodInv
<1>3. ClientInv'
  <2>1. CASE PipelineStep
    BY <1>1, <2>1, PipelineRuns DEF IInv, ClientInv, clientVars
  <2>2. CASE PodRestarts
    BY <1>1, <2>2 DEF IInv, ClientInv, clientVars, PodRestarts, Whole, Uploads, Outputs
  <2> QED
    BY <2>1, <2>2 DEF Pod
<1> QED
  BY <1>1, <1>2, <1>3 DEF IInv

LEMMA CopyKeeps == IInv /\ CopyArrives => IInv'
<1> SUFFICES ASSUME IInv, CopyArrives PROVE IInv'
  OBVIOUS
<1>1. PodInv'
  BY TakesStep, PodStays DEF IInv, CopyArrives, Accepts, Conflict
<1>2. at = "poll" /\ UNCHANGED <<at, polls, failures, entries, answer, saved, outage>> /\ copy' = FALSE
  BY DEF CopyArrives
<1>3. TypeOK' /\ Counters' /\ ClientInv'
  BY <1>1, <1>2 DEF IInv, TypeOK, Counters, ClientInv, PodInv
<1> QED
  BY <1>1, <1>3 DEF IInv

LEMMA EntryKeeps == IInv /\ (EntryAnswered \/ EntryUnanswered) => IInv'
<1> SUFFICES ASSUME IInv, EntryAnswered \/ EntryUnanswered PROVE IInv'
  OBVIOUS
<1>1. /\ UNCHANGED podVars /\ UNCHANGED <<copy, polls, failures, entries, answer, saved>>
      /\ at = "entry" /\ at' \in {"poll", "post"}
      /\ at' = "post" => worker \notin {"running", "completed"}
      /\ outage' \in {0, outage + 1}
  BY DEF EntryAnswered, EntryUnanswered, Answered, Unanswered, Resumes
<1>2. PodInv'
  BY <1>1, PodStays DEF IInv
<1>3. TypeOK'
  BY <1>1, <1>2 DEF IInv, TypeOK, PodInv
<1>4. Counters'
  BY <1>1, Names DEF IInv, Counters, TypeOK
<1>5. ClientInv'
  BY <1>1 DEF IInv, ClientInv, PodInv, PodTypeOK, WorkerStatus, podVars
<1> QED
  BY <1>2, <1>3, <1>4, <1>5 DEF IInv

LEMMA PostKeeps == IInv /\ (PostAnswered \/ PostBlankReply \/ PostFails) => IInv'
<1> SUFFICES ASSUME IInv, PostAnswered \/ PostBlankReply \/ PostFails PROVE IInv'
  OBVIOUS
<1>1. /\ at = "post" /\ at' \in {"poll", "error"} /\ copy' \in BOOLEAN
      /\ UNCHANGED <<polls, failures, entries, answer, saved>>
      /\ outage' \in {0, outage + 1}
  BY DEF PostAnswered, PostBlankReply, PostFails, Answered, IInv, TypeOK
<1>2. PodInv'
  BY TakesStep, PodStays
     DEF IInv, PostAnswered, PostBlankReply, PostFails, Accepts, AcceptsInVain, Conflict
<1>3. TypeOK'
  BY <1>1, <1>2 DEF IInv, TypeOK, PodInv, Ended
<1>4. Counters'
  BY <1>1, Names DEF IInv, Counters, TypeOK
<1>5. ClientInv'
  BY <1>1 DEF IInv, ClientInv
<1> QED
  BY <1>2, <1>3, <1>4, <1>5 DEF IInv

\* An answer that says completed comes from a worker that has nothing running.
LEMMA PollAnsweredKeeps == IInv /\ PollAnswered => IInv'
<1> SUFFICES ASSUME IInv, PollAnswered PROVE IInv'
  OBVIOUS
<1>1. /\ UNCHANGED podVars /\ UNCHANGED <<entries, saved>> /\ copy' = FALSE
      /\ at = "poll" /\ at' \in {"save", "worker_failed", "timeout", "poll"}
      /\ at' = "save" => worker = "completed"
      /\ at' = "poll" => polls + 1 # MaxPolls
      /\ polls' = polls + 1 /\ failures' = 0 /\ outage' = 0 /\ answer' = result
  BY DEF PollAnswered, Answered, AfterAnswer, LastPoll
<1>2. PodInv'
  BY <1>1, PodStays DEF IInv
<1>3. TypeOK' /\ Counters'
  <2>1. polls' \in 0..MaxPolls /\ (at' = "poll" => polls' < MaxPolls)
    BY <1>1, Names DEF IInv, TypeOK, Counters
  <2>2. failures' \in 0..MaxFailures /\ failures' < MaxFailures /\ outage' \in Nat
    BY <1>1, Names
  <2>3. PodTypeOK' /\ entries' \in 0..MaxUnreachable
    BY <1>1, <1>2 DEF IInv, TypeOK, PodInv
  <2>4. {answer', saved'} \subseteq [chat : Nat, simdata : BOOLEAN]
    BY <1>1 DEF IInv, TypeOK, PodInv, PodTypeOK
  <2>5. TypeOK'
    BY <1>1, <2>1, <2>2, <2>3, <2>4 DEF TypeOK, Ended
  <2>6. Counters'
    BY <1>1, <2>1, <2>2 DEF Counters
  <2> QED
    BY <2>5, <2>6
<1>4. ClientInv'
  <2>1. saved' = NoResult
    BY <1>1 DEF IInv, ClientInv
  <2>2. worker = "completed" => stage = "none" /\ Whole(result)
    BY DEF IInv, PodInv
  <2>3. worker = "completed" => stage' = "none" /\ Whole(answer)'
    BY <1>1, <2>2 DEF podVars, Whole, Uploads, Outputs
  <2> QED
    BY <1>1, <2>1, <2>3 DEF ClientInv, NoResult
<1> QED
  BY <1>2, <1>3, <1>4 DEF IInv

LEMMA PollOtherKeeps == IInv /\ (PollTrips \/ PollUnanswered) => IInv'
<1> SUFFICES ASSUME IInv, PollTrips \/ PollUnanswered PROVE IInv'
  OBVIOUS
<1>1. /\ UNCHANGED podVars /\ UNCHANGED <<entries, answer, saved>> /\ copy' \in BOOLEAN
      /\ at = "poll" /\ polls' = polls + 1
      /\ polls < MaxPolls /\ failures < MaxFailures /\ failures <= outage
      /\ polls \in Nat /\ failures \in Nat /\ outage \in Nat
  <2>1. UNCHANGED podVars /\ UNCHANGED <<entries, answer, saved>> /\ at = "poll" /\ polls' = polls + 1
    BY DEF PollTrips, PollUnanswered
  <2>2. copy' \in BOOLEAN
    BY DEF PollTrips, PollUnanswered, IInv, TypeOK
  <2> QED
    BY <2>1, <2>2, Names DEF IInv, TypeOK, Counters
<1>2. PodInv'
  BY <1>1, PodStays DEF IInv
<1>3. CASE PollTrips
  <2>1. at' = "detector" /\ failures' = 0 /\ outage' = 0
    BY <1>3 DEF PollTrips, Answered
  <2> QED
    BY <1>1, <1>2, <2>1, Names DEF IInv, TypeOK, Counters, ClientInv, PodInv, Ended
<1>4. CASE PollUnanswered
  <2>1. /\ at' \in {"unreachable", "timeout", "poll"}
        /\ at' = "unreachable" <=> failures + 1 >= MaxFailures
        /\ at' = "poll" => polls + 1 # MaxPolls
        /\ failures' = failures + 1 /\ outage' = outage + 1
    BY <1>4 DEF PollUnanswered, Unanswered, LastPoll
  <2>2. Counters'
    BY <1>1, <2>1, Names DEF Counters
  <2>3. TypeOK'
    BY <1>1, <1>2, <2>1, Names DEF IInv, TypeOK, PodInv, Ended
  <2>4. ClientInv'
    BY <1>1, <2>1 DEF IInv, ClientInv
  <2> QED
    BY <1>2, <2>2, <2>3, <2>4 DEF IInv
<1> QED
  BY <1>3, <1>4

LEMMA SaveKeeps == IInv /\ SaveResults => IInv'
<1> SUFFICES ASSUME IInv, SaveResults PROVE IInv'
  OBVIOUS
<1>1. /\ UNCHANGED podVars /\ UNCHANGED <<copy, polls, failures, entries, answer, outage>>
      /\ at = "save" /\ at' = "returned" /\ saved' = answer
  BY DEF SaveResults
<1>2. PodInv'
  BY <1>1, PodStays DEF IInv
<1>3. TypeOK' /\ Counters'
  BY <1>1, <1>2 DEF IInv, TypeOK, Counters, PodInv, Ended
<1>4. ClientInv'
  BY <1>1 DEF IInv, ClientInv, podVars, Whole, Uploads, Outputs
<1> QED
  BY <1>2, <1>3, <1>4 DEF IInv

LEMMA ReenterKeeps == IInv /\ Reenter => IInv'
<1> SUFFICES ASSUME IInv, Reenter PROVE IInv'
  OBVIOUS
<1>1. /\ UNCHANGED podVars /\ UNCHANGED <<answer, saved, outage>>
      /\ at = "unreachable" /\ at' = "entry" /\ copy' = FALSE
      /\ entries < MaxUnreachable /\ entries' = entries + 1
      /\ polls' = 0 /\ failures' = 0
  BY DEF Reenter
<1>2. PodInv'
  BY <1>1, PodStays DEF IInv
<1>3. TypeOK'
  <2>1. entries' \in 0..MaxUnreachable /\ polls' \in 0..MaxPolls /\ failures' \in 0..MaxFailures
    BY <1>1, Names DEF IInv, TypeOK
  <2> QED
    BY <1>1, <1>2, <2>1 DEF IInv, TypeOK, PodInv
<1>4. Counters' /\ ClientInv'
  BY <1>1, Names DEF IInv, TypeOK, Counters, ClientInv
<1> QED
  BY <1>2, <1>3, <1>4 DEF IInv

LEMMA StepKeeps == IInv /\ [Next]_vars => IInv'
<1>1. CASE UNCHANGED vars
  <2>1. IInv => PodInv'
    BY <1>1, PodStays DEF IInv, vars
  <2>2. IInv => TypeOK' /\ Counters' /\ ClientInv'
    BY <1>1, <2>1 DEF IInv, TypeOK, Counters, ClientInv, vars, clientVars, podVars, PodInv,
                      Whole, Uploads, Outputs
  <2> QED
    BY <2>1, <2>2 DEF IInv
<1>2. CASE Client
  BY <1>2, EntryKeeps, PostKeeps, PollAnsweredKeeps, PollOtherKeeps, SaveKeeps,
     ReenterKeeps DEF Client
<1> QED
  BY <1>1, <1>2, CopyKeeps, PodKeeps DEF Next

LEMMA Invariance == Spec => []IInv
BY InitIInv, StepKeeps, PTL DEF Spec

-----------------------------------------------------------------------------
\* Every variable keeps its type: neither the loop nor its re-entries go over
\* their bounds, and no more files are counted than there are.
THEOREM TypeTheorem == Spec => []TypeOK
<1>1. IInv => TypeOK
  BY DEF IInv
<1> QED
  BY <1>1, Invariance, PTL

\* A pod is given up as unreachable only when all of the last calls were lost.
THEOREM OutageTheorem == Spec => []GivesUpOnOutageOnly
<1>1. IInv => GivesUpOnOutageOnly
  BY Names DEF IInv, Counters, GivesUpOnOutageOnly, TypeOK
<1> QED
  BY <1>1, Invariance, PTL

\* A completed job has the files of its own run, however many runs of the pod
\* came to an end half-way before.
THEOREM CompletedTheorem == Spec => []CompletedIsWhole
<1>1. IInv => CompletedIsWhole
  BY DEF IInv, PodInv, CompletedIsWhole, RunWritten, Outputs
<1> QED
  BY <1>1, Invariance, PTL

\* If the flag is saved, MinIO has the run whose chat log is saved, all of it.
THEOREM SavedTheorem == Spec => []SavedIsWhole
<1>1. IInv => SavedIsWhole
  <2> SUFFICES ASSUME IInv, saved.simdata PROVE SavedIsWhole
    BY DEF SavedIsWhole
  <2>1. Whole(saved)
    BY DEF IInv, ClientInv, NoResult
  <2> QED
    BY <2>1, WholeByPlace DEF SavedIsWhole, Whole
<1> QED
  BY <1>1, Invariance, PTL

\* A pipeline is started only when none is left running.
THEOREM OnePipelineTheorem == Spec => OnePipeline
<1>1. IInv /\ [Next]_vars => [run' # run => stage = "none"]_vars
  <2> SUFFICES ASSUME IInv, Next, run' # run PROVE stage = "none"
    BY DEF vars
  <2>1. worker # "running" => stage = "none"
    BY DEF IInv, PodInv
  <2> QED
    BY <2>1, PipelineRuns
       DEF IInv, Next, Client, CopyArrives, Pod, PodRestarts, EntryAnswered, EntryUnanswered,
           PostAnswered, PostBlankReply, PostFails, Accepts, AcceptsInVain, Conflict,
           PollAnswered, PollTrips, PollUnanswered, SaveResults, Reenter, podVars
<1> QED
  BY <1>1, Invariance, PTL DEF Spec, OnePipeline

\* No POST falls on finished results.
THEOREM ResultsTheorem == Spec => ResultsNotDiscarded
<1>1. IInv /\ [Next]_vars
        => [PostAnswered \/ PostBlankReply \/ PostFails =>
              worker # "completed" \/ worker' = "completed"]_vars
  BY DEF IInv, ClientInv, PostAnswered, PostBlankReply, PostFails
<1> QED
  BY <1>1, Invariance, PTL DEF Spec, ResultsNotDiscarded
=============================================================================
