------------------------ MODULE OrphanCleanup_proofs ------------------------
(***************************************************************************)
(* What holds of the orphaned-pod cleanup for any number of jobs and pods, *)
(* whether or not the database fails.                                      *)
(*                                                                         *)
(* A pass acts on two old views.  Two facts make up for that: no row comes *)
(* back to a live status while its workflow is open, so a job whose row    *)
(* was read as dead cannot use a pod again; and a pod that was recorded    *)
(* after the ids were read is too young, since it was created no earlier   *)
(* than the pass began.                                                    *)
(***************************************************************************)
EXTENDS OrphanCleanup, TLAPS

Live(j) == row[j].status \in LiveStatus

\* The ids have been read and the pods are being judged.
Judging == pass.at \notin {<<"idle">>, <<"read">>}

\* A pod a job came to is its own.
Owns(j, p) == p # NoPod => tag[p] = j /\ pods[p] # "absent"

JobOK(j) ==
    /\ held[j] # NoPod <=> wf[j] \in {"created", "pod"}
    /\ Owns(j, held[j]) /\ Owns(j, row[j].pod_id)
    /\ wf[j] = "created" => age[held[j]] = Young
    /\ wf[j] # "closed" => Live(j) \/ row[j].status = "ABSENT"

PodOK(p) == pods[p] = "absent" => age[p] = Young

\* A live row whose pod the pass does not know about was written during the
\* pass, for a pod created just before.
RecordedLate ==
    Judging =>
        \A j \in Job : /\ wf[j] # "closed" /\ Live(j)
                       /\ row[j].pod_id \in Pod \ pass.active
                       => age[row[j].pod_id] = Young

KillOK ==
    /\ \A p \in pass.listed : pods[p] # "absent"
    /\ \A p \in Pod : pass.at = <<"kill", p>> =>
          /\ pods[p] # "absent" /\ p \notin pass.active /\ age[p] # Young
          /\ age[p] # MismatchGrace => tag[p] = NoJob \/ ~Live(tag[p])

IInv ==
    /\ TypeOK
    /\ \A j \in Job : JobOK(j)
    /\ \A p \in Pod : PodOK(p)
    /\ RecordedLate /\ KillOK

-----------------------------------------------------------------------------
(* What a statement does to a row, and a step to a job.                      *)

\* A statement that a workflow sends: no row comes back to a live status.
Writes(x, y) ==
    /\ y \in JobRow
    /\ y.status \in LiveStatus => x.status \in LiveStatus
    /\ x.status = "ABSENT" => y.status = "ABSENT"

LEMMA RowFacts ==
    ASSUME NEW x \in JobRow, x.status \in LiveStatus \cup {"ABSENT"}
    PROVE  /\ \A p \in Pod : /\ Writes(x, UpdatePodId(x, p))
                             /\ UpdatePodId(x, p).status \in LiveStatus \cup {"ABSENT"}
                             /\ UpdatePodId(x, p).pod_id \in {x.pod_id, p}
           /\ Writes(x, ClearPodId(x)) /\ ClearPodId(x).status = x.status
           /\ ClearPodId(x).pod_id \in {x.pod_id, NoPod}
           /\ Writes(x, UpdateStage(x)) /\ UpdateStage(x).pod_id = x.pod_id
           /\ UpdateStage(x).status \in LiveStatus \cup {"ABSENT"}
           /\ Writes(x, TransitionToRunning(x)) /\ TransitionToRunning(x).pod_id = x.pod_id
           /\ TransitionToRunning(x).status \in LiveStatus \cup {"ABSENT"}
           /\ Writes(x, TransitionToReporting(x)) /\ TransitionToReporting(x).pod_id = x.pod_id
PROOF
    BY RowAssumption DEF JobRow, UpdateWhere, UpdatePodId, ClearPodId, UpdateStage, Writes,
       TransitionToRunning, TransitionToReporting, JobStatus, LiveStatus, TerminalStatus

LEMMA EndFacts ==
    ASSUME NEW x \in JobRow
    PROVE  /\ Writes(x, MarkFailed(x)) /\ MarkFailed(x).pod_id = x.pod_id
           /\ Writes(x, SaveReport(x)) /\ SaveReport(x).pod_id = x.pod_id
PROOF
    BY RowAssumption DEF JobRow, UpdateWhere, MarkFailed, SaveReport, Writes, JobStatus,
       LiveStatus, TerminalStatus

\* What all steps of a job have in common.
Effect(j) ==
    /\ row' \in [Job -> JobRow] /\ wf' \in [Job -> WfState]
    /\ held' \in [Job -> Pod \cup {NoPod}]
    /\ pods' \in [Pod -> {"absent", "up", "gone"}] /\ tag' \in [Pod -> Job \cup {NoJob}]
    /\ UNCHANGED <<age, pass>>
    /\ \A k \in Job : k # j => /\ row'[k] = row[k] /\ wf'[k] = wf[k] /\ held'[k] = held[k]
    /\ \A p \in Pod : pods[p] # "absent" => pods'[p] # "absent" /\ tag'[p] = tag[p]
    /\ \A p \in Pod : pods'[p] = "absent" => pods[p] = "absent"
    /\ JobOK(j)'
    /\ Live(j)' => Live(j)
    /\ wf'[j] # "closed" => wf[j] # "closed"
    /\ \/ row'[j].pod_id \in {row[j].pod_id, NoPod}
       \/ row'[j].pod_id \in Pod /\ age[row'[j].pod_id] = Young

LEMMA JobEffect ==
    ASSUME IInv, NEW j \in Job, JobStep(j)
    PROVE  Effect(j)
PROOF
<1>0. /\ TypeOK /\ JobOK(j) /\ row[j] \in JobRow /\ held[j] \in Pod \cup {NoPod}
      /\ row[j].pod_id \in Pod \cup {NoPod} /\ NoPod \notin Pod
      /\ \A p \in Pod : PodOK(p)
    BY RowAssumption DEF IInv, TypeOK, JobRow
<1>k. \A p \in Pod \cup {NoPod} :
         /\ Killed(p) \in [Pod -> {"absent", "up", "gone"}]
         /\ \A q \in Pod : Killed(p)[q] = IF q = p THEN "gone" ELSE pods[q]
    BY <1>0 DEF Killed, TypeOK
<1>1. ASSUME NEW p \in Pod, WfCreates(j, p)
      PROVE  Effect(j)
    BY <1>0, <1>1 DEF WfCreates, Holds, Effect, TypeOK, JobOK, PodOK, Owns, Live, WfState
<1>2. CASE WfRecords(j)
    <2>1. held[j] \in Pod /\ (Live(j) \/ row[j].status = "ABSENT")
        BY <1>0, <1>2 DEF WfRecords, JobOK
    <2>2. PICK r \in {row[j], UpdatePodId(row[j], held[j])} : row' = [row EXCEPT ![j] = r]
        BY <1>2 DEF WfRecords, Swallowing, Write
    <2>. QED
        BY <1>0, <1>2, <2>1, <2>2, RowFacts
           DEF Writes, WfRecords, Holds, Effect, TypeOK, JobOK, Owns, Live, WfState
<1>3. CASE WfReuses(j)
    BY <1>0, <1>3 DEF WfReuses, Holds, Effect, TypeOK, JobOK, Owns, Live, WfState
<1>4. CASE WfAttemptDies(j)
    BY <1>0, <1>4 DEF WfAttemptDies, Holds, Effect, TypeOK, JobOK, Owns, Live, WfState
<1>5. CASE WfSwaps(j)
    <2>1. held[j] \in Pod /\ (Live(j) \/ row[j].status = "ABSENT")
        BY <1>0, <1>5 DEF WfSwaps, JobOK
    <2>2. PICK r \in {row[j], ClearPodId(row[j])} : row' = [row EXCEPT ![j] = r]
        BY <1>5 DEF WfSwaps, Swallowing, Write
    <2>. QED
        BY <1>0, <1>k, <1>5, <2>1, <2>2, RowFacts
           DEF Writes, WfSwaps, Holds, Effect, TypeOK, JobOK, Owns, Live, WfState
<1>6. CASE WfWorks(j)
    <2>1. held[j] \in Pod /\ (Live(j) \/ row[j].status = "ABSENT")
        BY <1>0, <1>6 DEF WfWorks, JobOK
    <2>2. PICK r \in {row[j], UpdateStage(row[j]), TransitionToRunning(row[j])} :
             row' = [row EXCEPT ![j] = r]
        BY <1>6 DEF WfWorks, Swallowing, Write
    <2>. QED
        BY <1>0, <1>6, <2>1, <2>2, RowFacts
           DEF Writes, WfWorks, Effect, TypeOK, JobOK, Owns, Live, WfState
<1>7. CASE WfEnds(j)
    <2>1. Live(j) \/ row[j].status = "ABSENT"
        BY <1>0, <1>7 DEF WfEnds, JobOK
    <2>2. PICK r \in {TransitionToReporting(row[j]), MarkFailed(row[j])} :
             row' = [row EXCEPT ![j] = r]
        BY <1>7 DEF WfEnds, Write
    <2>. QED
        BY <1>0, <1>k, <1>7, <2>1, <2>2, RowFacts, EndFacts
           DEF Writes, WfEnds, Holds, Effect, TypeOK, JobOK, Owns, Live, WfState
<1>8. CASE JobEnds(j)
    <2>1. PICK r \in {SaveReport(row[j]), MarkFailed(row[j])} : row' = [row EXCEPT ![j] = r]
        BY <1>8 DEF JobEnds, Write
    <2>. QED
        BY <1>0, <1>8, <2>1, EndFacts
           DEF Writes, JobEnds, Effect, TypeOK, JobOK, Owns, Live, WfState
<1>9. CASE UserDeletes(j)
    <2>1. /\ NewRow("ABSENT") \in JobRow /\ NewRow("ABSENT").status = "ABSENT"
          /\ NewRow("ABSENT").pod_id = NoPod
        BY DEF NewRow, JobRow
    <2>. QED
        BY <1>0, <1>9, <2>1
           DEF UserDeletes, Write, Effect, TypeOK, JobOK, Owns, Live, LiveStatus
<1>. QED  BY <1>1, <1>2, <1>3, <1>4, <1>5, <1>6, <1>7, <1>8, <1>9 DEF JobStep

LEMMA JobKeeps ==
    ASSUME IInv, NEW j \in Job, Effect(j)
    PROVE  IInv'
PROOF
<1>1. TypeOK'
    BY DEF IInv, TypeOK, Effect
<1>2. ASSUME NEW k \in Job
      PROVE  JobOK(k)'
    <2>1. JobOK(k) /\ held[k] \in Pod \cup {NoPod} /\ row[k].pod_id \in Pod \cup {NoPod}
        BY DEF IInv, TypeOK, JobRow
    <2>2. CASE k = j
        BY <2>2 DEF Effect
    <2>3. CASE k # j
        BY <2>1, <2>3 DEF Effect, JobOK, Owns, Live
    <2>. QED  BY <2>2, <2>3
<1>3. \A p \in Pod : PodOK(p)'
    BY DEF IInv, PodOK, Effect
<1>4. RecordedLate'
    <2>. SUFFICES ASSUME Judging, NEW k \in Job, wf'[k] # "closed", row'[k].status \in LiveStatus,
                         row'[k].pod_id \in Pod \ pass.active
                  PROVE  age[row'[k].pod_id] = Young
        BY DEF RecordedLate, Judging, Live, Effect
    <2>1. /\ wf[k] # "closed" /\ Live(k)
          /\ \/ row'[k].pod_id = row[k].pod_id
             \/ age[row'[k].pod_id] = Young
        BY RowAssumption DEF Effect, Live
    <2>. QED  BY <2>1 DEF IInv, RecordedLate
<1>5. KillOK'
    <2>1. \A p \in Pod : pods[p] # "absent" /\ tag[p] # NoJob => tag[p] \in Job
        BY DEF IInv, TypeOK
    <2>. QED  BY <2>1 DEF IInv, TypeOK, KillOK, Live, Effect
<1>. QED  BY <1>1, <1>2, <1>3, <1>4, <1>5 DEF IInv

-----------------------------------------------------------------------------
(* The steps of a pass, and of time.                                         *)

LEMMA AgeKeeps ==
    ASSUME IInv, NEW p \in Pod, PodAges(p)
    PROVE  IInv'
PROOF
<1>1. /\ pods[p] = "up" /\ age[p] \in {Young, Grace} /\ pass.at = <<"idle">>
      /\ \A j \in Job : wf[j] = "created" => held[j] # p
      /\ age' = [age EXCEPT ![p] = age[p] + 1] /\ age[p] + 1 \in Young..MismatchGrace
      /\ UNCHANGED <<row, wf, held, pods, tag, pass>>
    BY DEF PodAges, IInv, TypeOK, Young, Grace, MismatchGrace
<1>2. TypeOK'
    BY <1>1 DEF IInv, TypeOK
<1>3. ASSUME NEW j \in Job
      PROVE  JobOK(j)'
    <2>1. JobOK(j)
        BY DEF IInv
    <2>. QED  BY <1>1, <2>1 DEF IInv, TypeOK, JobOK, Owns, Live
<1>4. ASSUME NEW q \in Pod
      PROVE  PodOK(q)'
    BY <1>1 DEF IInv, TypeOK, PodOK
<1>5. pass' = pass /\ pass.at = <<"idle">> /\ pods' = pods
    BY <1>1
<1>6. RecordedLate'
    BY <1>5 DEF RecordedLate, Judging
<1>7. KillOK'
    BY <1>5 DEF IInv, KillOK
<1>. QED  BY <1>2, <1>3, <1>4, <1>6, <1>7 DEF IInv

\* A step of the pass touches no job.
LEMMA PassKeeps ==
    ASSUME IInv, UNCHANGED <<row, wf, held, tag, age>>,
           TypeOK', RecordedLate', KillOK',
           \A p \in Pod : pods[p] # "absent" <=> pods'[p] # "absent"
    PROVE  IInv'
PROOF
<1>1. ASSUME NEW j \in Job
      PROVE  JobOK(j)'
    <2>1. JobOK(j) /\ held[j] \in Pod \cup {NoPod} /\ row[j].pod_id \in Pod \cup {NoPod}
        BY DEF IInv, TypeOK, JobRow
    <2>. QED  BY <2>1 DEF JobOK, Owns, Live
<1>2. ASSUME NEW p \in Pod
      PROVE  PodOK(p)'
    BY DEF IInv, PodOK
<1>. QED  BY <1>1, <1>2 DEF IInv

LEMMA GetPodsStep ==
    ASSUME IInv, GetPods
    PROVE  IInv'
PROOF
<1>1. /\ pass' = [Resting EXCEPT !.at = <<"read">>, !.listed = {p \in Pod : pods[p] = "up"}]
      /\ UNCHANGED wfVars
    BY DEF GetPods
<1>2. /\ pass'.at = <<"read">> /\ pass'.listed = {p \in Pod : pods[p] = "up"}
      /\ pass'.active = {}
    BY <1>1 DEF Resting
<1>3. TypeOK'
    BY <1>1 DEF IInv, TypeOK, wfVars, Resting
<1>4. RecordedLate' /\ KillOK'
    BY <1>1, <1>2 DEF RecordedLate, Judging, KillOK, wfVars
<1>. QED  BY <1>1, <1>3, <1>4, PassKeeps DEF wfVars

LEMMA GetActiveStep ==
    ASSUME IInv, GetActivePodIds
    PROVE  IInv'
PROOF
<1>1. /\ pass.at = <<"read">> /\ UNCHANGED wfVars
      /\ pass'.at = <<"loop">> /\ pass'.listed = pass.listed
      /\ pass'.active = {row[j].pod_id : j \in {i \in Job : row[i].status \in Active}}
      /\ pass' \in [at : {<<"idle">>, <<"read">>, <<"loop">>} \cup ({"kill"} \X Pod),
                    listed : SUBSET Pod, active : SUBSET (Pod \cup {NoPod})]
    <2>1. {row[j].pod_id : j \in {i \in Job : row[i].status \in Active}} \subseteq Pod \cup {NoPod}
        BY DEF IInv, TypeOK, JobRow
    <2>. QED  BY <2>1 DEF GetActivePodIds, IInv, TypeOK
<1>2. TypeOK'
    BY <1>1 DEF IInv, TypeOK, wfVars
<1>3. RecordedLate'
    BY <1>1 DEF RecordedLate, Live, Active, wfVars
<1>4. KillOK'
    BY <1>1 DEF IInv, KillOK, wfVars
<1>. QED  BY <1>1, <1>2, <1>3, <1>4, PassKeeps DEF wfVars

\* The steps after which the pass is at rest.
LEMMA RestStep ==
    ASSUME IInv, pass' = Resting, UNCHANGED wfVars
    PROVE  IInv'
PROOF
<1>1. TypeOK'
    BY DEF IInv, TypeOK, wfVars, Resting
<1>2. RecordedLate' /\ KillOK'
    BY DEF RecordedLate, Judging, KillOK, Resting
<1>. QED  BY <1>1, <1>2, PassKeeps DEF wfVars

LEMMA JudgeStep ==
    ASSUME IInv, NEW p \in Pod, Judge(p)
    PROVE  IInv'
PROOF
<1>1. /\ pass.at = <<"loop">> /\ p \in pass.listed /\ UNCHANGED wfVars
      /\ pass'.at = IF Spared(p) THEN <<"loop">> ELSE <<"kill", p>>
      /\ pass'.listed \subseteq pass.listed /\ pass'.active = pass.active
      /\ TypeOK'
    BY DEF Judge, IInv, TypeOK, wfVars
<1>2. RecordedLate'
    BY <1>1 DEF IInv, RecordedLate, Judging, Live, wfVars
<1>3. ~Spared(p) => /\ p \notin pass.active /\ age[p] # Young
                    /\ age[p] # MismatchGrace => tag[p] = NoJob \/ ~Live(tag[p])
    BY DEF Spared, Live, IInv, TypeOK, Young, Grace, MismatchGrace
<1>4. KillOK'
    BY <1>1, <1>3 DEF IInv, KillOK, Live, wfVars
<1>. QED  BY <1>1, <1>2, <1>4, PassKeeps DEF wfVars

\* Back to the loop, with or without the pod gone.
LEMMA KillStep ==
    ASSUME IInv, NEW p \in Pod, Terminate(p) \/ TerminateFails(p)
    PROVE  IInv'
PROOF
<1>1. /\ pass.at = <<"kill", p>> /\ pass' = [pass EXCEPT !.at = <<"loop">>]
      /\ UNCHANGED <<row, wf, held, tag, age>> /\ pods' \in {pods, Killed(p)}
    BY DEF Terminate, TerminateFails, wfVars
<1>2. /\ pods' \in [Pod -> {"absent", "up", "gone"}]
      /\ \A q \in Pod : pods[q] # "absent" <=> pods'[q] # "absent"
    BY <1>1 DEF IInv, TypeOK, KillOK, Killed
<1>3. TypeOK'
    BY <1>1, <1>2 DEF IInv, TypeOK
<1>4. RecordedLate'
    BY <1>1 DEF IInv, TypeOK, RecordedLate, Judging, Live
<1>5. KillOK'
    BY <1>1, <1>2 DEF IInv, TypeOK, KillOK
<1>. QED  BY <1>1, <1>2, <1>3, <1>4, <1>5, PassKeeps

LEMMA Inductive == Spec => []IInv
PROOF
<1>1. Init => IInv
    <2>. SUFFICES ASSUME Init PROVE IInv
        OBVIOUS
    <2>1. /\ NewRow("PENDING") \in JobRow /\ NewRow("PENDING").status = "PENDING"
          /\ NewRow("PENDING").pod_id = NoPod
        BY DEF NewRow, JobRow, JobStatus, LiveStatus
    <2>2. TypeOK
        BY <2>1, CleanupAssumption
           DEF Init, TypeOK, WfState, Resting, Young, MismatchGrace
    <2>3. \A j \in Job : JobOK(j)
        BY <2>1 DEF Init, JobOK, Owns, Live, LiveStatus
    <2>4. (\A p \in Pod : PodOK(p)) /\ RecordedLate /\ KillOK
        BY DEF Init, PodOK, RecordedLate, Judging, KillOK, Resting
    <2>. QED  BY <2>2, <2>3, <2>4 DEF IInv
<1>2. IInv /\ [Next]_vars => IInv'
    <2>1. ASSUME IInv, UNCHANGED vars
          PROVE  IInv'
        <3>1. TypeOK' /\ RecordedLate' /\ KillOK'
            BY <2>1 DEF vars, wfVars, IInv, TypeOK, RecordedLate, Judging, KillOK, Live
        <3>. QED  BY <2>1, <3>1, PassKeeps DEF vars, wfVars
    <2>. QED
        BY <2>1, JobEffect, JobKeeps, AgeKeeps, GetPodsStep, GetActiveStep, JudgeStep, KillStep,
           RestStep
           DEF Next, Cleanup, PassGivesUp, PassEnds
<1>. QED  BY <1>1, <1>2, PTL DEF Spec

-----------------------------------------------------------------------------
(* What follows from it.                                                     *)

\* Type correctness of the cleanup, of the rows and of the pods.
THEOREM TypeTheorem == Spec => []TypeOK
PROOF
<1>1. IInv => TypeOK
    BY DEF IInv
<1>. QED  BY Inductive, <1>1, PTL

\* cleanup_orphaned_pods does not terminate a pod that a live job works on and
\* its row names, although the pods were listed before the rows were read.
THEOREM NoKillNamedTheorem == Spec => NoKillNamed
PROOF
<1>1. ASSUME IInv, NEW p \in Pod, Terminate(p), NEW j \in Job, InUse(j), held[j] = p
      PROVE  row[j].pod_id # p
    BY <1>1 DEF IInv, Terminate, InUse, KillOK, RecordedLate, Judging, Live
<1>2. IInv => \A p \in Pod : Terminate(p) =>
                  \A j \in Job : InUse(j) /\ held[j] = p => row[j].pod_id # p
    BY <1>1
<1>. QED  BY Inductive, <1>2, PTL DEF NoKillNamed

\* Nor one that is not past the mismatch grace, whatever the row names: the
\* name of the pod leads to the job.
THEOREM NoKillInGraceTheorem == Spec => NoKillInGrace
PROOF
<1>1. ASSUME IInv, NEW p \in Pod, Terminate(p), NEW j \in Job, InUse(j),
             age[p] < MismatchGrace
      PROVE  held[j] # p
    <2>1. /\ age[p] # MismatchGrace
          /\ tag[p] = NoJob \/ ~Live(tag[p])
        BY <1>1 DEF IInv, TypeOK, Terminate, KillOK, Young, MismatchGrace
    <2>2. held[j] = p => tag[p] = j
        BY <1>1, RowAssumption DEF IInv, JobOK, Owns
    <2>. QED  BY <1>1, <2>1, <2>2, CleanupAssumption DEF InUse, Live
<1>2. IInv => \A p \in Pod : Terminate(p) =>
                  \A j \in Job : InUse(j) /\ age[p] < MismatchGrace => held[j] # p
    BY <1>1
<1>. QED  BY Inductive, <1>2, PTL DEF NoKillInGrace

=============================================================================
