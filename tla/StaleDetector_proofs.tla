------------------------ MODULE StaleDetector_proofs ------------------------
(***************************************************************************)
(* What holds of the stale-job detector for any number of jobs and pods,   *)
(* any budgets and any length of time.                                     *)
(*                                                                         *)
(* Nothing keeps the jobs still while a pass is under way.  What saves the *)
(* detector is that a workflow that is over stays over once its identifier *)
(* has been committed, and that a pod never changes hands: the pod of the  *)
(* snapshot may be gone by the time it is killed, but it is nobody else's. *)
(***************************************************************************)
EXTENDS StaleDetector, TLAPS

InSnap(j) == j \in DOMAIN det.snap

\* The pods that have been this job's, as far as anything remembers.
Mine(j) == ({held[j], row[j].pod_id} \cup (IF InSnap(j) THEN {det.snap[j].pod} ELSE {}))
              \ {NoPod}

JobOK(j) ==
    /\ held[j] # NoPod => Open(j)
    /\ Identified(j) => api[j] = "recorded"
    /\ Identified(j) /\ det.at \in {<<"mark", j>>, <<"kill", j>>} => ~Open(j)
    /\ \A p \in Mine(j) : pods[p] # "absent"

Apart == \A j, k \in Job : j # k => Mine(j) \cap Mine(k) = {}

IInv ==
    /\ TypeOK
    /\ \A j \in Job : JobOK(j)
    /\ Apart

-----------------------------------------------------------------------------
(* What a statement does to a row, and a step to a job.                      *)

\* A statement that leaves a job no pod but those it had and p.
Writes(x, y, p) == y \in JobRow /\ y.pod_id \in {x.pod_id, NoPod, p}

LEMMA RowFacts ==
    ASSUME NEW x \in JobRow
    PROVE  /\ \A p \in Pod : Writes(x, UpdatePodId(x, p), p)
           /\ Writes(x, ClearPodId(x), NoPod)
           /\ Writes(x, UpdateStage(x), NoPod)
           /\ Writes(x, TransitionToReporting(x), NoPod)
           /\ Writes(x, SaveReport(x), NoPod)
           /\ Writes(x, MarkFailed(x), NoPod)
           /\ Writes(x, [x EXCEPT !.status = "PENDING"], NoPod)
PROOF
    BY RowAssumption DEF Writes, JobRow, UpdateWhere, UpdatePodId, ClearPodId, UpdateStage,
       MarkFailed, TransitionToReporting, SaveReport, JobStatus, LiveStatus, TerminalStatus

LEMMA NewRowFacts ==
    ASSUME NEW x, NEW s \in JobStatus \cup {"ABSENT"}
    PROVE  Writes(x, NewRow(s), NoPod)
PROOF
    BY DEF Writes, NewRow, JobRow

LEMMA SnapFacts ==
    ASSUME NEW s \in Snapshot
    PROVE  /\ DOMAIN s \subseteq Job
           /\ \A j \in DOMAIN s : s[j].pod \in Pod \cup {NoPod} /\ s[j].recorded \in BOOLEAN
PROOF
    BY DEF Snapshot

\* What all steps of a job have in common.
Effect(j) ==
    /\ row' \in [Job -> JobRow] /\ api' \in [Job -> ApiState]
    /\ created' \in [Job -> 0..MaxTime] /\ wf' \in [Job -> WfState]
    /\ held' \in [Job -> Pod \cup {NoPod}] /\ pods' \in [Pod -> PodState]
    /\ UNCHANGED <<now, det>>
    /\ \A k \in Job : k # j =>
          row'[k] = row[k] /\ api'[k] = api[k] /\ wf'[k] = wf[k] /\ held'[k] = held[k]
    /\ \A p \in Pod : pods[p] # "absent" => pods'[p] # "absent"
    /\ api[j] = "recorded" => api'[j] = "recorded" /\ (Open(j)' => Open(j))
    /\ held'[j] # NoPod => Open(j)'
    /\ \A p \in {held'[j], row'[j].pod_id} \ {NoPod} :
          p \in {held[j], row[j].pod_id} \/ (p \in Pod /\ pods[p] = "absent" /\ pods'[p] # "absent")

LEMMA JobEffect ==
    ASSUME IInv, NEW j \in Job, JobStep(j)
    PROVE  Effect(j)
PROOF
<1>0. /\ TypeOK /\ row[j] \in JobRow /\ held[j] \in Pod \cup {NoPod}
      /\ held[j] # NoPod => Open(j)
      /\ NoPod \notin Pod /\ MaxTime \in Nat /\ now \in 0..MaxTime
    BY RowAssumption, DetectorAssumption DEF IInv, TypeOK, JobOK
<1>k. \A p \in Pod \cup {NoPod} :
         /\ Killed(p) \in [Pod -> PodState]
         /\ \A q \in Pod : pods[q] # "absent" => Killed(p)[q] # "absent"
    BY <1>0 DEF Killed, TypeOK, PodState
<1>. USE <1>0 DEF Effect, TypeOK, Open, WfState, ApiState, Writes, Write
<1>1. CASE CreateStarts(j)
    BY <1>1 DEF CreateStarts
<1>2. CASE CreateCommits(j)
    <2>1. Writes(row[j], NewRow("PENDING"), NoPod)
        BY NewRowFacts DEF JobStatus, LiveStatus
    <2>. QED  BY <1>2, <2>1 DEF CreateCommits
<1>3. CASE CreateDraft(j)
    <2>1. Writes(row[j], NewRow("DRAFT"), NoPod)
        BY NewRowFacts DEF JobStatus
    <2>. QED  BY <1>3, <2>1 DEF CreateDraft
<1>4. CASE LaunchStarts(j)
    BY <1>4 DEF LaunchStarts
<1>5. CASE LaunchCommits(j)
    BY <1>5, RowFacts DEF LaunchCommits
<1>6. CASE WfStage(j)
    BY <1>6, RowFacts DEF WfStage
<1>7. ASSUME NEW p \in Pod, WfProvisions(j, p)
      PROVE  Effect(j)
    <2>1. PICK r : Writes(row[j], r, p) /\ row' = [row EXCEPT ![j] = r]
        BY <1>7, RowFacts DEF WfProvisions
    <2>2. /\ row' \in [Job -> JobRow] /\ row'[j].pod_id \in {row[j].pod_id, NoPod, p}
          /\ \A k \in Job : k # j => row'[k] = row[k]
        BY <2>1
    <2>3. /\ pods[p] = "absent" /\ pods'[p] = "up" /\ pods' \in [Pod -> PodState]
          /\ \A q \in Pod : q # p => pods'[q] = pods[q]
        BY <1>7 DEF WfProvisions, PodState
    <2>4. /\ held' \in [Job -> Pod \cup {NoPod}] /\ held'[j] = p
          /\ wf[j] = "start" /\ wf' \in [Job -> WfState] /\ wf'[j] = "pod"
          /\ \A k \in Job : k # j => held'[k] = held[k] /\ wf'[k] = wf[k]
          /\ UNCHANGED <<api, created, now, det>>
        BY <1>7 DEF WfProvisions
    <2>. QED  BY <2>2, <2>3, <2>4
<1>8. CASE WfSwaps(j)
    BY <1>8, <1>k, RowFacts, ZenonT(30) DEF WfSwaps
<1>9. CASE WfReports(j)
    BY <1>9, RowFacts, ZenonT(30) DEF WfReports
<1>10. CASE WfEnds(j)
    BY <1>10, <1>k DEF WfEnds, Closes
<1>11. CASE WfFails(j)
    BY <1>11, <1>k, RowFacts, ZenonT(30) DEF WfFails, Closes
<1>12. CASE WfLost(j)
    BY <1>12 DEF WfLost, Closes
<1>13. CASE ReportEnds(j)
    <2>1. PICK r : Writes(row[j], r, NoPod) /\ row' = [row EXCEPT ![j] = r]
        BY <1>13, RowFacts DEF ReportEnds
    <2>. QED  BY <1>13, <2>1 DEF ReportEnds
<1>14. CASE UserDeletes(j)
    <2>1. Writes(row[j], NewRow("ABSENT"), NoPod)
        BY NewRowFacts
    <2>. QED  BY <1>14, <2>1 DEF UserDeletes
<1>. QED
    BY <1>1, <1>2, <1>3, <1>4, <1>5, <1>6, <1>7, <1>8, <1>9, <1>10, <1>11, <1>12, <1>13, <1>14
       DEF JobStep

LEMMA JobKeeps ==
    ASSUME IInv, NEW j \in Job, Effect(j)
    PROVE  IInv'
PROOF
<1>0. TypeOK /\ Apart /\ det.snap \in Snapshot
    BY DEF IInv, TypeOK
<1>1. TypeOK'
    BY <1>0 DEF TypeOK, Effect
<1>2. \A k \in Job : k # j => Mine(k)' = Mine(k)
    BY DEF Mine, InSnap, Effect
<1>3. \A p \in Mine(j)' : \/ p \in Mine(j)
                          \/ p \in Pod /\ pods[p] = "absent" /\ pods'[p] # "absent"
    BY DEF Mine, InSnap, Effect
<1>4. \A k \in Job : Mine(k) \subseteq Pod /\ \A p \in Mine(k) : pods[p] # "absent"
    BY <1>0, SnapFacts DEF IInv, TypeOK, JobOK, JobRow, Mine, InSnap
<1>5. ASSUME NEW k \in Job
      PROVE  JobOK(k)'
    <2>1. JobOK(k)
        BY DEF IInv
    <2>2. \A p \in Mine(k)' : pods'[p] # "absent"
        BY <1>2, <1>3, <1>4 DEF Effect
    <2>3. CASE k = j
        BY <2>1, <2>2, <2>3 DEF JobOK, Effect, Identified
    <2>4. CASE k # j
        BY <2>1, <2>2, <2>4 DEF JobOK, Effect, Identified, Open
    <2>. QED  BY <2>3, <2>4
<1>6. Apart'
    BY <1>0, <1>2, <1>3, <1>4 DEF Apart
<1>. QED  BY <1>1, <1>5, <1>6 DEF IInv

-----------------------------------------------------------------------------
(* The steps of a pass.                                                      *)

\* A step of the pass that remembers no more than was remembered.
LEMMA PassKeeps ==
    ASSUME IInv, TypeOK', UNCHANGED <<api, wf, held>>,
           \A j \in Job : row'[j].pod_id \in {row[j].pod_id, NoPod},
           \A p \in Pod : pods[p] # "absent" => pods'[p] # "absent",
           \A j \in Job : InSnap(j)' => \/ det'.snap[j].pod = row[j].pod_id
                                        \/ InSnap(j) /\ det'.snap[j] = det.snap[j],
           \A j \in Job : Identified(j)' =>
              /\ api[j] = "recorded"
              /\ det'.at \in {<<"mark", j>>, <<"kill", j>>} => ~Open(j)
    PROVE  IInv'
PROOF
<1>1. \A j \in Job : Mine(j)' \subseteq Mine(j)
    BY DEF Mine, InSnap
<1>2. \A j \in Job : Mine(j) \subseteq Pod /\ \A p \in Mine(j) : pods[p] # "absent"
    BY SnapFacts DEF IInv, TypeOK, JobOK, JobRow, Mine, InSnap
<1>3. ASSUME NEW j \in Job
      PROVE  JobOK(j)'
    BY <1>1, <1>2 DEF IInv, JobOK, Open
<1>4. Apart'
    BY <1>1 DEF IInv, Apart
<1>. QED  BY <1>3, <1>4 DEF IInv

LEMMA LoadStep ==
    ASSUME IInv, LoadLiveJobs
    PROVE  IInv'
PROOF
<1>. DEFINE live == {j \in Job : row[j].status \in Scanned}
            snap == [j \in live |->
                        [status |-> row[j].status, pod |-> row[j].pod_id,
                         recorded |-> api[j] = "recorded", created |-> created[j]]]
<1>1. /\ det' = [at |-> <<"loop">>, time |-> now, todo |-> live, snap |-> snap]
      /\ UNCHANGED <<jobVars, now>>
    BY DEF LoadLiveJobs
<1>2. snap \in Snapshot
    <2>1. ASSUME NEW j \in live
          PROVE  snap[j] \in [status : LiveStatus, pod : Pod \cup {NoPod},
                              recorded : BOOLEAN, created : 0..MaxTime]
        BY DEF IInv, TypeOK, JobRow, Scanned
    <2>2. live \in SUBSET Job
        OBVIOUS
    <2>3. snap \in [live -> [status : LiveStatus, pod : Pod \cup {NoPod},
                             recorded : BOOLEAN, created : 0..MaxTime]]
        BY <2>1
    <2>. HIDE DEF live, snap
    <2>. QED  BY <2>2, <2>3 DEF Snapshot
<1>3. TypeOK'
    BY <1>1, <1>2 DEF IInv, TypeOK, jobVars
<1>4. \A j \in Job : InSnap(j)' => /\ det'.snap[j].pod = row[j].pod_id
                                   /\ det'.snap[j].recorded = (api[j] = "recorded")
    BY <1>1 DEF InSnap
<1>. QED  BY <1>1, <1>3, <1>4, PassKeeps DEF jobVars, Identified, InSnap

\* The steps that only move the pass along.
LEMMA GoOnStep ==
    ASSUME IInv, UNCHANGED <<jobVars, now>>,
           det' \in [at : {<<"idle">>, <<"loop">>} \cup ({"describe", "mark", "kill"} \X Job),
                     snap : Snapshot, time : 0..MaxTime, todo : SUBSET Job],
           det'.snap = det.snap, det'.todo \subseteq det.todo,
           \A j \in Job : Identified(j) /\ det'.at \in {<<"mark", j>>, <<"kill", j>>} => ~Open(j)
    PROVE  IInv'
PROOF
<1>1. TypeOK'
    BY DEF IInv, TypeOK, jobVars
<1>. QED  BY <1>1, PassKeeps DEF IInv, JobOK, Identified, InSnap, jobVars

LEMMA NextJobStep ==
    ASSUME IInv, NEW j \in Job, NextJob(j)
    PROVE  IInv'
PROOF
<1>. DEFINE at == CASE ~OverBudget(j) -> <<"loop">>
                    [] OverBudget(j) /\ det.snap[j].recorded -> <<"describe", j>>
                    [] OTHER -> <<"mark", j>>
<1>1. /\ det' = [det EXCEPT !.todo = det.todo \ {j}, !.at = at]
      /\ UNCHANGED <<jobVars, now>>
    BY DEF NextJob
<1>2. /\ at \in {<<"loop">>, <<"describe", j>>, <<"mark", j>>}
      /\ at = <<"mark", j>> => ~det.snap[j].recorded
    OBVIOUS
<1>. HIDE DEF at
<1>3. /\ det'.snap = det.snap /\ det'.todo \subseteq det.todo /\ det'.at = at
      /\ det' \in [at : {<<"idle">>, <<"loop">>} \cup ({"describe", "mark", "kill"} \X Job),
                   snap : Snapshot, time : 0..MaxTime, todo : SUBSET Job]
    <2>1. at \in {<<"idle">>, <<"loop">>} \cup ({"describe", "mark", "kill"} \X Job)
        BY <1>2
    <2>. QED  BY <1>1, <2>1 DEF IInv, TypeOK
<1>4. \A k \in Job : Identified(k) /\ det'.at \in {<<"mark", k>>, <<"kill", k>>} => ~Open(k)
    BY <1>2, <1>3 DEF Identified
<1>. QED  BY <1>1, <1>3, <1>4, GoOnStep

LEMMA DescribedStep ==
    ASSUME IInv, NEW j \in Job, Described(j) \/ NotDescribed(j)
    PROVE  IInv'
PROOF
<1>1. PICK at \in {<<"loop">>, <<"mark", j>>} :
         /\ det' = [det EXCEPT !.at = at] /\ UNCHANGED <<jobVars, now>>
         /\ at = <<"mark", j>> => ~Open(j)
    BY DEF Described, NotDescribed, GoOn
<1>. QED  BY <1>1, GoOnStep DEF IInv, TypeOK, Identified

LEMMA PassEndsStep ==
    ASSUME IInv, PassEnds
    PROVE  IInv'
PROOF
<1>1. /\ det'.at = <<"idle">> /\ DOMAIN det'.snap = {} /\ UNCHANGED <<jobVars, now>>
    BY DEF PassEnds, Resting
<1>2. TypeOK'
    <2>1. <<>> \in Snapshot
        BY DEF Snapshot
    <2>. QED  BY <2>1, DetectorAssumption DEF PassEnds, Resting, IInv, TypeOK, jobVars
<1>. QED  BY <1>1, <1>2, PassKeeps DEF InSnap, Identified, jobVars

LEMMA MarkStep ==
    ASSUME IInv, Mark
    PROVE  IInv'
PROOF
<1>0. PICK j \in Job :
         /\ det.at = <<"mark", j>>
         /\ \E r \in {row[j], MarkFailed(row[j])} : row' = [row EXCEPT ![j] = r]
         /\ det' = [det EXCEPT !.at = <<"kill", j>>]
         /\ UNCHANGED <<api, created, wf, held, pods, now>>
    BY SnapFacts DEF Mark, AtJob, Swallowing, Write, GoOn, IInv, TypeOK
<1>1. PICK r \in {row[j], MarkFailed(row[j])} : row' = [row EXCEPT ![j] = r]
    BY <1>0
<1>2. r \in JobRow /\ r.pod_id \in {row[j].pod_id, NoPod}
    <2>1. Writes(row[j], MarkFailed(row[j]), NoPod) /\ row[j] \in JobRow
        BY RowFacts DEF IInv, TypeOK
    <2>. QED  BY <1>1, <2>1 DEF Writes
<1>3. TypeOK'
    BY <1>0, <1>1, <1>2 DEF IInv, TypeOK
<1>. QED  BY <1>0, <1>1, <1>2, <1>3, PassKeeps DEF IInv, TypeOK, JobOK, Identified, InSnap

LEMMA KillStep ==
    ASSUME IInv, Kill
    PROVE  IInv'
PROOF
<1>1. PICK j \in Job :
         /\ det.at = <<"kill", j>> /\ det' = [det EXCEPT !.at = <<"loop">>]
         /\ pods' \in {pods, Killed(det.snap[j].pod)}
         /\ UNCHANGED <<row, api, created, wf, held, now>>
    BY SnapFacts DEF Kill, AtJob, GoOn, IInv, TypeOK
<1>2. pods' \in [Pod -> PodState] /\ \A p \in Pod : pods[p] # "absent" => pods'[p] # "absent"
    BY <1>1 DEF IInv, TypeOK, Killed, PodState
<1>3. TypeOK'
    BY <1>1, <1>2 DEF IInv, TypeOK
<1>. QED  BY <1>1, <1>2, <1>3, PassKeeps DEF IInv, TypeOK, JobOK, Identified, InSnap

LEMMA Inductive == Spec => []IInv
PROOF
<1>1. Init => IInv
    <2>. SUFFICES ASSUME Init PROVE IInv
        OBVIOUS
    <2>1. NewRow("ABSENT") \in JobRow /\ NewRow("ABSENT").pod_id = NoPod
        BY DEF NewRow, JobRow
    <2>2. <<>> \in Snapshot /\ DOMAIN <<>> = {}
        BY DEF Snapshot
    <2>3. TypeOK
        BY <2>1, <2>2, DetectorAssumption
           DEF Init, Resting, TypeOK, ApiState, WfState, PodState
    <2>4. \A j \in Job : Mine(j) = {} /\ ~Identified(j)
        BY <2>1, <2>2 DEF Init, Resting, Mine, InSnap, Identified
    <2>. QED  BY <2>3, <2>4 DEF IInv, JobOK, Apart, Init
<1>2. IInv /\ [Next]_vars => IInv'
    <2>1. ASSUME IInv, Tick \/ UNCHANGED vars
          PROVE  IInv'
        <3>1. UNCHANGED <<jobVars, det>> /\ now' \in 0..MaxTime
            BY <2>1, DetectorAssumption DEF Tick, vars, IInv, TypeOK
        <3>2. TypeOK'
            BY <2>1, <3>1 DEF IInv, TypeOK, jobVars
        <3>. QED  BY <2>1, <3>1, <3>2, PassKeeps DEF IInv, JobOK, Identified, InSnap, jobVars
    <2>. QED
        BY <2>1, JobEffect, JobKeeps, LoadStep, NextJobStep, DescribedStep, PassEndsStep, MarkStep,
           KillStep
           DEF Next, Pass
<1>. QED  BY <1>1, <1>2, PTL DEF Spec

-----------------------------------------------------------------------------
(* What follows from it.                                                     *)

\* Type correctness of the detector, of the rows and of the pods.
THEOREM TypeTheorem == Spec => []TypeOK
PROOF
<1>1. IInv => TypeOK
    BY DEF IInv
<1>. QED  BY Inductive, <1>1, PTL

\* detect_stale_jobs fails no job whose identified workflow is running, and
\* terminates no pod such a workflow works on, however much time lies between
\* the snapshot, the query and the two effects.
THEOREM NeverReapsRunningTheorem == Spec => NeverReapsRunning
PROOF
<1>1. ASSUME IInv, Mark, NEW k \in Job, row'[k] # row[k]
      PROVE  ~(Identified(k) /\ Open(k))
    <2>1. PICK j \in Job : det.at = <<"mark", j>> /\ \E r : row' = [row EXCEPT ![j] = r]
        BY <1>1, SnapFacts DEF Mark, AtJob, Write, IInv, TypeOK
    <2>2. k = j
        BY <1>1, <2>1 DEF IInv, TypeOK
    <2>. QED  BY <1>1, <2>1, <2>2 DEF IInv, JobOK
<1>2. ASSUME IInv, Kill, NEW k \in Job, Identified(k), held[k] # NoPod
      PROVE  pods'[held[k]] = pods[held[k]]
    <2>1. PICK j \in Job : /\ det.at = <<"kill", j>> /\ InSnap(j)
                          /\ pods' \in {pods, Killed(det.snap[j].pod)}
        BY <1>2, SnapFacts DEF Kill, AtJob, InSnap, IInv, TypeOK
    <2>2. k # j
        BY <1>2, <2>1 DEF IInv, JobOK
    <2>3. held[k] \in Pod /\ held[k] # det.snap[j].pod
        BY <1>2, <2>1, <2>2 DEF IInv, TypeOK, Apart, Mine
    <2>. QED  BY <2>1, <2>3 DEF Killed
<1>3. IInv => (Mark => \A j \in Job : row'[j] # row[j] => ~(Identified(j) /\ Open(j)))
    BY <1>1
<1>4. IInv => (Kill => \A j \in Job : (Identified(j) /\ held[j] # NoPod) =>
                                          pods'[held[j]] = pods[held[j]])
    BY <1>2
<1>. QED  BY Inductive, <1>3, <1>4, PTL DEF NeverReapsRunning

=============================================================================
