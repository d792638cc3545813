------------------------- MODULE SimWorkflow_proofs -------------------------
(***************************************************************************)
(* Proofs about SimWorkflow, for every set of pods, every retry policy and *)
(* every swap budget: its type, the teardown of pods and the custody it    *)
(* implements with failing statements and overrun attempts, and how a job  *)
(* ends without them.                                                      *)
(***************************************************************************)
EXTENDS SimWorkflow, TLAPS

\* The activities during which the workflow's variable `pod' is set.
PodInHand == {"health", "bad_host_terminate", "poll", "swap_terminate",
              "swap_clear", "finalize"}

\* Whatever names a pod names one that RunPod has created: a creation never
\* brings a name back to life.
NamesExist ==
    /\ row.pod_id # NoPod => pods[row.pod_id] # "absent"
    /\ \A s \in {"cur", "old"} : prov[s].pod # NoPod => pods[prov[s].pod] # "absent"
    /\ \A p \in handed : pods[p] # "absent"

\* Steps that act on prov[s].pod have one.
ProvNames == \A s \in {"cur", "old"} :
                 prov[s].at \in {"probe", "record", "wait"} => prov[s].pod # NoPod

\* Every pod handed over is the one in hand, dead, or given up on.
Accounted ==
    /\ held # NoPod => held \in handed
    /\ pc \in PodInHand => held # NoPod
    /\ prov["cur"].at # "idle" => pc = "provision"
    /\ pc = "provision" => held = NoPod
    /\ pc \in {"enrich", "derive", "pre_failed"} => held = NoPod /\ handed = {}
    /\ pc = "swap_clear" => pods[held] \in Dead
    /\ \A p \in handed :
          \/ p = held /\ pc # "done"
          \/ p \in abandoned
          \/ pods[p] \in Dead

\* A swap is only begun with a swap left in its budget.
BudgetLeft ==
    /\ pc = "bad_host_terminate" => badHosts < MaxBadHost
    /\ pc \in {"swap_terminate", "swap_clear"} => swaps < MaxSwap

IInv == TypeOK /\ NamesExist /\ ProvNames /\ BudgetLeft /\ Accounted

-----------------------------------------------------------------------------
\* A statement that leaves pod_id alone.
KeepsPod(r, n) == n \in JobRow /\ n.pod_id = r.pod_id

\* A statement that may set pod_id to p.
SetsPod(r, n, p) == n \in JobRow /\ n.pod_id \in {r.pod_id, p}

\* Every statement maps a row to a row and, but for three, leaves pod_id alone.
LEMMA RowFacts ==
    ASSUME NEW r \in JobRow
    PROVE  /\ KeepsPod(r, MarkFailed(r))
           /\ KeepsPod(r, SaveResults(r))
           /\ KeepsPod(r, UpdateStage(r))
           /\ KeepsPod(r, UpdateSimData(r))
           /\ KeepsPod(r, TransitionToRunning(r))
           /\ KeepsPod(r, TransitionToReporting(r))
           /\ SetsPod(r, ClearPodId(r), NoPod)
<1> USE DEF JobRow, JobStatus, LiveStatus, TerminalStatus, UpdateWhere, KeepsPod, SetsPod
<1>1. KeepsPod(r, MarkFailed(r))
  BY DEF MarkFailed
<1>2. KeepsPod(r, SaveResults(r))
  BY DEF SaveResults
<1>3. KeepsPod(r, UpdateStage(r))
  BY DEF UpdateStage
<1>4. KeepsPod(r, UpdateSimData(r))
  BY DEF UpdateSimData
<1>5. KeepsPod(r, TransitionToRunning(r))
  BY DEF TransitionToRunning
<1>6. KeepsPod(r, TransitionToReporting(r))
  BY DEF TransitionToReporting
<1>7. SetsPod(r, ClearPodId(r), NoPod)
  BY DEF ClearPodId
<1> QED
  BY <1>1, <1>2, <1>3, <1>4, <1>5, <1>6, <1>7

\* The two statements that record a pod.
LEMMA RowPodFacts ==
    ASSUME NEW r \in JobRow, NEW p \in Pod
    PROVE  SetsPod(r, UpdatePodId(r, p), p) /\ SetsPod(r, UpdateMetadata(r, p), p)
<1> USE DEF JobRow, JobStatus, LiveStatus, TerminalStatus, UpdateWhere, SetsPod
<1>1. SetsPod(r, UpdatePodId(r, p), p)
  BY DEF UpdatePodId
<1>2. SetsPod(r, UpdateMetadata(r, p), p)
  BY DEF UpdateMetadata
<1> QED
  BY <1>1, <1>2

\* Terminating a pod keeps every existing name and every dead pod, and leaves
\* the pod itself dead.
LEMMA KilledFacts ==
    ASSUME pods \in [Pod -> PodState], NEW p \in Pod
    PROVE  /\ Killed(p) \in [Pod -> PodState]
           /\ pods[p] # "absent" => Killed(p)[p] \in Dead
           /\ \A q \in Pod : pods[q] # "absent" => Killed(p)[q] # "absent"
           /\ \A q \in Pod : pods[q] \in Dead => Killed(p)[q] \in Dead
  BY DEF Killed, PodState, Dead

LEMMA InitIInv == Init => IInv
<1> SUFFICES ASSUME Init PROVE IInv
  OBVIOUS
<1>1. row \in JobRow /\ row.pod_id = NoPod
  BY DEF Init, NewRow, JobRow, JobStatus, LiveStatus, TerminalStatus
<1>2. TypeOK
  <2>1. pods \in [Pod -> PodState]
    BY DEF Init, PodState
  <2>2. prov \in [{"cur", "old"} -> [at : ProvStep, pod : Pod \cup {NoPod}]]
    BY DEF Init, Idle, ProvStep
  <2>3. swaps \in 0..MaxSwap /\ badHosts \in 0..MaxBadHost /\ unreachable \in 0..MaxUnreachable
    BY WorkflowAssumption DEF Init
  <2> QED
    BY <1>1, <2>1, <2>2, <2>3 DEF Init, TypeOK, FinStep, Activity
<1>3. NamesExist /\ ProvNames /\ BudgetLeft /\ Accounted
  BY <1>1 DEF Init, NamesExist, ProvNames, BudgetLeft, Accounted, Idle, PodInHand
<1> QED
  BY <1>2, <1>3 DEF IInv

\* One step of a provision_pod attempt, the awaited one or an overrun one.
LEMMA ProvInductive ==
    ASSUME NEW s \in {"cur", "old"}
    PROVE  IInv /\ ProvStepOf(s) => IInv'
<1> USE DEF history, loopVars, GoTo, RetryOr, ProvAt, ProvGoTo, Idle, Fresh,
            Activity, PodState, Dead, ProvStep, FinStep, PodInHand
<1>1. ASSUME IInv, ProvCheck(s) PROVE IInv'
  <2>1. TypeOK'
    BY <1>1, RowAssumption, WorkflowAssumption DEF IInv, TypeOK, BudgetLeft, ProvNames, JobRow,
       ProvCheck
  <2>2. NamesExist'
    BY <1>1, RowAssumption, WorkflowAssumption DEF IInv, TypeOK, JobRow, NamesExist, ProvNames,
       Accounted, ProvCheck
  <2>3. ProvNames'
    BY <1>1, RowAssumption, WorkflowAssumption DEF IInv, TypeOK, ProvNames, ProvCheck
  <2>4. BudgetLeft'
    BY <1>1, RowAssumption, WorkflowAssumption DEF IInv, TypeOK, BudgetLeft, ProvCheck
  <2>5. Accounted'
    BY <1>1, RowAssumption, WorkflowAssumption DEF IInv, TypeOK, NamesExist, ProvNames,
       Accounted, ProvCheck
  <2> QED
    BY <2>1, <2>2, <2>3, <2>4, <2>5 DEF IInv
<1>2. ASSUME IInv, ProvReuse(s) PROVE IInv'
  <2>1. prov[s].pod \in Pod /\ pods[prov[s].pod] # "absent"
    BY <1>2, RowAssumption, WorkflowAssumption DEF IInv, TypeOK, NamesExist, ProvNames,
       Accounted, ProvReuse, ProvReturns, Answers
  <2>2. TypeOK'
    BY <1>2, RowAssumption, WorkflowAssumption, <2>1 DEF IInv, TypeOK, BudgetLeft, ProvNames,
       ProvReuse, ProvReturns, Answers
  <2>3. NamesExist'
    BY <1>2, RowAssumption, WorkflowAssumption, <2>1 DEF IInv, TypeOK, JobRow, NamesExist,
       ProvNames, Accounted, ProvReuse, ProvReturns, Answers
  <2>4. ProvNames'
    BY <1>2, RowAssumption, WorkflowAssumption, <2>1 DEF IInv, TypeOK, ProvNames, ProvReuse,
       ProvReturns, Answers
  <2>5. BudgetLeft'
    BY <1>2, RowAssumption, WorkflowAssumption, <2>1 DEF IInv, TypeOK, BudgetLeft, ProvReuse,
       ProvReturns, Answers
  <2>6. Accounted'
    BY <1>2, RowAssumption, WorkflowAssumption, <2>1 DEF IInv, TypeOK, NamesExist, ProvNames,
       Accounted, ProvReuse, ProvReturns, Answers
  <2> QED
    BY <2>2, <2>3, <2>4, <2>5, <2>6 DEF IInv
<1>3. ASSUME IInv, ProvDiscardStale(s) PROVE IInv'
  <2>1. prov[s].pod \in Pod /\ pods[prov[s].pod] # "absent"
    BY <1>3, RowAssumption, WorkflowAssumption DEF IInv, TypeOK, NamesExist, ProvNames,
       Accounted, ProvDiscardStale, KillAttempt
  <2>2. /\ pods' \in [Pod -> PodState]
        /\ \A q \in Pod : pods[q] # "absent" => pods'[q] # "absent"
        /\ \A q \in Pod : pods[q] \in Dead => pods'[q] \in Dead
    BY <1>3, RowAssumption, WorkflowAssumption, <2>1, KilledFacts DEF IInv, TypeOK,
       ProvDiscardStale, KillAttempt
  <2>3. TypeOK'
    BY <1>3, RowAssumption, WorkflowAssumption, <2>1, <2>2 DEF IInv, TypeOK, BudgetLeft,
       ProvNames, ProvDiscardStale
  <2>4. NamesExist'
    BY <1>3, RowAssumption, WorkflowAssumption, <2>1, <2>2 DEF IInv, TypeOK, JobRow, NamesExist,
       ProvNames, Accounted, ProvDiscardStale
  <2>5. ProvNames'
    BY <1>3, RowAssumption, WorkflowAssumption, <2>1, <2>2 DEF IInv, TypeOK, ProvNames,
       ProvDiscardStale
  <2>6. BudgetLeft'
    BY <1>3, RowAssumption, WorkflowAssumption, <2>1, <2>2 DEF IInv, TypeOK, BudgetLeft,
       ProvDiscardStale
  <2>7. Accounted'
    BY <1>3, RowAssumption, WorkflowAssumption, <2>1, <2>2 DEF IInv, TypeOK, NamesExist,
       ProvNames, Accounted, ProvDiscardStale
  <2> QED
    BY <2>3, <2>4, <2>5, <2>6, <2>7 DEF IInv
<1>4. ASSUME IInv, ProvStage(s) PROVE IInv'
  <2>1. row' \in JobRow /\ row'.pod_id \in {row.pod_id, NoPod}
    BY <1>4, RowAssumption, WorkflowAssumption, RowFacts DEF IInv, TypeOK, ProvStage,
       Swallowing, KeepsPod, SetsPod
  <2>2. TypeOK'
    BY <1>4, RowAssumption, WorkflowAssumption, <2>1 DEF IInv, TypeOK, BudgetLeft, ProvNames,
       ProvStage
  <2>3. NamesExist'
    BY <1>4, RowAssumption, WorkflowAssumption, <2>1 DEF IInv, TypeOK, JobRow, NamesExist,
       ProvNames, Accounted, ProvStage
  <2>4. ProvNames'
    BY <1>4, RowAssumption, WorkflowAssumption, <2>1 DEF IInv, TypeOK, ProvNames, ProvStage
  <2>5. BudgetLeft'
    BY <1>4, RowAssumption, WorkflowAssumption, <2>1 DEF IInv, TypeOK, BudgetLeft, ProvStage
  <2>6. Accounted'
    BY <1>4, RowAssumption, WorkflowAssumption, <2>1 DEF IInv, TypeOK, NamesExist, ProvNames,
       Accounted, ProvStage
  <2> QED
    BY <2>2, <2>3, <2>4, <2>5, <2>6 DEF IInv
<1>5. ASSUME IInv, ProvCreate(s) PROVE IInv'
  <2>1. TypeOK'
    BY <1>5, RowAssumption, WorkflowAssumption DEF IInv, TypeOK, BudgetLeft, ProvNames,
       ProvCreate
  <2>2. NamesExist'
    BY <1>5, RowAssumption, WorkflowAssumption DEF IInv, TypeOK, JobRow, NamesExist, ProvNames,
       Accounted, ProvCreate
  <2>3. ProvNames'
    BY <1>5, RowAssumption, WorkflowAssumption DEF IInv, TypeOK, ProvNames, ProvCreate
  <2>4. BudgetLeft'
    BY <1>5, RowAssumption, WorkflowAssumption DEF IInv, TypeOK, BudgetLeft, ProvCreate
  <2>5. Accounted'
    BY <1>5, RowAssumption, WorkflowAssumption DEF IInv, TypeOK, NamesExist, ProvNames,
       Accounted, ProvCreate
  <2> QED
    BY <2>1, <2>2, <2>3, <2>4, <2>5 DEF IInv
<1>6. ASSUME IInv, ProvNoStock(s) PROVE IInv'
  <2>1. TypeOK'
    BY <1>6, RowAssumption, WorkflowAssumption DEF IInv, TypeOK, BudgetLeft, ProvNames,
       ProvNoStock, ProvFails, LastAttempt
  <2>2. NamesExist'
    BY <1>6, RowAssumption, WorkflowAssumption DEF IInv, TypeOK, JobRow, NamesExist, ProvNames,
       Accounted, ProvNoStock, ProvFails, LastAttempt
  <2>3. ProvNames'
    BY <1>6, RowAssumption, WorkflowAssumption DEF IInv, TypeOK, ProvNames, ProvNoStock,
       ProvFails, LastAttempt
  <2>4. BudgetLeft'
    BY <1>6, RowAssumption, WorkflowAssumption DEF IInv, TypeOK, BudgetLeft, ProvNoStock,
       ProvFails, LastAttempt
  <2>5. Accounted'
    BY <1>6, RowAssumption, WorkflowAssumption DEF IInv, TypeOK, NamesExist, ProvNames,
       Accounted, ProvNoStock, ProvFails, LastAttempt
  <2> QED
    BY <2>1, <2>2, <2>3, <2>4, <2>5 DEF IInv
<1>7. ASSUME IInv, ProvRecord(s) PROVE IInv'
  <2>1. prov[s].pod \in Pod /\ pods[prov[s].pod] # "absent"
    BY <1>7, RowAssumption, WorkflowAssumption DEF IInv, TypeOK, NamesExist, ProvNames,
       Accounted, ProvRecord, Swallowing, KeepsPod, SetsPod
  <2>2. SetsPod(row, UpdatePodId(row, prov[s].pod), prov[s].pod)
    BY <1>7, RowAssumption, WorkflowAssumption, <2>1, RowPodFacts DEF IInv, TypeOK
  <2>3. row' \in JobRow /\ row'.pod_id \in {row.pod_id, prov[s].pod}
    BY <1>7, RowAssumption, WorkflowAssumption, <2>1, <2>2 DEF IInv, TypeOK, ProvRecord,
       Swallowing, KeepsPod, SetsPod
  <2>4. TypeOK'
    BY <1>7, RowAssumption, WorkflowAssumption, <2>1, <2>2, <2>3 DEF IInv, TypeOK, BudgetLeft,
       ProvNames, ProvRecord
  <2>5. NamesExist'
    BY <1>7, RowAssumption, WorkflowAssumption, <2>1, <2>2, <2>3 DEF IInv, TypeOK, JobRow,
       NamesExist, ProvNames, Accounted, ProvRecord
  <2>6. ProvNames'
    BY <1>7, RowAssumption, WorkflowAssumption, <2>1, <2>2, <2>3 DEF IInv, TypeOK, ProvNames,
       ProvRecord
  <2>7. BudgetLeft'
    BY <1>7, RowAssumption, WorkflowAssumption, <2>1, <2>2, <2>3 DEF IInv, TypeOK, BudgetLeft,
       ProvRecord
  <2>8. Accounted'
    BY <1>7, RowAssumption, WorkflowAssumption, <2>1, <2>2, <2>3 DEF IInv, TypeOK, NamesExist,
       ProvNames, Accounted, ProvRecord
  <2> QED
    BY <2>4, <2>5, <2>6, <2>7, <2>8 DEF IInv
<1>8. ASSUME IInv, ProvReady(s) PROVE IInv'
  <2>1. prov[s].pod \in Pod /\ pods[prov[s].pod] # "absent"
    BY <1>8, RowAssumption, WorkflowAssumption DEF IInv, TypeOK, NamesExist, ProvNames,
       Accounted, ProvReady, ProvReturns
  <2>2. TypeOK'
    BY <1>8, RowAssumption, WorkflowAssumption, <2>1 DEF IInv, TypeOK, BudgetLeft, ProvNames,
       ProvReady, ProvReturns
  <2>3. NamesExist'
    BY <1>8, RowAssumption, WorkflowAssumption, <2>1 DEF IInv, TypeOK, JobRow, NamesExist,
       ProvNames, Accounted, ProvReady, ProvReturns
  <2>4. ProvNames'
    BY <1>8, RowAssumption, WorkflowAssumption, <2>1 DEF IInv, TypeOK, ProvNames, ProvReady,
       ProvReturns
  <2>5. BudgetLeft'
    BY <1>8, RowAssumption, WorkflowAssumption, <2>1 DEF IInv, TypeOK, BudgetLeft, ProvReady,
       ProvReturns
  <2>6. Accounted'
    BY <1>8, RowAssumption, WorkflowAssumption, <2>1 DEF IInv, TypeOK, NamesExist, ProvNames,
       Accounted, ProvReady, ProvReturns
  <2> QED
    BY <2>2, <2>3, <2>4, <2>5, <2>6 DEF IInv
<1>9. ASSUME IInv, ProvNotReady(s) PROVE IInv'
  <2>1. prov[s].pod \in Pod /\ pods[prov[s].pod] # "absent"
    BY <1>9, RowAssumption, WorkflowAssumption DEF IInv, TypeOK, NamesExist, ProvNames,
       Accounted, ProvNotReady, KillAttempt, ProvFails, LastAttempt
  <2>2. /\ pods' \in [Pod -> PodState]
        /\ \A q \in Pod : pods[q] # "absent" => pods'[q] # "absent"
        /\ \A q \in Pod : pods[q] \in Dead => pods'[q] \in Dead
    BY <1>9, RowAssumption, WorkflowAssumption, <2>1, KilledFacts DEF IInv, TypeOK,
       ProvNotReady, KillAttempt, ProvFails, LastAttempt
  <2>3. TypeOK'
    BY <1>9, RowAssumption, WorkflowAssumption, <2>1, <2>2 DEF IInv, TypeOK, BudgetLeft,
       ProvNames, ProvNotReady, ProvFails, LastAttempt
  <2>4. NamesExist'
    BY <1>9, RowAssumption, WorkflowAssumption, <2>1, <2>2 DEF IInv, TypeOK, JobRow, NamesExist,
       ProvNames, Accounted, ProvNotReady, ProvFails, LastAttempt
  <2>5. ProvNames'
    BY <1>9, RowAssumption, WorkflowAssumption, <2>1, <2>2 DEF IInv, TypeOK, ProvNames,
       ProvNotReady, ProvFails, LastAttempt
  <2>6. BudgetLeft'
    BY <1>9, RowAssumption, WorkflowAssumption, <2>1, <2>2 DEF IInv, TypeOK, BudgetLeft,
       ProvNotReady, ProvFails, LastAttempt
  <2>7. Accounted'
    BY <1>9, RowAssumption, WorkflowAssumption, <2>1, <2>2 DEF IInv, TypeOK, NamesExist,
       ProvNames, Accounted, ProvNotReady, ProvFails, LastAttempt
  <2> QED
    BY <2>3, <2>4, <2>5, <2>6, <2>7 DEF IInv
<1>10. ASSUME IInv, ProvDies(s) PROVE IInv'
  <2>1. TypeOK'
    BY <1>10, RowAssumption, WorkflowAssumption DEF IInv, TypeOK, BudgetLeft, ProvNames,
       ProvDies, ProvFails, LastAttempt
  <2>2. NamesExist'
    BY <1>10, RowAssumption, WorkflowAssumption DEF IInv, TypeOK, JobRow, NamesExist, ProvNames,
       Accounted, ProvDies, ProvFails, LastAttempt
  <2>3. ProvNames'
    BY <1>10, RowAssumption, WorkflowAssumption DEF IInv, TypeOK, ProvNames, ProvDies,
       ProvFails, LastAttempt
  <2>4. BudgetLeft'
    BY <1>10, RowAssumption, WorkflowAssumption DEF IInv, TypeOK, BudgetLeft, ProvDies,
       ProvFails, LastAttempt
  <2>5. Accounted'
    BY <1>10, RowAssumption, WorkflowAssumption DEF IInv, TypeOK, NamesExist, ProvNames,
       Accounted, ProvDies, ProvFails, LastAttempt
  <2> QED
    BY <2>1, <2>2, <2>3, <2>4, <2>5 DEF IInv
<1> QED
  BY <1>1, <1>2, <1>3, <1>4, <1>5, <1>6, <1>7, <1>8, <1>9, <1>10 DEF ProvStepOf

\* Every other step.
LEMMA StepInductive == IInv /\ [Next]_vars => IInv'
<1> USE DEF history, loopVars, GoTo, RetryOr, Idle,
            Activity, PodState, Dead, ProvStep, FinStep, PodInHand
<1>1. ASSUME IInv, NEW p \in Pod, PodReady(p) PROVE IInv'
  <2>1. TypeOK'
    BY <1>1, RowAssumption, WorkflowAssumption DEF IInv, TypeOK, BudgetLeft, ProvNames, PodReady
  <2>2. NamesExist'
    BY <1>1, RowAssumption, WorkflowAssumption DEF IInv, TypeOK, JobRow, NamesExist, ProvNames,
       Accounted, PodReady
  <2>3. ProvNames'
    BY <1>1, RowAssumption, WorkflowAssumption DEF IInv, TypeOK, ProvNames, PodReady
  <2>4. BudgetLeft'
    BY <1>1, RowAssumption, WorkflowAssumption DEF IInv, TypeOK, BudgetLeft, PodReady
  <2>5. Accounted'
    BY <1>1, RowAssumption, WorkflowAssumption DEF IInv, TypeOK, NamesExist, ProvNames,
       Accounted, PodReady
  <2> QED
    BY <2>1, <2>2, <2>3, <2>4, <2>5 DEF IInv
<1>2. ASSUME IInv, NEW p \in Pod, PodVanishes(p) PROVE IInv'
  <2>1. TypeOK'
    BY <1>2, RowAssumption, WorkflowAssumption DEF IInv, TypeOK, BudgetLeft, ProvNames,
       PodVanishes
  <2>2. NamesExist'
    BY <1>2, RowAssumption, WorkflowAssumption DEF IInv, TypeOK, JobRow, NamesExist, ProvNames,
       Accounted, PodVanishes
  <2>3. ProvNames'
    BY <1>2, RowAssumption, WorkflowAssumption DEF IInv, TypeOK, ProvNames, PodVanishes
  <2>4. BudgetLeft'
    BY <1>2, RowAssumption, WorkflowAssumption DEF IInv, TypeOK, BudgetLeft, PodVanishes
  <2>5. Accounted'
    BY <1>2, RowAssumption, WorkflowAssumption DEF IInv, TypeOK, NamesExist, ProvNames,
       Accounted, PodVanishes
  <2> QED
    BY <2>1, <2>2, <2>3, <2>4, <2>5 DEF IInv
<1>3. ASSUME IInv, PreGpuDone PROVE IInv'
  <2>1. TypeOK'
    BY <1>3, RowAssumption, WorkflowAssumption DEF IInv, TypeOK, BudgetLeft, ProvNames,
       PreGpuDone, StartProvisioning, Fresh
  <2>2. NamesExist'
    BY <1>3, RowAssumption, WorkflowAssumption DEF IInv, TypeOK, JobRow, NamesExist, ProvNames,
       Accounted, PreGpuDone, StartProvisioning, Fresh
  <2>3. ProvNames'
    BY <1>3, RowAssumption, WorkflowAssumption DEF IInv, TypeOK, ProvNames, PreGpuDone,
       StartProvisioning, Fresh
  <2>4. BudgetLeft'
    BY <1>3, RowAssumption, WorkflowAssumption DEF IInv, TypeOK, BudgetLeft, PreGpuDone,
       StartProvisioning, Fresh
  <2>5. Accounted'
    BY <1>3, RowAssumption, WorkflowAssumption DEF IInv, TypeOK, NamesExist, ProvNames,
       Accounted, PreGpuDone, StartProvisioning, Fresh
  <2> QED
    BY <2>1, <2>2, <2>3, <2>4, <2>5 DEF IInv
<1>4. ASSUME IInv, PreGpuAttemptFails PROVE IInv'
  <2>1. TypeOK'
    BY <1>4, RowAssumption, WorkflowAssumption DEF IInv, TypeOK, BudgetLeft, ProvNames,
       PreGpuAttemptFails
  <2>2. NamesExist'
    BY <1>4, RowAssumption, WorkflowAssumption DEF IInv, TypeOK, JobRow, NamesExist, ProvNames,
       Accounted, PreGpuAttemptFails
  <2>3. ProvNames'
    BY <1>4, RowAssumption, WorkflowAssumption DEF IInv, TypeOK, ProvNames, PreGpuAttemptFails
  <2>4. BudgetLeft'
    BY <1>4, RowAssumption, WorkflowAssumption DEF IInv, TypeOK, BudgetLeft, PreGpuAttemptFails
  <2>5. Accounted'
    BY <1>4, RowAssumption, WorkflowAssumption DEF IInv, TypeOK, NamesExist, ProvNames,
       Accounted, PreGpuAttemptFails
  <2> QED
    BY <2>1, <2>2, <2>3, <2>4, <2>5 DEF IInv
<1>5. ASSUME IInv, HealthOk PROVE IInv'
  <2>1. TypeOK'
    BY <1>5, RowAssumption, WorkflowAssumption DEF IInv, TypeOK, BudgetLeft, ProvNames,
       HealthOk, Answers
  <2>2. NamesExist'
    BY <1>5, RowAssumption, WorkflowAssumption DEF IInv, TypeOK, JobRow, NamesExist, ProvNames,
       Accounted, HealthOk, Answers
  <2>3. ProvNames'
    BY <1>5, RowAssumption, WorkflowAssumption DEF IInv, TypeOK, ProvNames, HealthOk, Answers
  <2>4. BudgetLeft'
    BY <1>5, RowAssumption, WorkflowAssumption DEF IInv, TypeOK, BudgetLeft, HealthOk, Answers
  <2>5. Accounted'
    BY <1>5, RowAssumption, WorkflowAssumption DEF IInv, TypeOK, NamesExist, ProvNames,
       Accounted, HealthOk, Answers
  <2> QED
    BY <2>1, <2>2, <2>3, <2>4, <2>5 DEF IInv
<1>6. ASSUME IInv, HealthFails PROVE IInv'
  <2>1. TypeOK'
    BY <1>6, RowAssumption, WorkflowAssumption DEF IInv, TypeOK, BudgetLeft, ProvNames,
       HealthFails
  <2>2. NamesExist'
    BY <1>6, RowAssumption, WorkflowAssumption DEF IInv, TypeOK, JobRow, NamesExist, ProvNames,
       Accounted, HealthFails
  <2>3. ProvNames'
    BY <1>6, RowAssumption, WorkflowAssumption DEF IInv, TypeOK, ProvNames, HealthFails
  <2>4. BudgetLeft'
    BY <1>6, RowAssumption, WorkflowAssumption DEF IInv, TypeOK, BudgetLeft, HealthFails
  <2>5. Accounted'
    BY <1>6, RowAssumption, WorkflowAssumption DEF IInv, TypeOK, NamesExist, ProvNames,
       Accounted, HealthFails
  <2> QED
    BY <2>1, <2>2, <2>3, <2>4, <2>5 DEF IInv
<1>7. ASSUME IInv, BadHostSwap PROVE IInv'
  <2>1. held \in Pod /\ pods[held] # "absent"
    BY <1>7, RowAssumption, WorkflowAssumption DEF IInv, TypeOK, NamesExist, ProvNames,
       Accounted, BadHostSwap, StartProvisioning, Fresh
  <2>2. /\ pods' \in [Pod -> PodState]
        /\ \A q \in Pod : pods[q] # "absent" => pods'[q] # "absent"
        /\ \A q \in Pod : pods[q] \in Dead => pods'[q] \in Dead
        /\ pods'[held] \in Dead
    BY <1>7, RowAssumption, WorkflowAssumption, <2>1, KilledFacts DEF IInv, TypeOK, BadHostSwap,
       StartProvisioning, Fresh
  <2>3. \A p \in handed : p \in abandoned \/ pods'[p] \in Dead
    <3>1. \A p \in handed : p \in Pod /\ (p = held \/ p \in abandoned \/ pods[p] \in Dead)
      BY <1>7 DEF IInv, TypeOK, Accounted
    <3> QED
      BY <3>1, <2>2
  <2>4. TypeOK'
    BY <1>7, RowAssumption, WorkflowAssumption, <2>1, <2>2, <2>3 DEF IInv, TypeOK, BudgetLeft,
       ProvNames, BadHostSwap, StartProvisioning, Fresh
  <2>5. NamesExist'
    BY <1>7, RowAssumption, WorkflowAssumption, <2>1, <2>2, <2>3 DEF IInv, TypeOK, JobRow,
       NamesExist, ProvNames, Accounted, BadHostSwap, StartProvisioning, Fresh
  <2>6. ProvNames'
    BY <1>7, RowAssumption, WorkflowAssumption, <2>1, <2>2, <2>3 DEF IInv, TypeOK, ProvNames,
       BadHostSwap, StartProvisioning, Fresh
  <2>7. BudgetLeft'
    BY <1>7, RowAssumption, WorkflowAssumption, <2>1, <2>2, <2>3 DEF IInv, TypeOK, BudgetLeft,
       BadHostSwap, StartProvisioning, Fresh
  <2>8. Accounted'
    BY <1>7, RowAssumption, WorkflowAssumption, <2>1, <2>2, <2>3 DEF IInv, TypeOK, NamesExist,
       ProvNames, Accounted, BadHostSwap, StartProvisioning, Fresh
  <2> QED
    BY <2>4, <2>5, <2>6, <2>7, <2>8 DEF IInv
<1>8. ASSUME IInv, PollProgress PROVE IInv'
  <2>1. row' \in JobRow /\ row'.pod_id \in {row.pod_id, NoPod}
    BY <1>8, RowAssumption, WorkflowAssumption, RowFacts DEF IInv, TypeOK, PollProgress,
       PollCallback, Answers, Swallowing, KeepsPod, SetsPod
  <2>2. TypeOK'
    BY <1>8, RowAssumption, WorkflowAssumption, <2>1 DEF IInv, TypeOK, BudgetLeft, ProvNames,
       PollProgress, PollCallback, Answers
  <2>3. NamesExist'
    BY <1>8, RowAssumption, WorkflowAssumption, <2>1 DEF IInv, TypeOK, JobRow, NamesExist,
       ProvNames, Accounted, PollProgress, PollCallback, Answers
  <2>4. ProvNames'
    BY <1>8, RowAssumption, WorkflowAssumption, <2>1 DEF IInv, TypeOK, ProvNames, PollProgress,
       PollCallback, Answers
  <2>5. BudgetLeft'
    BY <1>8, RowAssumption, WorkflowAssumption, <2>1 DEF IInv, TypeOK, BudgetLeft, PollProgress,
       PollCallback, Answers
  <2>6. Accounted'
    BY <1>8, RowAssumption, WorkflowAssumption, <2>1 DEF IInv, TypeOK, NamesExist, ProvNames,
       Accounted, PollProgress, PollCallback, Answers
  <2> QED
    BY <2>2, <2>3, <2>4, <2>5, <2>6 DEF IInv
<1>9. ASSUME IInv, NEW up \in BOOLEAN, PollCompletes(up) PROVE IInv'
  <2>1. row' \in JobRow /\ row'.pod_id \in {row.pod_id, NoPod}
    BY <1>9, RowAssumption, WorkflowAssumption, RowFacts DEF IInv, TypeOK, PollCompletes,
       Swallowing, KeepsPod, SetsPod, Answers
  <2>2. TypeOK'
    BY <1>9, RowAssumption, WorkflowAssumption, <2>1 DEF IInv, TypeOK, BudgetLeft, ProvNames,
       PollCompletes, Answers
  <2>3. NamesExist'
    BY <1>9, RowAssumption, WorkflowAssumption, <2>1 DEF IInv, TypeOK, JobRow, NamesExist,
       ProvNames, Accounted, PollCompletes, Answers
  <2>4. ProvNames'
    BY <1>9, RowAssumption, WorkflowAssumption, <2>1 DEF IInv, TypeOK, ProvNames, PollCompletes,
       Answers
  <2>5. BudgetLeft'
    BY <1>9, RowAssumption, WorkflowAssumption, <2>1 DEF IInv, TypeOK, BudgetLeft,
       PollCompletes, Answers
  <2>6. Accounted'
    BY <1>9, RowAssumption, WorkflowAssumption, <2>1 DEF IInv, TypeOK, NamesExist, ProvNames,
       Accounted, PollCompletes, Answers
  <2> QED
    BY <2>2, <2>3, <2>4, <2>5, <2>6 DEF IInv
<1>10. ASSUME IInv, PollUnreachable PROVE IInv'
  <2>1. TypeOK'
    BY <1>10, RowAssumption, WorkflowAssumption DEF IInv, TypeOK, BudgetLeft, ProvNames,
       PollUnreachable
  <2>2. NamesExist'
    BY <1>10, RowAssumption, WorkflowAssumption DEF IInv, TypeOK, JobRow, NamesExist, ProvNames,
       Accounted, PollUnreachable
  <2>3. ProvNames'
    BY <1>10, RowAssumption, WorkflowAssumption DEF IInv, TypeOK, ProvNames, PollUnreachable
  <2>4. BudgetLeft'
    BY <1>10, RowAssumption, WorkflowAssumption DEF IInv, TypeOK, BudgetLeft, PollUnreachable
  <2>5. Accounted'
    BY <1>10, RowAssumption, WorkflowAssumption DEF IInv, TypeOK, NamesExist, ProvNames,
       Accounted, PollUnreachable
  <2> QED
    BY <2>1, <2>2, <2>3, <2>4, <2>5 DEF IInv
<1>11. ASSUME IInv, PollSwap PROVE IInv'
  <2>1. TypeOK'
    BY <1>11, RowAssumption, WorkflowAssumption DEF IInv, TypeOK, BudgetLeft, ProvNames,
       PollSwap
  <2>2. NamesExist'
    BY <1>11, RowAssumption, WorkflowAssumption DEF IInv, TypeOK, JobRow, NamesExist, ProvNames,
       Accounted, PollSwap
  <2>3. ProvNames'
    BY <1>11, RowAssumption, WorkflowAssumption DEF IInv, TypeOK, ProvNames, PollSwap
  <2>4. BudgetLeft'
    BY <1>11, RowAssumption, WorkflowAssumption DEF IInv, TypeOK, BudgetLeft, PollSwap
  <2>5. Accounted'
    BY <1>11, RowAssumption, WorkflowAssumption DEF IInv, TypeOK, NamesExist, ProvNames,
       Accounted, PollSwap
  <2> QED
    BY <2>1, <2>2, <2>3, <2>4, <2>5 DEF IInv
<1>12. ASSUME IInv, PollFails PROVE IInv'
  <2>1. row' \in JobRow /\ row'.pod_id \in {row.pod_id, NoPod}
    BY <1>12, RowAssumption, WorkflowAssumption, RowFacts DEF IInv, TypeOK, PollFails,
       Swallowing, KeepsPod, SetsPod
  <2>2. TypeOK'
    BY <1>12, RowAssumption, WorkflowAssumption, <2>1 DEF IInv, TypeOK, BudgetLeft, ProvNames,
       PollFails
  <2>3. NamesExist'
    BY <1>12, RowAssumption, WorkflowAssumption, <2>1 DEF IInv, TypeOK, JobRow, NamesExist,
       ProvNames, Accounted, PollFails
  <2>4. ProvNames'
    BY <1>12, RowAssumption, WorkflowAssumption, <2>1 DEF IInv, TypeOK, ProvNames, PollFails
  <2>5. BudgetLeft'
    BY <1>12, RowAssumption, WorkflowAssumption, <2>1 DEF IInv, TypeOK, BudgetLeft, PollFails
  <2>6. Accounted'
    BY <1>12, RowAssumption, WorkflowAssumption, <2>1 DEF IInv, TypeOK, NamesExist, ProvNames,
       Accounted, PollFails
  <2> QED
    BY <2>2, <2>3, <2>4, <2>5, <2>6 DEF IInv
<1>13. ASSUME IInv, PollOverrun PROVE IInv'
  <2>1. TypeOK'
    BY <1>13, RowAssumption, WorkflowAssumption DEF IInv, TypeOK, BudgetLeft, ProvNames,
       PollOverrun
  <2>2. NamesExist'
    BY <1>13, RowAssumption, WorkflowAssumption DEF IInv, TypeOK, JobRow, NamesExist, ProvNames,
       Accounted, PollOverrun
  <2>3. ProvNames'
    BY <1>13, RowAssumption, WorkflowAssumption DEF IInv, TypeOK, ProvNames, PollOverrun
  <2>4. BudgetLeft'
    BY <1>13, RowAssumption, WorkflowAssumption DEF IInv, TypeOK, BudgetLeft, PollOverrun
  <2>5. Accounted'
    BY <1>13, RowAssumption, WorkflowAssumption DEF IInv, TypeOK, NamesExist, ProvNames,
       Accounted, PollOverrun
  <2> QED
    BY <2>1, <2>2, <2>3, <2>4, <2>5 DEF IInv
<1>14. ASSUME IInv, OverrunPollerWrites PROVE IInv'
  <2>1. row' \in JobRow /\ row'.pod_id \in {row.pod_id, NoPod}
    BY <1>14, RowAssumption, WorkflowAssumption, RowFacts DEF IInv, TypeOK, OverrunPollerWrites,
       PollCallback, Swallowing, KeepsPod, SetsPod
  <2>2. TypeOK'
    BY <1>14, RowAssumption, WorkflowAssumption, <2>1 DEF IInv, TypeOK, BudgetLeft, ProvNames,
       OverrunPollerWrites, PollCallback
  <2>3. NamesExist'
    BY <1>14, RowAssumption, WorkflowAssumption, <2>1 DEF IInv, TypeOK, JobRow, NamesExist,
       ProvNames, Accounted, OverrunPollerWrites, PollCallback
  <2>4. ProvNames'
    BY <1>14, RowAssumption, WorkflowAssumption, <2>1 DEF IInv, TypeOK, ProvNames,
       OverrunPollerWrites, PollCallback
  <2>5. BudgetLeft'
    BY <1>14, RowAssumption, WorkflowAssumption, <2>1 DEF IInv, TypeOK, BudgetLeft,
       OverrunPollerWrites, PollCallback
  <2>6. Accounted'
    BY <1>14, RowAssumption, WorkflowAssumption, <2>1 DEF IInv, TypeOK, NamesExist, ProvNames,
       Accounted, OverrunPollerWrites, PollCallback
  <2> QED
    BY <2>2, <2>3, <2>4, <2>5, <2>6 DEF IInv
<1>15. ASSUME IInv, OverrunPollerEnds PROVE IInv'
  <2>1. row' \in JobRow /\ row'.pod_id \in {row.pod_id, NoPod}
    BY <1>15, RowAssumption, WorkflowAssumption, RowFacts DEF IInv, TypeOK, OverrunPollerEnds,
       Swallowing, KeepsPod, SetsPod
  <2>2. TypeOK'
    BY <1>15, RowAssumption, WorkflowAssumption, <2>1 DEF IInv, TypeOK, BudgetLeft, ProvNames,
       OverrunPollerEnds
  <2>3. NamesExist'
    BY <1>15, RowAssumption, WorkflowAssumption, <2>1 DEF IInv, TypeOK, JobRow, NamesExist,
       ProvNames, Accounted, OverrunPollerEnds
  <2>4. ProvNames'
    BY <1>15, RowAssumption, WorkflowAssumption, <2>1 DEF IInv, TypeOK, ProvNames,
       OverrunPollerEnds
  <2>5. BudgetLeft'
    BY <1>15, RowAssumption, WorkflowAssumption, <2>1 DEF IInv, TypeOK, BudgetLeft,
       OverrunPollerEnds
  <2>6. Accounted'
    BY <1>15, RowAssumption, WorkflowAssumption, <2>1 DEF IInv, TypeOK, NamesExist, ProvNames,
       Accounted, OverrunPollerEnds
  <2> QED
    BY <2>2, <2>3, <2>4, <2>5, <2>6 DEF IInv
<1>16. ASSUME IInv, SwapTerminated PROVE IInv'
  <2>1. held \in Pod /\ pods[held] # "absent"
    BY <1>16, RowAssumption, WorkflowAssumption DEF IInv, TypeOK, NamesExist, ProvNames,
       Accounted, SwapTerminated
  <2>2. /\ pods' \in [Pod -> PodState]
        /\ \A q \in Pod : pods[q] # "absent" => pods'[q] # "absent"
        /\ \A q \in Pod : pods[q] \in Dead => pods'[q] \in Dead
        /\ pods'[held] \in Dead
    BY <1>16, RowAssumption, WorkflowAssumption, <2>1, KilledFacts DEF IInv, TypeOK,
       SwapTerminated
  <2>3. \A p \in handed : p \in abandoned \/ pods'[p] \in Dead
    <3>1. \A p \in handed : p \in Pod /\ (p = held \/ p \in abandoned \/ pods[p] \in Dead)
      BY <1>16 DEF IInv, TypeOK, Accounted
    <3> QED
      BY <3>1, <2>2
  <2>4. TypeOK'
    BY <1>16, RowAssumption, WorkflowAssumption, <2>1, <2>2, <2>3 DEF IInv, TypeOK, BudgetLeft,
       ProvNames, SwapTerminated
  <2>5. NamesExist'
    BY <1>16, RowAssumption, WorkflowAssumption, <2>1, <2>2, <2>3 DEF IInv, TypeOK, JobRow,
       NamesExist, ProvNames, Accounted, SwapTerminated
  <2>6. ProvNames'
    BY <1>16, RowAssumption, WorkflowAssumption, <2>1, <2>2, <2>3 DEF IInv, TypeOK, ProvNames,
       SwapTerminated
  <2>7. BudgetLeft'
    BY <1>16, RowAssumption, WorkflowAssumption, <2>1, <2>2, <2>3 DEF IInv, TypeOK, BudgetLeft,
       SwapTerminated
  <2>8. Accounted'
    BY <1>16, RowAssumption, WorkflowAssumption, <2>1, <2>2, <2>3 DEF IInv, TypeOK, NamesExist,
       ProvNames, Accounted, SwapTerminated
  <2> QED
    BY <2>4, <2>5, <2>6, <2>7, <2>8 DEF IInv
<1>17. ASSUME IInv, SwapCleared PROVE IInv'
  <2>1. row' \in JobRow /\ row'.pod_id \in {row.pod_id, NoPod}
    BY <1>17, RowAssumption, WorkflowAssumption, RowFacts DEF IInv, TypeOK, SwapCleared,
       StartProvisioning, Fresh, Swallowing, KeepsPod, SetsPod
  <2>2. TypeOK'
    BY <1>17, RowAssumption, WorkflowAssumption, <2>1 DEF IInv, TypeOK, BudgetLeft, ProvNames,
       SwapCleared, StartProvisioning, Fresh
  <2>3. NamesExist'
    BY <1>17, RowAssumption, WorkflowAssumption, <2>1 DEF IInv, TypeOK, JobRow, NamesExist,
       ProvNames, Accounted, SwapCleared, StartProvisioning, Fresh
  <2>4. ProvNames'
    BY <1>17, RowAssumption, WorkflowAssumption, <2>1 DEF IInv, TypeOK, ProvNames, SwapCleared,
       StartProvisioning, Fresh
  <2>5. BudgetLeft'
    BY <1>17, RowAssumption, WorkflowAssumption, <2>1 DEF IInv, TypeOK, BudgetLeft, SwapCleared,
       StartProvisioning, Fresh
  <2>6. Accounted'
    BY <1>17, RowAssumption, WorkflowAssumption, <2>1 DEF IInv, TypeOK, NamesExist, ProvNames,
       Accounted, SwapCleared, StartProvisioning, Fresh
  <2> QED
    BY <2>2, <2>3, <2>4, <2>5, <2>6 DEF IInv
<1>18. ASSUME IInv, SwapClearAttemptFails PROVE IInv'
  <2>1. row' \in JobRow /\ row'.pod_id \in {row.pod_id, NoPod}
    BY <1>18, RowAssumption, WorkflowAssumption, RowFacts DEF IInv, TypeOK,
       SwapClearAttemptFails, Swallowing, KeepsPod, SetsPod
  <2>2. TypeOK'
    BY <1>18, RowAssumption, WorkflowAssumption, <2>1 DEF IInv, TypeOK, BudgetLeft, ProvNames,
       SwapClearAttemptFails
  <2>3. NamesExist'
    BY <1>18, RowAssumption, WorkflowAssumption, <2>1 DEF IInv, TypeOK, JobRow, NamesExist,
       ProvNames, Accounted, SwapClearAttemptFails
  <2>4. ProvNames'
    BY <1>18, RowAssumption, WorkflowAssumption, <2>1 DEF IInv, TypeOK, ProvNames,
       SwapClearAttemptFails
  <2>5. BudgetLeft'
    BY <1>18, RowAssumption, WorkflowAssumption, <2>1 DEF IInv, TypeOK, BudgetLeft,
       SwapClearAttemptFails
  <2>6. Accounted'
    BY <1>18, RowAssumption, WorkflowAssumption, <2>1 DEF IInv, TypeOK, NamesExist, ProvNames,
       Accounted, SwapClearAttemptFails
  <2> QED
    BY <2>2, <2>3, <2>4, <2>5, <2>6 DEF IInv
<1>19. ASSUME IInv, FinMeta PROVE IInv'
  <2>1. held \in Pod /\ pods[held] # "absent"
    BY <1>19, RowAssumption, WorkflowAssumption DEF IInv, TypeOK, NamesExist, ProvNames,
       Accounted, FinMeta, FinGoTo, Swallowing, KeepsPod, SetsPod
  <2>2. SetsPod(row, UpdateMetadata(row, held), held)
    BY <1>19, RowAssumption, WorkflowAssumption, <2>1, RowPodFacts DEF IInv, TypeOK
  <2>3. row' \in JobRow /\ row'.pod_id \in {row.pod_id, held}
    BY <1>19, RowAssumption, WorkflowAssumption, <2>1, <2>2 DEF IInv, TypeOK, FinMeta, FinGoTo,
       Swallowing, KeepsPod, SetsPod
  <2>4. TypeOK'
    BY <1>19, RowAssumption, WorkflowAssumption, <2>1, <2>2, <2>3 DEF IInv, TypeOK, BudgetLeft,
       ProvNames, FinMeta, FinGoTo
  <2>5. NamesExist'
    BY <1>19, RowAssumption, WorkflowAssumption, <2>1, <2>2, <2>3 DEF IInv, TypeOK, JobRow,
       NamesExist, ProvNames, Accounted, FinMeta, FinGoTo
  <2>6. ProvNames'
    BY <1>19, RowAssumption, WorkflowAssumption, <2>1, <2>2, <2>3 DEF IInv, TypeOK, ProvNames,
       FinMeta, FinGoTo
  <2>7. BudgetLeft'
    BY <1>19, RowAssumption, WorkflowAssumption, <2>1, <2>2, <2>3 DEF IInv, TypeOK, BudgetLeft,
       FinMeta, FinGoTo
  <2>8. Accounted'
    BY <1>19, RowAssumption, WorkflowAssumption, <2>1, <2>2, <2>3 DEF IInv, TypeOK, NamesExist,
       ProvNames, Accounted, FinMeta, FinGoTo
  <2> QED
    BY <2>4, <2>5, <2>6, <2>7, <2>8 DEF IInv
<1>20. ASSUME IInv, FinNotUploaded PROVE IInv'
  <2>1. held \in Pod /\ pods[held] # "absent"
    BY <1>20, RowAssumption, WorkflowAssumption DEF IInv, TypeOK, NamesExist, ProvNames,
       Accounted, FinNotUploaded, Swallowing, KeepsPod, SetsPod
  <2>2. SetsPod(row, UpdateMetadata(row, held), held)
    BY <1>20, RowAssumption, WorkflowAssumption, <2>1, RowPodFacts DEF IInv, TypeOK
  <2>3. row' \in JobRow /\ row'.pod_id \in {row.pod_id, held}
    BY <1>20, RowAssumption, WorkflowAssumption, <2>1, <2>2 DEF IInv, TypeOK, FinNotUploaded,
       Swallowing, KeepsPod, SetsPod
  <2>4. TypeOK'
    BY <1>20, RowAssumption, WorkflowAssumption, <2>1, <2>2, <2>3 DEF IInv, TypeOK, BudgetLeft,
       ProvNames, FinNotUploaded
  <2>5. NamesExist'
    BY <1>20, RowAssumption, WorkflowAssumption, <2>1, <2>2, <2>3 DEF IInv, TypeOK, JobRow,
       NamesExist, ProvNames, Accounted, FinNotUploaded
  <2>6. ProvNames'
    BY <1>20, RowAssumption, WorkflowAssumption, <2>1, <2>2, <2>3 DEF IInv, TypeOK, ProvNames,
       FinNotUploaded
  <2>7. BudgetLeft'
    BY <1>20, RowAssumption, WorkflowAssumption, <2>1, <2>2, <2>3 DEF IInv, TypeOK, BudgetLeft,
       FinNotUploaded
  <2>8. Accounted'
    BY <1>20, RowAssumption, WorkflowAssumption, <2>1, <2>2, <2>3 DEF IInv, TypeOK, NamesExist,
       ProvNames, Accounted, FinNotUploaded
  <2> QED
    BY <2>4, <2>5, <2>6, <2>7, <2>8 DEF IInv
<1>21. ASSUME IInv, FinSimData PROVE IInv'
  <2>1. row' \in JobRow /\ row'.pod_id \in {row.pod_id, NoPod}
    BY <1>21, RowAssumption, WorkflowAssumption, RowFacts DEF IInv, TypeOK, FinSimData, FinGoTo,
       Swallowing, KeepsPod, SetsPod
  <2>2. TypeOK'
    BY <1>21, RowAssumption, WorkflowAssumption, <2>1 DEF IInv, TypeOK, BudgetLeft, ProvNames,
       FinSimData, FinGoTo
  <2>3. NamesExist'
    BY <1>21, RowAssumption, WorkflowAssumption, <2>1 DEF IInv, TypeOK, JobRow, NamesExist,
       ProvNames, Accounted, FinSimData, FinGoTo
  <2>4. ProvNames'
    BY <1>21, RowAssumption, WorkflowAssumption, <2>1 DEF IInv, TypeOK, ProvNames, FinSimData,
       FinGoTo
  <2>5. BudgetLeft'
    BY <1>21, RowAssumption, WorkflowAssumption, <2>1 DEF IInv, TypeOK, BudgetLeft, FinSimData,
       FinGoTo
  <2>6. Accounted'
    BY <1>21, RowAssumption, WorkflowAssumption, <2>1 DEF IInv, TypeOK, NamesExist, ProvNames,
       Accounted, FinSimData, FinGoTo
  <2> QED
    BY <2>2, <2>3, <2>4, <2>5, <2>6 DEF IInv
<1>22. ASSUME IInv, FinReporting PROVE IInv'
  <2>1. row' \in JobRow /\ row'.pod_id \in {row.pod_id, NoPod}
    BY <1>22, RowAssumption, WorkflowAssumption, RowFacts DEF IInv, TypeOK, FinReporting,
       FinGoTo, Swallowing, KeepsPod, SetsPod
  <2>2. TypeOK'
    BY <1>22, RowAssumption, WorkflowAssumption, <2>1 DEF IInv, TypeOK, BudgetLeft, ProvNames,
       FinReporting, FinGoTo
  <2>3. NamesExist'
    BY <1>22, RowAssumption, WorkflowAssumption, <2>1 DEF IInv, TypeOK, JobRow, NamesExist,
       ProvNames, Accounted, FinReporting, FinGoTo
  <2>4. ProvNames'
    BY <1>22, RowAssumption, WorkflowAssumption, <2>1 DEF IInv, TypeOK, ProvNames, FinReporting,
       FinGoTo
  <2>5. BudgetLeft'
    BY <1>22, RowAssumption, WorkflowAssumption, <2>1 DEF IInv, TypeOK, BudgetLeft,
       FinReporting, FinGoTo
  <2>6. Accounted'
    BY <1>22, RowAssumption, WorkflowAssumption, <2>1 DEF IInv, TypeOK, NamesExist, ProvNames,
       Accounted, FinReporting, FinGoTo
  <2> QED
    BY <2>2, <2>3, <2>4, <2>5, <2>6 DEF IInv
<1>23. ASSUME IInv, FinEnqueue PROVE IInv'
  <2>1. TypeOK'
    BY <1>23, RowAssumption, WorkflowAssumption DEF IInv, TypeOK, BudgetLeft, ProvNames,
       FinEnqueue, FinGoTo
  <2>2. NamesExist'
    BY <1>23, RowAssumption, WorkflowAssumption DEF IInv, TypeOK, JobRow, NamesExist, ProvNames,
       Accounted, FinEnqueue, FinGoTo
  <2>3. ProvNames'
    BY <1>23, RowAssumption, WorkflowAssumption DEF IInv, TypeOK, ProvNames, FinEnqueue, FinGoTo
  <2>4. BudgetLeft'
    BY <1>23, RowAssumption, WorkflowAssumption DEF IInv, TypeOK, BudgetLeft, FinEnqueue,
       FinGoTo
  <2>5. Accounted'
    BY <1>23, RowAssumption, WorkflowAssumption DEF IInv, TypeOK, NamesExist, ProvNames,
       Accounted, FinEnqueue, FinGoTo
  <2> QED
    BY <2>1, <2>2, <2>3, <2>4, <2>5 DEF IInv
<1>24. ASSUME IInv, FinReturns PROVE IInv'
  <2>1. TypeOK'
    BY <1>24, RowAssumption, WorkflowAssumption DEF IInv, TypeOK, BudgetLeft, ProvNames,
       FinReturns
  <2>2. NamesExist'
    BY <1>24, RowAssumption, WorkflowAssumption DEF IInv, TypeOK, JobRow, NamesExist, ProvNames,
       Accounted, FinReturns
  <2>3. ProvNames'
    BY <1>24, RowAssumption, WorkflowAssumption DEF IInv, TypeOK, ProvNames, FinReturns
  <2>4. BudgetLeft'
    BY <1>24, RowAssumption, WorkflowAssumption DEF IInv, TypeOK, BudgetLeft, FinReturns
  <2>5. Accounted'
    BY <1>24, RowAssumption, WorkflowAssumption DEF IInv, TypeOK, NamesExist, ProvNames,
       Accounted, FinReturns
  <2> QED
    BY <2>1, <2>2, <2>3, <2>4, <2>5 DEF IInv
<1>25. ASSUME IInv, FinAttemptFails PROVE IInv'
  <2>1. TypeOK'
    BY <1>25, RowAssumption, WorkflowAssumption DEF IInv, TypeOK, BudgetLeft, ProvNames,
       FinAttemptFails
  <2>2. NamesExist'
    BY <1>25, RowAssumption, WorkflowAssumption DEF IInv, TypeOK, JobRow, NamesExist, ProvNames,
       Accounted, FinAttemptFails
  <2>3. ProvNames'
    BY <1>25, RowAssumption, WorkflowAssumption DEF IInv, TypeOK, ProvNames, FinAttemptFails
  <2>4. BudgetLeft'
    BY <1>25, RowAssumption, WorkflowAssumption DEF IInv, TypeOK, BudgetLeft, FinAttemptFails
  <2>5. Accounted'
    BY <1>25, RowAssumption, WorkflowAssumption DEF IInv, TypeOK, NamesExist, ProvNames,
       Accounted, FinAttemptFails
  <2> QED
    BY <2>1, <2>2, <2>3, <2>4, <2>5 DEF IInv
<1>26. ASSUME IInv, MarkFailedRuns PROVE IInv'
  <2>1. row' \in JobRow /\ row'.pod_id \in {row.pod_id, NoPod}
    BY <1>26, RowAssumption, WorkflowAssumption, RowFacts DEF IInv, TypeOK, MarkFailedRuns,
       AfterMark, Swallowing, KeepsPod, SetsPod
  <2>2. TypeOK'
    BY <1>26, RowAssumption, WorkflowAssumption, <2>1 DEF IInv, TypeOK, BudgetLeft, ProvNames,
       MarkFailedRuns, AfterMark
  <2>3. NamesExist'
    BY <1>26, RowAssumption, WorkflowAssumption, <2>1 DEF IInv, TypeOK, JobRow, NamesExist,
       ProvNames, Accounted, MarkFailedRuns, AfterMark
  <2>4. ProvNames'
    BY <1>26, RowAssumption, WorkflowAssumption, <2>1 DEF IInv, TypeOK, ProvNames,
       MarkFailedRuns, AfterMark
  <2>5. BudgetLeft'
    BY <1>26, RowAssumption, WorkflowAssumption, <2>1 DEF IInv, TypeOK, BudgetLeft,
       MarkFailedRuns, AfterMark
  <2>6. Accounted'
    BY <1>26, RowAssumption, WorkflowAssumption, <2>1 DEF IInv, TypeOK, NamesExist, ProvNames,
       Accounted, MarkFailedRuns, AfterMark
  <2> QED
    BY <2>2, <2>3, <2>4, <2>5, <2>6 DEF IInv
<1>27. ASSUME IInv, MarkFailedAttemptFails PROVE IInv'
  <2>1. row' \in JobRow /\ row'.pod_id \in {row.pod_id, NoPod}
    BY <1>27, RowAssumption, WorkflowAssumption, RowFacts DEF IInv, TypeOK,
       MarkFailedAttemptFails, AfterMark, LastAttempt, Swallowing, KeepsPod, SetsPod
  <2>2. TypeOK'
    BY <1>27, RowAssumption, WorkflowAssumption, <2>1 DEF IInv, TypeOK, BudgetLeft, ProvNames,
       MarkFailedAttemptFails, AfterMark, LastAttempt
  <2>3. NamesExist'
    BY <1>27, RowAssumption, WorkflowAssumption, <2>1 DEF IInv, TypeOK, JobRow, NamesExist,
       ProvNames, Accounted, MarkFailedAttemptFails, AfterMark, LastAttempt
  <2>4. ProvNames'
    BY <1>27, RowAssumption, WorkflowAssumption, <2>1 DEF IInv, TypeOK, ProvNames,
       MarkFailedAttemptFails, AfterMark, LastAttempt
  <2>5. BudgetLeft'
    BY <1>27, RowAssumption, WorkflowAssumption, <2>1 DEF IInv, TypeOK, BudgetLeft,
       MarkFailedAttemptFails, AfterMark, LastAttempt
  <2>6. Accounted'
    BY <1>27, RowAssumption, WorkflowAssumption, <2>1 DEF IInv, TypeOK, NamesExist, ProvNames,
       Accounted, MarkFailedAttemptFails, AfterMark, LastAttempt
  <2> QED
    BY <2>2, <2>3, <2>4, <2>5, <2>6 DEF IInv
<1>28. ASSUME IInv, TeardownNothing PROVE IInv'
  <2>1. TypeOK'
    BY <1>28, RowAssumption, WorkflowAssumption DEF IInv, TypeOK, BudgetLeft, ProvNames,
       TeardownNothing
  <2>2. NamesExist'
    BY <1>28, RowAssumption, WorkflowAssumption DEF IInv, TypeOK, JobRow, NamesExist, ProvNames,
       Accounted, TeardownNothing
  <2>3. ProvNames'
    BY <1>28, RowAssumption, WorkflowAssumption DEF IInv, TypeOK, ProvNames, TeardownNothing
  <2>4. BudgetLeft'
    BY <1>28, RowAssumption, WorkflowAssumption DEF IInv, TypeOK, BudgetLeft, TeardownNothing
  <2>5. Accounted'
    BY <1>28, RowAssumption, WorkflowAssumption DEF IInv, TypeOK, NamesExist, ProvNames,
       Accounted, TeardownNothing
  <2> QED
    BY <2>1, <2>2, <2>3, <2>4, <2>5 DEF IInv
<1>29. ASSUME IInv, TeardownTerminated PROVE IInv'
  <2>1. held \in Pod /\ pods[held] # "absent"
    BY <1>29, RowAssumption, WorkflowAssumption DEF IInv, TypeOK, NamesExist, ProvNames,
       Accounted, TeardownTerminated
  <2>2. /\ pods' \in [Pod -> PodState]
        /\ \A q \in Pod : pods[q] # "absent" => pods'[q] # "absent"
        /\ \A q \in Pod : pods[q] \in Dead => pods'[q] \in Dead
        /\ pods'[held] \in Dead
    BY <1>29, RowAssumption, WorkflowAssumption, <2>1, KilledFacts DEF IInv, TypeOK,
       TeardownTerminated
  <2>3. \A p \in handed : p \in abandoned \/ pods'[p] \in Dead
    <3>1. \A p \in handed : p \in Pod /\ (p = held \/ p \in abandoned \/ pods[p] \in Dead)
      BY <1>29 DEF IInv, TypeOK, Accounted
    <3> QED
      BY <3>1, <2>2
  <2>4. TypeOK'
    BY <1>29, RowAssumption, WorkflowAssumption, <2>1, <2>2, <2>3 DEF IInv, TypeOK, BudgetLeft,
       ProvNames, TeardownTerminated
  <2>5. NamesExist'
    BY <1>29, RowAssumption, WorkflowAssumption, <2>1, <2>2, <2>3 DEF IInv, TypeOK, JobRow,
       NamesExist, ProvNames, Accounted, TeardownTerminated
  <2>6. ProvNames'
    BY <1>29, RowAssumption, WorkflowAssumption, <2>1, <2>2, <2>3 DEF IInv, TypeOK, ProvNames,
       TeardownTerminated
  <2>7. BudgetLeft'
    BY <1>29, RowAssumption, WorkflowAssumption, <2>1, <2>2, <2>3 DEF IInv, TypeOK, BudgetLeft,
       TeardownTerminated
  <2>8. Accounted'
    BY <1>29, RowAssumption, WorkflowAssumption, <2>1, <2>2, <2>3 DEF IInv, TypeOK, NamesExist,
       ProvNames, Accounted, TeardownTerminated
  <2> QED
    BY <2>4, <2>5, <2>6, <2>7, <2>8 DEF IInv
<1>30. ASSUME IInv, TerminateAttemptFails PROVE IInv'
  <2>1. held \in Pod /\ pods[held] # "absent"
    BY <1>30, RowAssumption, WorkflowAssumption DEF IInv, TypeOK, NamesExist, ProvNames,
       Accounted, TerminateAttemptFails, KillAttempt, AfterTerminateFailed, LastAttempt
  <2>2. /\ pods' \in [Pod -> PodState]
        /\ \A q \in Pod : pods[q] # "absent" => pods'[q] # "absent"
        /\ \A q \in Pod : pods[q] \in Dead => pods'[q] \in Dead
    BY <1>30, RowAssumption, WorkflowAssumption, <2>1, KilledFacts DEF IInv, TypeOK,
       TerminateAttemptFails, KillAttempt, AfterTerminateFailed, LastAttempt
  <2>3. TypeOK'
    BY <1>30, RowAssumption, WorkflowAssumption, <2>1, <2>2 DEF IInv, TypeOK, BudgetLeft,
       ProvNames, TerminateAttemptFails, AfterTerminateFailed, LastAttempt
  <2>4. NamesExist'
    BY <1>30, RowAssumption, WorkflowAssumption, <2>1, <2>2 DEF IInv, TypeOK, JobRow,
       NamesExist, ProvNames, Accounted, TerminateAttemptFails, AfterTerminateFailed,
       LastAttempt
  <2>5. ProvNames'
    BY <1>30, RowAssumption, WorkflowAssumption, <2>1, <2>2 DEF IInv, TypeOK, ProvNames,
       TerminateAttemptFails, AfterTerminateFailed, LastAttempt
  <2>6. BudgetLeft'
    BY <1>30, RowAssumption, WorkflowAssumption, <2>1, <2>2 DEF IInv, TypeOK, BudgetLeft,
       TerminateAttemptFails, AfterTerminateFailed, LastAttempt
  <2>7. Accounted'
    BY <1>30, RowAssumption, WorkflowAssumption, <2>1, <2>2 DEF IInv, TypeOK, NamesExist,
       ProvNames, Accounted, TerminateAttemptFails, AfterTerminateFailed, LastAttempt
  <2> QED
    BY <2>3, <2>4, <2>5, <2>6, <2>7 DEF IInv
<1>31. ASSUME IInv, ProvOverrun PROVE IInv'
  <2>1. TypeOK'
    BY <1>31, RowAssumption, WorkflowAssumption DEF IInv, TypeOK, BudgetLeft, ProvNames,
       ProvOverrun, ProvFails, LastAttempt, ProvAt, Fresh
  <2>2. NamesExist'
    BY <1>31, RowAssumption, WorkflowAssumption DEF IInv, TypeOK, JobRow, NamesExist, ProvNames,
       Accounted, ProvOverrun, ProvFails, LastAttempt, ProvAt, Fresh
  <2>3. ProvNames'
    BY <1>31, RowAssumption, WorkflowAssumption DEF IInv, TypeOK, ProvNames, ProvOverrun,
       ProvFails, LastAttempt, ProvAt, Fresh
  <2>4. BudgetLeft'
    BY <1>31, RowAssumption, WorkflowAssumption DEF IInv, TypeOK, BudgetLeft, ProvOverrun,
       ProvFails, LastAttempt, ProvAt, Fresh
  <2>5. Accounted'
    BY <1>31, RowAssumption, WorkflowAssumption DEF IInv, TypeOK, NamesExist, ProvNames,
       Accounted, ProvOverrun, ProvFails, LastAttempt, ProvAt, Fresh
  <2> QED
    BY <2>1, <2>2, <2>3, <2>4, <2>5 DEF IInv
<1>32. CASE UNCHANGED vars
  BY <1>32 DEF vars, IInv, TypeOK, NamesExist, ProvNames, BudgetLeft, Accounted
<1>33. QED
  BY <1>1, <1>2, <1>3, <1>4, <1>5, <1>6, <1>7, <1>8, <1>9, <1>10, <1>11, <1>12, <1>13, <1>14,
     <1>15, <1>16, <1>17, <1>18, <1>19, <1>20, <1>21, <1>22, <1>23, <1>24, <1>25, <1>26, <1>27,
     <1>28, <1>29, <1>30, <1>31, <1>32, ProvInductive
     DEF Next, Workflow, Around

\* No run of the workflow ends with a pod it was handed still running, unless
\* every attempt to terminate that pod failed.
THEOREM TeardownTheorem == Spec => []TeardownComplete
<1>1. IInv => TeardownComplete
  BY DEF IInv, Accounted, TeardownComplete
<1> QED
  BY InitIInv, StepInductive, <1>1, PTL DEF Spec

\* Every variable keeps its type.
THEOREM TypeTheorem == Spec => []TypeOK
<1>1. IInv => TypeOK
  BY DEF IInv
<1> QED
  BY InitIInv, StepInductive, <1>1, PTL DEF Spec

-----------------------------------------------------------------------------
(* Where it ends, when no statement fails and no attempt outlives its        *)
(* timeout.  Overrun attempts write a row that has been decided, and a       *)
(* swallowed error leaves a swapped pod in it, so this is all there is.      *)

Calm == ~Overruns /\ ~DbMayFail

\* No attempt but the awaited one does anything.
NoStrays ==
    /\ prov["old"] = Idle /\ poller = NoPod
    /\ prov["cur"].at = "idle" => prov["cur"] = Idle
    /\ pc # "finalize" => fin = "meta"

\* While the workflow still works towards a result, nothing it may turn to
\* next is a pod that it has swapped out.
OnFreshPod ==
    /\ \A p \in swapped : pods[p] # "absent"
    /\ pc \in Activity \ {"pre_failed", "swap_clear", "mark_failed", "teardown"} =>
          row.pod_id \notin swapped /\ held \notin swapped
    /\ prov["cur"].pod \notin swapped

\* The row has left PENDING by the time a pod is in hand, and goes on only
\* with what the report task needs in place.
InStep ==
    /\ row.status \in {"PENDING", "PROVISIONING", "RUNNING", "REPORTING", "FAILED"}
    /\ pc \in Activity \ {"finalize", "pre_failed", "mark_failed", "teardown"} =>
          row.status \in {"PENDING", "PROVISIONING", "RUNNING"}
    /\ row.status = "PENDING" =>
          /\ row.pod_id = NoPod /\ prov["cur"].at \in {"idle", "check", "stage"}
          /\ pc \notin PodInHand
    /\ pc = "finalize" =>
          /\ row.status # "FAILED" /\ row.results
          /\ (row.status = "REPORTING" \/ fin \in {"reporting", "enqueue", "return"}) => row.simdata
          /\ fin \in {"enqueue", "return"} => row.status = "REPORTING"
          /\ fin = "return" => enqueued > 0
    /\ (pc \in {"teardown", "done"} /\ ~unmarked) =>
          \/ row.status = "FAILED"
          \/ row.status = "REPORTING" /\ row.results /\ row.simdata /\ enqueued > 0

CalmInv == NoStrays /\ OnFreshPod /\ InStep

\* What the statements do to a row that exists, column by column.
LEMMA RowColumns ==
    ASSUME NEW r \in JobRow, r.status \in {"PENDING", "PROVISIONING", "RUNNING", "REPORTING", "FAILED"}
    PROVE  /\ MarkFailed(r).status = "FAILED" /\ MarkFailed(r).pod_id = r.pod_id
           /\ LET n == SaveResults(r)
              IN  /\ n.status = r.status /\ n.pod_id = r.pod_id /\ n.simdata = r.simdata
                  /\ r.status # "FAILED" => n.results
                  /\ r.results => n.results
           /\ LET n == UpdateStage(r)
              IN  /\ n.status = "RUNNING" /\ n.pod_id = r.pod_id
           /\ LET n == TransitionToRunning(r)
              IN  /\ n.status \in {r.status, "RUNNING"} /\ n.pod_id = r.pod_id
                  /\ r.status # "PROVISIONING" => n.status = r.status
           /\ LET n == ClearPodId(r)
              IN  /\ n.status = r.status /\ n.pod_id = NoPod
           /\ LET n == UpdateSimData(r)
              IN  /\ n.status = r.status /\ n.pod_id = r.pod_id /\ n.results = r.results
                  /\ n.simdata
           /\ LET n == TransitionToReporting(r)
              IN  /\ n.pod_id = r.pod_id /\ n.results = r.results /\ n.simdata = r.simdata
                  /\ r.status \in {"PROVISIONING", "RUNNING", "REPORTING"} => n.status = "REPORTING"
           /\ \A p \in Pod :
                 /\ UpdatePodId(r, p).status = "PROVISIONING" /\ UpdatePodId(r, p).pod_id = p
                 /\ LET n == UpdateMetadata(r, p)
                    IN  /\ n.status = r.status /\ n.pod_id = p
                        /\ n.results = r.results /\ n.simdata = r.simdata
PROOF
<1>. USE DEF JobRow, JobStatus, LiveStatus, TerminalStatus, UpdateWhere
<1>1. MarkFailed(r).status = "FAILED" /\ MarkFailed(r).pod_id = r.pod_id
    BY DEF MarkFailed
<1>2. LET n == SaveResults(r)
      IN  /\ n.status = r.status /\ n.pod_id = r.pod_id /\ n.simdata = r.simdata
          /\ r.status # "FAILED" => n.results
          /\ r.results => n.results
    BY DEF SaveResults
<1>3. UpdateStage(r).status = "RUNNING" /\ UpdateStage(r).pod_id = r.pod_id
    BY DEF UpdateStage
<1>4. LET n == TransitionToRunning(r)
      IN  /\ n.status \in {r.status, "RUNNING"} /\ n.pod_id = r.pod_id
          /\ r.status # "PROVISIONING" => n.status = r.status
    BY DEF TransitionToRunning
<1>5. ClearPodId(r).status = r.status /\ ClearPodId(r).pod_id = NoPod
    BY DEF ClearPodId
<1>6. LET n == UpdateSimData(r)
      IN  /\ n.status = r.status /\ n.pod_id = r.pod_id /\ n.results = r.results
          /\ n.simdata
    BY DEF UpdateSimData
<1>7. LET n == TransitionToReporting(r)
      IN  /\ n.pod_id = r.pod_id /\ n.results = r.results /\ n.simdata = r.simdata
          /\ r.status \in {"PROVISIONING", "RUNNING", "REPORTING"} => n.status = "REPORTING"
    BY DEF TransitionToReporting
<1>8. ASSUME NEW p \in Pod
      PROVE  /\ UpdatePodId(r, p).status = "PROVISIONING" /\ UpdatePodId(r, p).pod_id = p
             /\ LET n == UpdateMetadata(r, p)
                IN  /\ n.status = r.status /\ n.pod_id = p
                    /\ n.results = r.results /\ n.simdata = r.simdata
    BY DEF UpdatePodId, UpdateMetadata
<1>. QED  BY <1>1, <1>2, <1>3, <1>4, <1>5, <1>6, <1>7, <1>8

\* The only row a statement leaves behind.
LEMMA NoneSwallowed ==
    ASSUME Calm, NEW r, NEW n
    PROVE  Swallowing(r, n) = {n}
PROOF
    BY DEF Calm, Swallowing

LEMMA InitCalm == Init => CalmInv
PROOF
    BY RowAssumption
       DEF Init, CalmInv, NoStrays, OnFreshPod, InStep, NewRow, Idle, PodInHand, Activity


\* Steps that leave the row alone.
LEMMA QuietStep ==
    ASSUME Calm, IInv, CalmInv,
           \/ (\E p \in Pod : PodReady(p)) \/ (\E p \in Pod : PodVanishes(p))
           \/ PreGpuDone \/ PreGpuAttemptFails \/ HealthOk \/ HealthFails
           \/ BadHostSwap \/ PollUnreachable \/ PollSwap \/ SwapTerminated
           \/ FinEnqueue \/ FinReturns \/ FinAttemptFails \/ TeardownNothing
           \/ TeardownTerminated \/ TerminateAttemptFails
    PROVE  CalmInv'
PROOF
<1>. USE NoneSwallowed, RowAssumption, WorkflowAssumption
       DEF history, loopVars, GoTo, RetryOr, Idle, Activity, PodInHand
<1>0. /\ TypeOK /\ NoStrays /\ OnFreshPod /\ InStep /\ row \in JobRow
      /\ NamesExist /\ ProvNames /\ Accounted
    BY DEF IInv, CalmInv, TypeOK
<1>1. ASSUME NEW p \in Pod, PodReady(p)
      PROVE  CalmInv'
    <2>1. NoStrays'
        BY <1>0, <1>1 DEF TypeOK, Accounted, NoStrays, PodReady
    <2>2. OnFreshPod'
        BY <1>0, <1>1 DEF TypeOK, PodState, NamesExist, ProvNames, Accounted, NoStrays,
           OnFreshPod, InStep, PodReady
    <2>3. InStep'
        BY <1>0, <1>1 DEF TypeOK, ProvNames, Accounted, NoStrays, InStep, PodReady
    <2>. QED  BY <2>1, <2>2, <2>3 DEF CalmInv
<1>2. ASSUME NEW p \in Pod, PodVanishes(p)
      PROVE  CalmInv'
    <2>1. NoStrays'
        BY <1>0, <1>2 DEF TypeOK, Accounted, NoStrays, PodVanishes
    <2>2. OnFreshPod'
        BY <1>0, <1>2 DEF TypeOK, PodState, NamesExist, ProvNames, Accounted, NoStrays,
           OnFreshPod, InStep, PodVanishes
    <2>3. InStep'
        BY <1>0, <1>2 DEF TypeOK, ProvNames, Accounted, NoStrays, InStep, PodVanishes
    <2>. QED  BY <2>1, <2>2, <2>3 DEF CalmInv
<1>3. CASE PreGpuDone
    <2>1. NoStrays'
        BY <1>0, <1>3 DEF TypeOK, Accounted, NoStrays, PreGpuDone, StartProvisioning, Fresh
    <2>2. OnFreshPod'
        BY <1>0, <1>3 DEF TypeOK, PodState, NamesExist, ProvNames, Accounted, NoStrays,
           OnFreshPod, InStep, PreGpuDone, StartProvisioning, Fresh
    <2>3. InStep'
        BY <1>0, <1>3 DEF TypeOK, ProvNames, Accounted, NoStrays, InStep, PreGpuDone,
           StartProvisioning, Fresh
    <2>. QED  BY <2>1, <2>2, <2>3 DEF CalmInv
<1>4. CASE PreGpuAttemptFails
    <2>1. NoStrays'
        BY <1>0, <1>4 DEF TypeOK, Accounted, NoStrays, PreGpuAttemptFails
    <2>2. OnFreshPod'
        BY <1>0, <1>4 DEF TypeOK, PodState, NamesExist, ProvNames, Accounted, NoStrays,
           OnFreshPod, InStep, PreGpuAttemptFails
    <2>3. InStep'
        BY <1>0, <1>4 DEF TypeOK, ProvNames, Accounted, NoStrays, InStep, PreGpuAttemptFails
    <2>. QED  BY <2>1, <2>2, <2>3 DEF CalmInv
<1>5. CASE HealthOk
    <2>1. NoStrays'
        BY <1>0, <1>5 DEF TypeOK, Accounted, NoStrays, HealthOk
    <2>2. OnFreshPod'
        BY <1>0, <1>5 DEF TypeOK, PodState, NamesExist, ProvNames, Accounted, NoStrays,
           OnFreshPod, InStep, HealthOk
    <2>3. InStep'
        BY <1>0, <1>5 DEF TypeOK, ProvNames, Accounted, NoStrays, InStep, HealthOk
    <2>. QED  BY <2>1, <2>2, <2>3 DEF CalmInv
<1>6. CASE HealthFails
    <2>1. NoStrays'
        BY <1>0, <1>6 DEF TypeOK, Accounted, NoStrays, HealthFails
    <2>2. OnFreshPod'
        BY <1>0, <1>6 DEF TypeOK, PodState, NamesExist, ProvNames, Accounted, NoStrays,
           OnFreshPod, InStep, HealthFails
    <2>3. InStep'
        BY <1>0, <1>6 DEF TypeOK, ProvNames, Accounted, NoStrays, InStep, HealthFails
    <2>. QED  BY <2>1, <2>2, <2>3 DEF CalmInv
<1>7. CASE BadHostSwap
    <2>1. NoStrays'
        BY <1>0, <1>7 DEF TypeOK, Accounted, NoStrays, BadHostSwap, StartProvisioning, Fresh,
           Killed
    <2>2. OnFreshPod'
        BY <1>0, <1>7 DEF TypeOK, PodState, NamesExist, ProvNames, Accounted, NoStrays,
           OnFreshPod, InStep, BadHostSwap, StartProvisioning, Fresh, Killed
    <2>3. InStep'
        BY <1>0, <1>7 DEF TypeOK, ProvNames, Accounted, NoStrays, InStep, BadHostSwap,
           StartProvisioning, Fresh, Killed
    <2>. QED  BY <2>1, <2>2, <2>3 DEF CalmInv
<1>8. CASE PollUnreachable
    <2>1. NoStrays'
        BY <1>0, <1>8 DEF TypeOK, Accounted, NoStrays, PollUnreachable
    <2>2. OnFreshPod'
        BY <1>0, <1>8 DEF TypeOK, PodState, NamesExist, ProvNames, Accounted, NoStrays,
           OnFreshPod, InStep, PollUnreachable
    <2>3. InStep'
        BY <1>0, <1>8 DEF TypeOK, ProvNames, Accounted, NoStrays, InStep, PollUnreachable
    <2>. QED  BY <2>1, <2>2, <2>3 DEF CalmInv
<1>9. CASE PollSwap
    <2>1. NoStrays'
        BY <1>0, <1>9 DEF TypeOK, Accounted, NoStrays, PollSwap
    <2>2. OnFreshPod'
        BY <1>0, <1>9 DEF TypeOK, PodState, NamesExist, ProvNames, Accounted, NoStrays,
           OnFreshPod, InStep, PollSwap
    <2>3. InStep'
        BY <1>0, <1>9 DEF TypeOK, ProvNames, Accounted, NoStrays, InStep, PollSwap
    <2>. QED  BY <2>1, <2>2, <2>3 DEF CalmInv
<1>10. CASE SwapTerminated
    <2>1. NoStrays'
        BY <1>0, <1>10 DEF TypeOK, Accounted, NoStrays, SwapTerminated, Killed
    <2>2. OnFreshPod'
        BY <1>0, <1>10 DEF TypeOK, PodState, NamesExist, ProvNames, Accounted, NoStrays,
           OnFreshPod, InStep, SwapTerminated, Killed
    <2>3. InStep'
        BY <1>0, <1>10 DEF TypeOK, ProvNames, Accounted, NoStrays, InStep, SwapTerminated,
           Killed
    <2>. QED  BY <2>1, <2>2, <2>3 DEF CalmInv
<1>11. CASE FinEnqueue
    <2>1. NoStrays'
        BY <1>0, <1>11 DEF TypeOK, Accounted, NoStrays, FinEnqueue, FinGoTo
    <2>2. OnFreshPod'
        BY <1>0, <1>11 DEF TypeOK, PodState, NamesExist, ProvNames, Accounted, NoStrays,
           OnFreshPod, InStep, FinEnqueue, FinGoTo
    <2>3. InStep'
        BY <1>0, <1>11 DEF TypeOK, ProvNames, Accounted, NoStrays, InStep, FinEnqueue, FinGoTo
    <2>. QED  BY <2>1, <2>2, <2>3 DEF CalmInv
<1>12. CASE FinReturns
    <2>1. NoStrays'
        BY <1>0, <1>12 DEF TypeOK, Accounted, NoStrays, FinReturns
    <2>2. OnFreshPod'
        BY <1>0, <1>12 DEF TypeOK, PodState, NamesExist, ProvNames, Accounted, NoStrays,
           OnFreshPod, InStep, FinReturns
    <2>3. InStep'
        BY <1>0, <1>12 DEF TypeOK, ProvNames, Accounted, NoStrays, InStep, FinReturns
    <2>. QED  BY <2>1, <2>2, <2>3 DEF CalmInv
<1>13. CASE FinAttemptFails
    <2>1. NoStrays'
        BY <1>0, <1>13 DEF TypeOK, Accounted, NoStrays, FinAttemptFails
    <2>2. OnFreshPod'
        BY <1>0, <1>13 DEF TypeOK, PodState, NamesExist, ProvNames, Accounted, NoStrays,
           OnFreshPod, InStep, FinAttemptFails
    <2>3. InStep'
        BY <1>0, <1>13 DEF TypeOK, ProvNames, Accounted, NoStrays, InStep, FinAttemptFails
    <2>. QED  BY <2>1, <2>2, <2>3 DEF CalmInv
<1>14. CASE TeardownNothing
    <2>1. NoStrays'
        BY <1>0, <1>14 DEF TypeOK, Accounted, NoStrays, TeardownNothing
    <2>2. OnFreshPod'
        BY <1>0, <1>14 DEF TypeOK, PodState, NamesExist, ProvNames, Accounted, NoStrays,
           OnFreshPod, InStep, TeardownNothing
    <2>3. InStep'
        BY <1>0, <1>14 DEF TypeOK, ProvNames, Accounted, NoStrays, InStep, TeardownNothing
    <2>. QED  BY <2>1, <2>2, <2>3 DEF CalmInv
<1>15. CASE TeardownTerminated
    <2>1. NoStrays'
        BY <1>0, <1>15 DEF TypeOK, Accounted, NoStrays, TeardownTerminated, Killed
    <2>2. OnFreshPod'
        BY <1>0, <1>15 DEF TypeOK, PodState, NamesExist, ProvNames, Accounted, NoStrays,
           OnFreshPod, InStep, TeardownTerminated, Killed
    <2>3. InStep'
        BY <1>0, <1>15 DEF TypeOK, ProvNames, Accounted, NoStrays, InStep, TeardownTerminated,
           Killed
    <2>. QED  BY <2>1, <2>2, <2>3 DEF CalmInv
<1>16. CASE TerminateAttemptFails
    <2>1. NoStrays'
        BY <1>0, <1>16 DEF TypeOK, Accounted, NoStrays, TerminateAttemptFails,
           AfterTerminateFailed, LastAttempt, KillAttempt, Killed
    <2>2. OnFreshPod'
        BY <1>0, <1>16 DEF TypeOK, PodState, NamesExist, ProvNames, Accounted, NoStrays,
           OnFreshPod, InStep, TerminateAttemptFails, AfterTerminateFailed, LastAttempt,
           KillAttempt, Killed
    <2>3. InStep'
        BY <1>0, <1>16 DEF TypeOK, ProvNames, Accounted, NoStrays, InStep,
           TerminateAttemptFails, AfterTerminateFailed, LastAttempt, KillAttempt, Killed
    <2>. QED  BY <2>1, <2>2, <2>3 DEF CalmInv
<1>. QED  BY <1>1, <1>2, <1>3, <1>4, <1>5, <1>6, <1>7, <1>8, <1>9, <1>10, <1>11, <1>12, <1>13,
   <1>14, <1>15, <1>16

\* Steps that send a statement.
LEMMA WritingStep ==
    ASSUME Calm, IInv, CalmInv,
           \/ PollProgress \/ (\E up \in BOOLEAN : PollCompletes(up)) \/ PollFails
           \/ SwapCleared \/ SwapClearAttemptFails \/ FinMeta \/ FinNotUploaded
           \/ FinSimData \/ FinReporting \/ MarkFailedRuns \/ MarkFailedAttemptFails
    PROVE  CalmInv'
PROOF
<1>. USE NoneSwallowed, RowAssumption, WorkflowAssumption
       DEF history, loopVars, GoTo, RetryOr, Idle, Activity, PodInHand
<1>0. /\ TypeOK /\ NoStrays /\ OnFreshPod /\ InStep /\ row \in JobRow
      /\ NamesExist /\ ProvNames /\ Accounted
    BY DEF IInv, CalmInv, TypeOK
<1>1. CASE PollProgress
    <2>1. NoStrays'
        BY <1>0, <1>1 DEF TypeOK, Accounted, NoStrays, PollProgress, PollCallback
    <2>2. OnFreshPod'
        BY <1>0, <1>1, RowColumns DEF TypeOK, PodState, NamesExist, ProvNames, Accounted,
           NoStrays, OnFreshPod, InStep, PollProgress, PollCallback
    <2>3. InStep'
        BY <1>0, <1>1, RowColumns DEF TypeOK, ProvNames, Accounted, NoStrays, InStep,
           PollProgress, PollCallback
    <2>. QED  BY <2>1, <2>2, <2>3 DEF CalmInv
<1>2. ASSUME NEW up \in BOOLEAN, PollCompletes(up)
      PROVE  CalmInv'
    <2>1. NoStrays'
        BY <1>0, <1>2 DEF TypeOK, Accounted, NoStrays, PollCompletes
    <2>2. OnFreshPod'
        BY <1>0, <1>2, RowColumns DEF TypeOK, PodState, NamesExist, ProvNames, Accounted,
           NoStrays, OnFreshPod, InStep, PollCompletes
    <2>3. InStep'
        BY <1>0, <1>2, RowColumns DEF TypeOK, ProvNames, Accounted, NoStrays, InStep,
           PollCompletes
    <2>. QED  BY <2>1, <2>2, <2>3 DEF CalmInv
<1>3. CASE PollFails
    <2>1. NoStrays'
        BY <1>0, <1>3 DEF TypeOK, Accounted, NoStrays, PollFails
    <2>2. OnFreshPod'
        BY <1>0, <1>3, RowColumns DEF TypeOK, PodState, NamesExist, ProvNames, Accounted,
           NoStrays, OnFreshPod, InStep, PollFails
    <2>3. InStep'
        BY <1>0, <1>3, RowColumns DEF TypeOK, ProvNames, Accounted, NoStrays, InStep, PollFails
    <2>. QED  BY <2>1, <2>2, <2>3 DEF CalmInv
<1>4. CASE SwapCleared
    <2>1. NoStrays'
        BY <1>0, <1>4 DEF TypeOK, Accounted, NoStrays, SwapCleared, StartProvisioning, Fresh
    <2>2. OnFreshPod'
        BY <1>0, <1>4, RowColumns DEF TypeOK, PodState, NamesExist, ProvNames, Accounted,
           NoStrays, OnFreshPod, InStep, SwapCleared, StartProvisioning, Fresh
    <2>3. InStep'
        BY <1>0, <1>4, RowColumns DEF TypeOK, ProvNames, Accounted, NoStrays, InStep,
           SwapCleared, StartProvisioning, Fresh
    <2>. QED  BY <2>1, <2>2, <2>3 DEF CalmInv
<1>5. CASE SwapClearAttemptFails
    <2>1. NoStrays'
        BY <1>0, <1>5 DEF TypeOK, Accounted, NoStrays, SwapClearAttemptFails
    <2>2. OnFreshPod'
        BY <1>0, <1>5, RowColumns DEF TypeOK, PodState, NamesExist, ProvNames, Accounted,
           NoStrays, OnFreshPod, InStep, SwapClearAttemptFails
    <2>3. InStep'
        BY <1>0, <1>5, RowColumns DEF TypeOK, ProvNames, Accounted, NoStrays, InStep,
           SwapClearAttemptFails
    <2>. QED  BY <2>1, <2>2, <2>3 DEF CalmInv
<1>6. CASE FinMeta
    <2>1. NoStrays'
        BY <1>0, <1>6 DEF TypeOK, Accounted, NoStrays, FinMeta, FinGoTo
    <2>2. OnFreshPod'
        BY <1>0, <1>6, RowColumns DEF TypeOK, PodState, NamesExist, ProvNames, Accounted,
           NoStrays, OnFreshPod, InStep, FinMeta, FinGoTo
    <2>3. InStep'
        BY <1>0, <1>6, RowColumns DEF TypeOK, ProvNames, Accounted, NoStrays, InStep, FinMeta,
           FinGoTo
    <2>. QED  BY <2>1, <2>2, <2>3 DEF CalmInv
<1>7. CASE FinNotUploaded
    <2>1. NoStrays'
        BY <1>0, <1>7 DEF TypeOK, Accounted, NoStrays, FinNotUploaded
    <2>2. OnFreshPod'
        BY <1>0, <1>7, RowColumns DEF TypeOK, PodState, NamesExist, ProvNames, Accounted,
           NoStrays, OnFreshPod, InStep, FinNotUploaded
    <2>3. InStep'
        BY <1>0, <1>7, RowColumns DEF TypeOK, ProvNames, Accounted, NoStrays, InStep,
           FinNotUploaded
    <2>. QED  BY <2>1, <2>2, <2>3 DEF CalmInv
<1>8. CASE FinSimData
    <2>1. NoStrays'
        BY <1>0, <1>8 DEF TypeOK, Accounted, NoStrays, FinSimData, FinGoTo
    <2>2. OnFreshPod'
        BY <1>0, <1>8, RowColumns DEF TypeOK, PodState, NamesExist, ProvNames, Accounted,
           NoStrays, OnFreshPod, InStep, FinSimData, FinGoTo
    <2>3. InStep'
        BY <1>0, <1>8, RowColumns DEF TypeOK, ProvNames, Accounted, NoStrays, InStep,
           FinSimData, FinGoTo
    <2>. QED  BY <2>1, <2>2, <2>3 DEF CalmInv
<1>9. CASE FinReporting
    <2>1. NoStrays'
        BY <1>0, <1>9 DEF TypeOK, Accounted, NoStrays, FinReporting, FinGoTo
    <2>2. OnFreshPod'
        BY <1>0, <1>9, RowColumns DEF TypeOK, PodState, NamesExist, ProvNames, Accounted,
           NoStrays, OnFreshPod, InStep, FinReporting, FinGoTo
    <2>3. InStep'
        BY <1>0, <1>9, RowColumns DEF TypeOK, ProvNames, Accounted, NoStrays, InStep,
           FinReporting, FinGoTo
    <2>. QED  BY <2>1, <2>2, <2>3 DEF CalmInv
<1>10. CASE MarkFailedRuns
    <2>1. NoStrays'
        BY <1>0, <1>10 DEF TypeOK, Accounted, NoStrays, MarkFailedRuns, AfterMark
    <2>2. OnFreshPod'
        BY <1>0, <1>10, RowColumns DEF TypeOK, PodState, NamesExist, ProvNames, Accounted,
           NoStrays, OnFreshPod, InStep, MarkFailedRuns, AfterMark
    <2>3. InStep'
        BY <1>0, <1>10, RowColumns DEF TypeOK, ProvNames, Accounted, NoStrays, InStep,
           MarkFailedRuns, AfterMark
    <2>. QED  BY <2>1, <2>2, <2>3 DEF CalmInv
<1>11. CASE MarkFailedAttemptFails
    <2>1. NoStrays'
        BY <1>0, <1>11 DEF TypeOK, Accounted, NoStrays, MarkFailedAttemptFails, AfterMark,
           LastAttempt
    <2>2. OnFreshPod'
        BY <1>0, <1>11, RowColumns DEF TypeOK, PodState, NamesExist, ProvNames, Accounted,
           NoStrays, OnFreshPod, InStep, MarkFailedAttemptFails, AfterMark, LastAttempt
    <2>3. InStep'
        <3>1. /\ pc \in {"pre_failed", "mark_failed"} /\ pc' \in {pc, "teardown", "done"}
              /\ pc' # pc => unmarked'
              /\ row' \in {row, MarkFailed(row)} /\ UNCHANGED <<prov, fin, enqueued>>
            <4>1. CASE att < Attempts[pc]
                BY <1>11, <4>1 DEF MarkFailedAttemptFails
            <4>2. CASE ~(att < Attempts[pc])
                <5>1. Attempts[pc] \in Nat /\ att \in Nat
                    BY <1>0, <1>11 DEF TypeOK, MarkFailedAttemptFails
                <5>2. LastAttempt
                    BY <4>2, <5>1 DEF LastAttempt
                <5>3. unmarked'
                    BY <1>11, <5>2, Zenon DEF MarkFailedAttemptFails
                <5>. QED  BY <1>11, <4>2, <5>3 DEF MarkFailedAttemptFails, AfterMark
            <4>. QED  BY <4>1, <4>2
        <3>2. row'.status \in {row.status, "FAILED"} /\ row'.pod_id = row.pod_id
            BY <1>0, <3>1, RowColumns DEF InStep
        <3>. QED  BY <1>0, <3>1, <3>2 DEF InStep
    <2>. QED  BY <2>1, <2>2, <2>3 DEF CalmInv
<1>. QED  BY <1>1, <1>2, <1>3, <1>4, <1>5, <1>6, <1>7, <1>8, <1>9, <1>10, <1>11

\* Steps of the awaited provision_pod attempt.
LEMMA ProvisionStep ==
    ASSUME Calm, IInv, CalmInv,
           \/ ProvCheck("cur") \/ ProvReuse("cur") \/ ProvDiscardStale("cur")
           \/ ProvStage("cur") \/ ProvCreate("cur") \/ ProvNoStock("cur")
           \/ ProvRecord("cur") \/ ProvReady("cur") \/ ProvNotReady("cur")
           \/ ProvDies("cur")
    PROVE  CalmInv'
PROOF
<1>. USE NoneSwallowed, RowAssumption, WorkflowAssumption
       DEF history, loopVars, GoTo, RetryOr, Idle, Activity, PodInHand
<1>0. /\ TypeOK /\ NoStrays /\ OnFreshPod /\ InStep /\ row \in JobRow
      /\ NamesExist /\ ProvNames /\ Accounted
    BY DEF IInv, CalmInv, TypeOK
<1>1. CASE ProvCheck("cur")
    <2>1. NoStrays'
        BY <1>0, <1>1 DEF TypeOK, Accounted, NoStrays, ProvCheck, ProvAt, ProvGoTo
    <2>2. OnFreshPod'
        BY <1>0, <1>1, RowColumns DEF TypeOK, PodState, NamesExist, ProvNames, Accounted,
           NoStrays, OnFreshPod, InStep, ProvCheck, ProvAt, ProvGoTo
    <2>3. InStep'
        BY <1>0, <1>1, RowColumns DEF TypeOK, ProvNames, Accounted, NoStrays, InStep, ProvCheck,
           ProvAt, ProvGoTo
    <2>. QED  BY <2>1, <2>2, <2>3 DEF CalmInv
<1>2. CASE ProvReuse("cur")
    <2>1. NoStrays'
        BY <1>0, <1>2 DEF TypeOK, Accounted, NoStrays, ProvReuse, ProvAt, ProvReturns
    <2>2. OnFreshPod'
        BY <1>0, <1>2, RowColumns DEF TypeOK, PodState, NamesExist, ProvNames, Accounted,
           NoStrays, OnFreshPod, InStep, ProvReuse, ProvAt, ProvReturns
    <2>3. InStep'
        BY <1>0, <1>2, RowColumns DEF TypeOK, ProvNames, Accounted, NoStrays, InStep, ProvReuse,
           ProvAt, ProvReturns
    <2>. QED  BY <2>1, <2>2, <2>3 DEF CalmInv
<1>3. CASE ProvDiscardStale("cur")
    <2>1. NoStrays'
        BY <1>0, <1>3 DEF TypeOK, Accounted, NoStrays, ProvDiscardStale, ProvAt, ProvGoTo,
           KillAttempt, Killed
    <2>2. OnFreshPod'
        BY <1>0, <1>3, RowColumns DEF TypeOK, PodState, NamesExist, ProvNames, Accounted,
           NoStrays, OnFreshPod, InStep, ProvDiscardStale, ProvAt, ProvGoTo, KillAttempt, Killed
    <2>3. InStep'
        BY <1>0, <1>3, RowColumns DEF TypeOK, ProvNames, Accounted, NoStrays, InStep,
           ProvDiscardStale, ProvAt, ProvGoTo, KillAttempt, Killed
    <2>. QED  BY <2>1, <2>2, <2>3 DEF CalmInv
<1>4. CASE ProvStage("cur")
    <2>1. NoStrays'
        BY <1>0, <1>4 DEF TypeOK, Accounted, NoStrays, ProvStage, ProvAt, ProvGoTo
    <2>2. OnFreshPod'
        BY <1>0, <1>4, RowColumns DEF TypeOK, PodState, NamesExist, ProvNames, Accounted,
           NoStrays, OnFreshPod, InStep, ProvStage, ProvAt, ProvGoTo
    <2>3. InStep'
        BY <1>0, <1>4, RowColumns DEF TypeOK, ProvNames, Accounted, NoStrays, InStep, ProvStage,
           ProvAt, ProvGoTo
    <2>. QED  BY <2>1, <2>2, <2>3 DEF CalmInv
<1>5. CASE ProvCreate("cur")
    <2>1. NoStrays'
        BY <1>0, <1>5 DEF TypeOK, Accounted, NoStrays, ProvCreate, ProvAt, ProvGoTo
    <2>2. OnFreshPod'
        BY <1>0, <1>5, RowColumns DEF TypeOK, PodState, NamesExist, ProvNames, Accounted,
           NoStrays, OnFreshPod, InStep, ProvCreate, ProvAt, ProvGoTo
    <2>3. InStep'
        BY <1>0, <1>5, RowColumns DEF TypeOK, ProvNames, Accounted, NoStrays, InStep,
           ProvCreate, ProvAt, ProvGoTo
    <2>. QED  BY <2>1, <2>2, <2>3 DEF CalmInv
<1>6. CASE ProvNoStock("cur")
    <2>1. NoStrays'
        BY <1>0, <1>6 DEF TypeOK, Accounted, NoStrays, ProvNoStock, ProvAt, ProvFails,
           LastAttempt, Fresh
    <2>2. OnFreshPod'
        BY <1>0, <1>6, RowColumns DEF TypeOK, PodState, NamesExist, ProvNames, Accounted,
           NoStrays, OnFreshPod, InStep, ProvNoStock, ProvAt, ProvFails, LastAttempt, Fresh
    <2>3. InStep'
        BY <1>0, <1>6, RowColumns DEF TypeOK, ProvNames, Accounted, NoStrays, InStep,
           ProvNoStock, ProvAt, ProvFails, LastAttempt, Fresh
    <2>. QED  BY <2>1, <2>2, <2>3 DEF CalmInv
<1>7. CASE ProvRecord("cur")
    <2>1. NoStrays'
        BY <1>0, <1>7 DEF TypeOK, Accounted, NoStrays, ProvRecord, ProvAt, ProvGoTo
    <2>2. OnFreshPod'
        BY <1>0, <1>7, RowColumns DEF TypeOK, PodState, NamesExist, ProvNames, Accounted,
           NoStrays, OnFreshPod, InStep, ProvRecord, ProvAt, ProvGoTo
    <2>3. InStep'
        BY <1>0, <1>7, RowColumns DEF TypeOK, ProvNames, Accounted, NoStrays, InStep,
           ProvRecord, ProvAt, ProvGoTo
    <2>. QED  BY <2>1, <2>2, <2>3 DEF CalmInv
<1>8. CASE ProvReady("cur")
    <2>1. NoStrays'
        BY <1>0, <1>8 DEF TypeOK, Accounted, NoStrays, ProvReady, ProvAt, ProvReturns
    <2>2. OnFreshPod'
        BY <1>0, <1>8, RowColumns DEF TypeOK, PodState, NamesExist, ProvNames, Accounted,
           NoStrays, OnFreshPod, InStep, ProvReady, ProvAt, ProvReturns
    <2>3. InStep'
        BY <1>0, <1>8, RowColumns DEF TypeOK, ProvNames, Accounted, NoStrays, InStep, ProvReady,
           ProvAt, ProvReturns
    <2>. QED  BY <2>1, <2>2, <2>3 DEF CalmInv
<1>9. CASE ProvNotReady("cur")
    <2>1. NoStrays'
        BY <1>0, <1>9 DEF TypeOK, Accounted, NoStrays, ProvNotReady, ProvAt, ProvFails,
           LastAttempt, Fresh, KillAttempt, Killed
    <2>2. OnFreshPod'
        BY <1>0, <1>9, RowColumns DEF TypeOK, PodState, NamesExist, ProvNames, Accounted,
           NoStrays, OnFreshPod, InStep, ProvNotReady, ProvAt, ProvFails, LastAttempt, Fresh,
           KillAttempt, Killed
    <2>3. InStep'
        BY <1>0, <1>9, RowColumns DEF TypeOK, ProvNames, Accounted, NoStrays, InStep,
           ProvNotReady, ProvAt, ProvFails, LastAttempt, Fresh, KillAttempt, Killed
    <2>. QED  BY <2>1, <2>2, <2>3 DEF CalmInv
<1>10. CASE ProvDies("cur")
    <2>1. NoStrays'
        BY <1>0, <1>10 DEF TypeOK, Accounted, NoStrays, ProvDies, ProvAt, ProvFails,
           LastAttempt, Fresh
    <2>2. OnFreshPod'
        BY <1>0, <1>10, RowColumns DEF TypeOK, PodState, NamesExist, ProvNames, Accounted,
           NoStrays, OnFreshPod, InStep, ProvDies, ProvAt, ProvFails, LastAttempt, Fresh
    <2>3. InStep'
        BY <1>0, <1>10, RowColumns DEF TypeOK, ProvNames, Accounted, NoStrays, InStep, ProvDies,
           ProvAt, ProvFails, LastAttempt, Fresh
    <2>. QED  BY <2>1, <2>2, <2>3 DEF CalmInv
<1>. QED  BY <1>1, <1>2, <1>3, <1>4, <1>5, <1>6, <1>7, <1>8, <1>9, <1>10

LEMMA CalmStep ==
    ASSUME Calm
    PROVE  IInv /\ CalmInv /\ [Next]_vars => CalmInv'
PROOF
<1>. SUFFICES ASSUME IInv, CalmInv, [Next]_vars PROVE CalmInv'
    OBVIOUS
<1>1. /\ ~ProvStepOf("old") /\ ~ProvOverrun /\ ~PollOverrun
      /\ ~OverrunPollerWrites /\ ~OverrunPollerEnds
    BY DEF Calm, CalmInv, NoStrays, Idle, ProvStepOf, ProvCheck, ProvReuse, ProvDiscardStale,
       ProvStage, ProvCreate, ProvNoStock, ProvRecord, ProvReady, ProvNotReady, ProvDies, ProvAt,
       ProvOverrun, PollOverrun, OverrunPollerWrites, OverrunPollerEnds
<1>2. CASE UNCHANGED vars
    BY <1>2 DEF CalmInv, NoStrays, OnFreshPod, InStep, vars, loopVars, history
<1>3. CASE ProvStepOf("cur")
    BY <1>3, ProvisionStep DEF ProvStepOf
<1>. QED  BY <1>1, <1>2, <1>3, QuietStep, WritingStep DEF Next, Workflow, Around

LEMMA CalmAlways ==
    ASSUME Calm
    PROVE  Spec => []CalmInv
PROOF
<1>1. Spec => []IInv
    BY InitIInv, StepInductive, PTL DEF Spec
<1>. QED  BY <1>1, InitCalm, CalmStep, PTL DEF Spec

\* After a swap the workflow never works on a pod it has swapped out, for any
\* number of pods, swaps and attempts: neither the row, which the reuse check
\* reads, nor a creation brings one back.
THEOREM SwapIsFreshTheorem ==
    ASSUME Calm
    PROVE  Spec => []SwapIsFresh
PROOF
<1>1. CalmInv => SwapIsFresh
    BY DEF CalmInv, OnFreshPod, SwapIsFresh, Activity
<1>. QED  BY CalmAlways, <1>1, PTL

\* Whatever the retry policies and the swap budgets, the job ends FAILED, or in
\* REPORTING with results, data and a message for the report task.
THEOREM SettledWhenDoneTheorem ==
    ASSUME Calm
    PROVE  Spec => []SettledWhenDone
PROOF
<1>1. CalmInv => SettledWhenDone
    BY DEF CalmInv, InStep, SettledWhenDone
<1>. QED  BY CalmAlways, <1>1, PTL

\* A report message is sent while the row is in REPORTING and never before, on
\* every attempt of every run.
THEOREM EnqueuedInReportingTheorem ==
    ASSUME Calm
    PROVE  Spec => EnqueuedInReporting
PROOF
<1>1. ASSUME Next, enqueued' # enqueued
      PROVE  FinEnqueue
    <2>1. ASSUME NEW s \in {"cur", "old"}
          PROVE  ~ProvStepOf(s)
        BY <1>1 DEF ProvStepOf, ProvCheck, ProvReuse, ProvDiscardStale, ProvStage, ProvCreate,
           ProvNoStock, ProvRecord, ProvReady, ProvNotReady, ProvDies
    <2>2. ~Around
        BY <1>1, <2>1 DEF Around, PodReady, PodVanishes, PollProgress, PollCallback,
           OverrunPollerWrites, OverrunPollerEnds
    <2>3. Workflow
        BY <1>1, <2>2 DEF Next
    <2>. QED
        BY <1>1, <2>1, <2>3
           DEF Workflow, PreGpuDone, PreGpuAttemptFails, ProvOverrun, HealthOk, HealthFails,
               BadHostSwap, PollCompletes, PollUnreachable, PollSwap, PollFails, PollOverrun,
               SwapTerminated, SwapCleared, SwapClearAttemptFails, FinMeta, FinNotUploaded,
               FinSimData, FinReporting, FinReturns, FinAttemptFails, MarkFailedRuns,
               MarkFailedAttemptFails, TeardownNothing, TeardownTerminated, TerminateAttemptFails
<1>2. ASSUME CalmInv, FinEnqueue
      PROVE  row.status = "REPORTING"
    BY <1>2 DEF CalmInv, InStep, FinEnqueue
<1>3. CalmInv /\ [Next]_vars => [enqueued' # enqueued => row.status = "REPORTING"]_vars
    BY <1>1, <1>2
<1>. QED  BY CalmAlways, <1>3, PTL DEF Spec, EnqueuedInReporting

-----------------------------------------------------------------------------
(* SimWorkflow implements PodCustody: initial states map to initial states,  *)
(* and every step to one step of the promise or to none.                     *)

\* The activities at which the workflow counts on the pod in hand.
Using == {"health", "bad_host_terminate", "poll", "swap_terminate", "finalize"}

\* Every pod handed over has been given back, except the one in hand.
Returned ==
    /\ handed \subseteq released \cup {held} /\ abandoned \subseteq handed
    /\ pc = "swap_clear" => held \in released
    /\ pc \in {"pre_failed", "enrich", "derive"} => held = NoPod

RInv == IInv /\ Returned

-----------------------------------------------------------------------------
(* The five things a step can do with the pods handed over.                  *)

\* It goes on: with the pod in hand, or without looking back at it.
GoesOn ==
    /\ UNCHANGED <<held, handed, released>>
    /\ pc' = "done" <=> pc = "done"
    /\ \/ UNCHANGED abandoned
       \/ pc # "done" /\ held # NoPod /\ abandoned' = abandoned \cup {held}
    /\ (pc' \in Using /\ held # NoPod) => pc \in Using
    /\ pc' = "swap_clear" => pc = "swap_clear"
    /\ pc' \in {"pre_failed", "enrich", "derive"} => pc \in {"enrich", "derive", "pre_failed"}

Acquires(p) ==
    /\ pc = "provision" /\ pc' = "health"
    /\ held' = p /\ handed' = handed \cup {p}
    /\ UNCHANGED <<released, abandoned>>

GivesBack ==
    /\ pc \in Using /\ pc' \in {"provision", "swap_clear"}
    /\ released' = released \cup {held}
    /\ held' = held \/ (held' = NoPod /\ pc' = "provision")
    /\ UNCHANGED <<handed, abandoned>>

Forgets ==
    /\ pc = "swap_clear" /\ pc' = "provision"
    /\ held' = NoPod
    /\ UNCHANGED <<handed, released, abandoned>>

Ends ==
    /\ pc \in {"pre_failed", "teardown"} /\ pc' = "done"
    /\ UNCHANGED <<held, handed>>
    /\ \/ held = NoPod /\ UNCHANGED <<released, abandoned>>
       \/ held # NoPod /\ released' = released \cup {held} /\ UNCHANGED abandoned
       \/ held # NoPod /\ abandoned' = abandoned \cup {held} /\ UNCHANGED released

\* One step of a provision_pod attempt.
LEMMA ProvisionKind ==
    ASSUME RInv, NEW s \in {"cur", "old"}, ProvStepOf(s)
    PROVE  GoesOn \/ \E p \in Pod : Acquires(p)
PROOF
<1>. USE DEF history, loopVars, GoTo, RetryOr, ProvAt, ProvGoTo
<1>0. TypeOK /\ ProvNames /\ Accounted
    BY DEF RInv, IInv
<1>1. CASE s = "old"
    <2>1. UNCHANGED <<pc, held, handed, released, abandoned>>
        BY <1>1 DEF ProvStepOf, ProvCheck, ProvReuse, ProvDiscardStale, ProvStage, ProvCreate,
           ProvNoStock, ProvRecord, ProvReady, ProvNotReady, ProvDies, ProvReturns, ProvFails
    <2>. QED  BY <2>1 DEF GoesOn
<1>2. CASE s = "cur" /\ (ProvReuse(s) \/ ProvReady(s))
    <2>1. pc = "provision" /\ prov["cur"].pod \in Pod
        BY <1>0, <1>2 DEF Accounted, ProvNames, TypeOK, ProvReuse, ProvReady
    <2>2. Acquires(prov["cur"].pod)
        BY <1>2, <2>1 DEF Acquires, ProvReuse, ProvReady, ProvReturns
    <2>. QED  BY <2>1, <2>2
<1>3. CASE s = "cur" /\ ~(ProvReuse(s) \/ ProvReady(s))
    <2>1. pc = "provision" /\ held = NoPod
        BY <1>0, <1>3 DEF Accounted, ProvStepOf, ProvCheck, ProvDiscardStale, ProvStage,
           ProvCreate, ProvNoStock, ProvRecord, ProvNotReady, ProvDies
    <2>2. pc' \in {pc, "mark_failed"} /\ UNCHANGED <<held, handed, released, abandoned>>
        BY <1>3 DEF ProvStepOf, ProvCheck, ProvDiscardStale, ProvStage, ProvCreate,
           ProvNoStock, ProvRecord, ProvNotReady, ProvDies, ProvFails
    <2>. QED  BY <2>1, <2>2 DEF GoesOn, Using
<1>. QED  BY <1>1, <1>2, <1>3

\* The pod in hand is one that was handed over.
LEMMA StepKind ==
    ASSUME RInv, [Next]_vars
    PROVE  GoesOn \/ GivesBack \/ Forgets \/ Ends \/ \E p \in Pod : Acquires(p)
PROOF
<1>. USE DEF history, loopVars, GoTo, RetryOr
<1>0. TypeOK /\ Accounted
    BY DEF RInv, IInv
<1>1. CASE UNCHANGED vars
    BY <1>1 DEF vars, GoesOn
<1>2. ASSUME NEW s \in {"cur", "old"}, ProvStepOf(s)
      PROVE  GoesOn \/ \E p \in Pod : Acquires(p)
    BY <1>2, ProvisionKind
<1>3. ASSUME Around, ~ProvStepOf("old")
      PROVE  GoesOn
    BY <1>3 DEF Around, PodReady, PodVanishes, PollProgress, PollCallback,
       OverrunPollerWrites, OverrunPollerEnds, GoesOn
<1>4. CASE PreGpuDone \/ PreGpuAttemptFails \/ ProvOverrun
    BY <1>4 DEF PreGpuDone, PreGpuAttemptFails, ProvOverrun, ProvFails, GoesOn, Using
<1>5. CASE HealthOk \/ HealthFails
    BY <1>5 DEF HealthOk, HealthFails, GoesOn, Using
<1>6. CASE BadHostSwap \/ SwapTerminated
    BY <1>6 DEF BadHostSwap, SwapTerminated, GivesBack, Using
<1>7. CASE \/ \E up \in BOOLEAN : PollCompletes(up)
           \/ PollUnreachable \/ PollSwap \/ PollFails \/ PollOverrun
    BY <1>7 DEF PollCompletes, PollUnreachable, PollSwap, PollFails, PollOverrun, GoesOn, Using
<1>8. CASE SwapCleared
    BY <1>8 DEF SwapCleared, Forgets
<1>9. CASE SwapClearAttemptFails
    BY <1>9 DEF SwapClearAttemptFails, GoesOn, Using
<1>10. CASE \/ FinMeta \/ FinNotUploaded \/ FinSimData \/ FinReporting \/ FinEnqueue
            \/ FinReturns \/ FinAttemptFails
    BY <1>10 DEF FinMeta, FinNotUploaded, FinSimData, FinReporting, FinEnqueue, FinReturns,
       FinAttemptFails, FinGoTo, GoesOn, Using
<1>11. CASE MarkFailedRuns \/ MarkFailedAttemptFails
    <2>1. /\ pc \in {"pre_failed", "mark_failed"} /\ pc' \in {pc, AfterMark}
          /\ UNCHANGED <<held, handed, released, abandoned>>
        BY <1>11 DEF MarkFailedRuns, MarkFailedAttemptFails
    <2>2. CASE pc' = pc
        BY <2>1, <2>2 DEF GoesOn
    <2>3. CASE pc = "mark_failed" /\ pc' = "teardown"
        BY <2>1, <2>3 DEF GoesOn, Using
    <2>4. CASE pc = "pre_failed" /\ pc' = "done"
        BY <2>1, <2>4 DEF RInv, Returned, Ends
    <2>. QED  BY <2>1, <2>2, <2>3, <2>4 DEF AfterMark
<1>12. CASE TeardownNothing \/ TeardownTerminated
    BY <1>12 DEF TeardownNothing, TeardownTerminated, Ends
<1>13. CASE TerminateAttemptFails
    <2>1. /\ pc \in {"bad_host_terminate", "swap_terminate", "teardown"}
          /\ held # NoPod /\ UNCHANGED <<held, handed, released>>
          /\ Attempts[pc] \in Nat /\ att \in Nat
        BY <1>0, <1>13, WorkflowAssumption DEF TerminateAttemptFails, TypeOK, Activity
    <2>2. CASE att < Attempts[pc]
        <3>1. UNCHANGED <<pc, abandoned>>
            BY <1>13, <2>1, <2>2 DEF TerminateAttemptFails, LastAttempt
        <3>. QED  BY <2>1, <3>1 DEF GoesOn
    <2>3. CASE ~(att < Attempts[pc])
        <3>1. abandoned' = abandoned \cup {held} /\ pc' = AfterTerminateFailed
            BY <1>13, <2>1, <2>3 DEF TerminateAttemptFails, LastAttempt
        <3>. QED  BY <2>1, <3>1 DEF AfterTerminateFailed, GoesOn, Ends, Using
    <2>. QED  BY <2>2, <2>3
<1>. QED
    BY <1>1, <1>2, <1>3, <1>4, <1>5, <1>6, <1>7, <1>8, <1>9, <1>10, <1>11, <1>12, <1>13
       DEF Next, Workflow, Around

-----------------------------------------------------------------------------
(* The refinement.                                                           *)

LEMMA ReturnedKept ==
    ASSUME RInv, [Next]_vars
    PROVE  Returned'
PROOF
<1>1. Returned /\ Accounted /\ TypeOK
    BY DEF RInv, IInv
<1>2. /\ held # NoPod => held \in handed
      /\ pc \in Using => held # NoPod
      /\ pc = "provision" => held = NoPod
      /\ pc = "swap_clear" => held # NoPod
    BY <1>1 DEF Accounted, PodInHand, Using
<1>3. CASE GoesOn
    BY <1>1, <1>2, <1>3 DEF Returned, GoesOn
<1>4. CASE GivesBack
    BY <1>1, <1>2, <1>4 DEF Returned, GivesBack
<1>5. CASE Forgets
    BY <1>1, <1>2, <1>5 DEF Returned, Forgets
<1>6. CASE Ends
    BY <1>1, <1>2, <1>6 DEF Returned, Ends
<1>7. CASE \E p \in Pod : Acquires(p)
    <2>1. PICK p \in Pod : Acquires(p)
        BY <1>7
    <2>2. handed \subseteq released
        BY <1>1, <1>2, <2>1, RowAssumption DEF Returned, Acquires, TypeOK
    <2>. QED  BY <1>1, <2>1, <2>2 DEF Returned, Acquires
<1>. QED  BY <1>3, <1>4, <1>5, <1>6, <1>7, StepKind

LEMMA Always == Spec => []RInv
PROOF
<1>1. Init => RInv
    BY InitIInv DEF Init, RInv, Returned
<1>2. RInv /\ [Next]_vars => RInv'
    BY StepInductive, ReturnedKept DEF RInv
<1>. QED  BY <1>1, <1>2, PTL DEF Spec

\* The workflow counts on a pod only when one was handed over, and never on
\* none.
LEMMA CustodyFacts ==
    ASSUME RInv
    PROVE  /\ held # NoPod => held \in handed /\ held \in Pod
           /\ pc \in Using => held # NoPod
           /\ \A q \in Pod : q # held =>
                 CustodyOf(q) = IF q \in released THEN "released" ELSE "free"
           /\ held # NoPod =>
                 CustodyOf(held) = IF pc \in Using THEN "held"
                                   ELSE IF held \in released THEN "released"
                                   ELSE IF held \in abandoned /\ pc = "done" THEN "leaked"
                                   ELSE "held"
PROOF
<1>1. Returned /\ Accounted /\ TypeOK
    BY DEF RInv, IInv
<1>2. /\ held # NoPod => held \in handed /\ held \in Pod
      /\ pc \in Using => held # NoPod
    BY <1>1 DEF Accounted, TypeOK, PodInHand, Using
<1>3. ASSUME NEW q \in Pod, q # held
      PROVE  CustodyOf(q) = IF q \in released THEN "released" ELSE "free"
    <2>1. q \notin released => q \notin handed /\ q \notin abandoned
        BY <1>1, <1>3 DEF Returned
    <2>. QED  BY <1>3, <2>1 DEF CustodyOf
<1>4. ASSUME held # NoPod
      PROVE  CustodyOf(held) = IF pc \in Using THEN "held"
                               ELSE IF held \in released THEN "released"
                               ELSE IF held \in abandoned /\ pc = "done" THEN "leaked"
                               ELSE "held"
    BY <1>2, <1>4 DEF CustodyOf, Using
<1>. QED  BY <1>2, <1>3, <1>4

\* The refinement mapping.
custodies == [p \in Pod |-> CustodyOf(p)]

\* Who has which pod, read off the state.
View ==
    /\ held # NoPod => held \in Pod
    /\ pc \in Using => held # NoPod
    /\ pc = "provision" => held = NoPod
    /\ pc = "swap_clear" => held # NoPod /\ held \in released
    /\ \A q \in Pod : q # held =>
          custodies[q] = IF q \in released THEN "released" ELSE "free"
    /\ held # NoPod =>
          custodies[held] = IF pc \in Using THEN "held"
                    ELSE IF held \in released THEN "released"
                    ELSE IF held \in abandoned /\ pc = "done" THEN "leaked" ELSE "held"
    /\ custodies = [q \in Pod |-> custodies[q]]

LEMMA ViewHolds == RInv => View
PROOF
<1>. SUFFICES ASSUME RInv PROVE View
    OBVIOUS
<1>1. /\ pc = "provision" => held = NoPod
      /\ pc = "swap_clear" => held # NoPod /\ held \in released
    BY DEF RInv, IInv, Accounted, PodInHand, Returned
<1>. QED  BY <1>1, CustodyFacts DEF View, custodies

\* Every step maps to a step of the promise or leaves it alone, by kind.
LEMMA CustodyStep ==
    ASSUME View, View', GoesOn \/ GivesBack \/ Forgets \/ Ends \/ \E p \in Pod : Acquires(p)
    PROVE  [Custody!Next]_(Custody!vars)
PROOF
<1>. DEFINE ended == pc = "done"
<1>0. /\ Custody!vars = <<custodies, ended>>
      /\ Custody!Holding = {p \in Pod : custodies[p] = "held"}
      /\ \A p \in Pod : Custody!Acquire(p) <=>
            /\ ~ended /\ Custody!Holding = {}
            /\ custodies[p] \in {"free", "released"}
            /\ custodies' = [custodies EXCEPT ![p] = "held"]
            /\ ended' = ended
      /\ \A p \in Pod, how \in {"released", "leaked"} : Custody!GiveUp(p, how) <=>
            custodies[p] = "held" /\ custodies' = [custodies EXCEPT ![p] = how]
      /\ Custody!End <=> ~ended /\ Custody!Holding = {} /\ ended' = TRUE /\ custodies' = custodies
    BY DEF Custody!vars, Custody!Holding, Custody!Acquire, Custody!GiveUp, Custody!End,
       custodies
<1>1. \/ custodies' = custodies /\ ended' = ended
      \/ \E p \in Pod : Custody!Acquire(p)
      \/ \E p \in Pod, how \in {"released", "leaked"} :
            Custody!GiveUp(p, how) /\ ended' \in {ended, TRUE}
      \/ Custody!End
      => [Custody!Next]_(Custody!vars)
    <2>1. custodies' = custodies /\ ended' = ended => UNCHANGED Custody!vars
        BY DEF Custody!vars, custodies
    <2>2. (\E p \in Pod : Custody!Acquire(p)) => Custody!Next
        BY DEF Custody!Next
    <2>3. ASSUME NEW p \in Pod, NEW how \in {"released", "leaked"}, Custody!GiveUp(p, how),
                 ended' \in {ended, TRUE}
          PROVE  Custody!Next
        BY <2>3 DEF Custody!Next
    <2>4. Custody!End => Custody!Next
        BY DEF Custody!Next
    <2>. QED  BY <2>1, <2>2, <2>3, <2>4
<1>. HIDE DEF ended
<1>2. CASE UNCHANGED held /\ GoesOn
    <2>1. ended' = ended
        BY <1>2 DEF GoesOn, ended
    <2>2. \A q \in Pod : q # held => custodies'[q] = custodies[q]
        BY <1>2 DEF View, GoesOn
    <2>3. CASE held = NoPod \/ custodies'[held] = custodies[held]
        BY <2>1, <2>2, <2>3, <1>1, RowAssumption DEF View
    <2>4. CASE held # NoPod /\ custodies'[held] # custodies[held]
        <3>1. custodies[held] = "held" /\ custodies'[held] = "released"
            BY <1>2, <2>4 DEF View, GoesOn, Using
        <3>2. custodies' = [custodies EXCEPT ![held] = "released"]
            BY <2>2, <3>1 DEF View
        <3>. QED  BY <1>0, <1>1, <2>1, <2>4, <3>1, <3>2 DEF View
    <2>. QED  BY <2>3, <2>4
<1>3. ASSUME NEW p \in Pod, Acquires(p)
      PROVE  Custody!Acquire(p)
    <2>1. held = NoPod /\ held' = p /\ ~ended /\ ended' = ended
        BY <1>3 DEF View, Acquires, ended
    <2>2. \A q \in Pod : /\ custodies[q] \in {"free", "released"}
                         /\ q # p => custodies'[q] = custodies[q]
        <3>1. \A q \in Pod : custodies[q] = IF q \in released THEN "released" ELSE "free"
            BY <2>1, RowAssumption DEF View
        <3>2. \A q \in Pod : q # p => custodies'[q] = IF q \in released THEN "released" ELSE "free"
            BY <1>3, <2>1 DEF View, Acquires
        <3>. QED  BY <3>1, <3>2
    <2>3. custodies'[p] = "held"
        BY <1>3, <2>1, RowAssumption DEF View, Acquires, Using
    <2>4. custodies' = [custodies EXCEPT ![p] = "held"]
        BY <2>2, <2>3 DEF View
    <2>5. Custody!Holding = {}
        BY <1>0, <2>2
    <2>. QED  BY <1>0, <2>1, <2>2, <2>4, <2>5
<1>4. CASE GivesBack
    <2>1. held \in Pod /\ custodies[held] = "held" /\ ended' = ended
        BY <1>4 DEF View, GivesBack, Using, ended
    <2>2. /\ custodies'[held] = "released"
          /\ \A q \in Pod : q # held => custodies'[q] = custodies[q]
        BY <1>4, <2>1, RowAssumption DEF View, GivesBack, Using
    <2>3. custodies' = [custodies EXCEPT ![held] = "released"]
        BY <2>2 DEF View
    <2>. QED  BY <1>0, <1>1, <2>1, <2>3
<1>5. CASE Forgets
    <2>1. \A q \in Pod : custodies'[q] = custodies[q]
        BY <1>5, RowAssumption DEF View, Forgets, Using
    <2>. QED  BY <1>1, <1>5, <2>1 DEF View, Forgets, ended
<1>6. CASE Ends
    <2>1. ~ended /\ ended' = TRUE
        BY <1>6 DEF Ends, ended
    <2>2. \A q \in Pod : q # held => custodies'[q] = custodies[q] /\ custodies[q] # "held"
        BY <1>6 DEF View, Ends
    <2>3. CASE held = NoPod \/ (custodies[held] # "held" /\ custodies'[held] = custodies[held])
        <3>1. custodies' = custodies /\ \A q \in Pod : custodies[q] # "held"
            BY <2>2, <2>3, RowAssumption DEF View
        <3>. QED  BY <1>0, <1>1, <2>1, <3>1
    <2>4. CASE held # NoPod /\ (custodies[held] = "held" \/ custodies'[held] # custodies[held])
        <3>1. custodies[held] = "held" /\ custodies'[held] \in {"released", "leaked"}
            BY <1>6, <2>4 DEF View, Ends, Using
        <3>2. custodies' = [custodies EXCEPT ![held] = custodies'[held]]
            BY <2>2 DEF View
        <3>. QED  BY <1>0, <1>1, <2>1, <2>4, <3>1, <3>2 DEF View
    <2>. QED  BY <2>3, <2>4
<1>. QED  BY <1>1, <1>2, <1>3, <1>4, <1>5, <1>6 DEF GoesOn

\* The workflow uses one pod at a time, gives every pod it is handed back or
\* has tried as often as it may, and holds none when it ends.
THEOREM CustodyTheorem == Spec => CustodyKept
PROOF
<1>1. Init => Custody!Init
    BY RowAssumption DEF Init, Custody!Init, CustodyOf
<1>2. RInv /\ RInv' /\ [Next]_vars => [Custody!Next]_(Custody!vars)
    <2>1. RInv' => View'
        BY ViewHolds, PTL
    <2>. QED  BY <2>1, ViewHolds, StepKind, CustodyStep
<1>. QED  BY Always, <1>1, <1>2, PTL DEF Spec, CustodyKept, Custody!Spec

=============================================================================
