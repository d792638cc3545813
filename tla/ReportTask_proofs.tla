-------------------------- MODULE ReportTask_proofs --------------------------
(***************************************************************************)
(* What holds of the report task for any number of worker processes,       *)
(* messages, retries and crashes.                                          *)
(*                                                                         *)
(* NeverForgotten is not inductive: an execution that is about to upload   *)
(* the report is active but will do nothing more for the row.  SavedIsOver *)
(* supplies that the row has left REPORTING by then, and that rests on     *)
(* nothing here ever writing REPORTING.                                    *)
(***************************************************************************)
EXTENDS ReportTask, TLAPS

SavedIsOver == \A w \in Worker : At(w, "put") => row.status # "REPORTING"

IInv == TypeOK /\ SavedIsOver /\ NeverForgotten

\* Every UPDATE the task's surroundings send maps rows to rows, and none
\* brings a row back to REPORTING.
LEMMA RowLemma ==
    ASSUME NEW r \in JobRow
    PROVE  /\ MarkFailed(r) \in JobRow /\ SaveReport(r) \in JobRow
           /\ MarkFailed(r).status # "REPORTING"
           /\ SaveReport(r).status # "REPORTING"
BY DEF JobRow, MarkFailed, SaveReport, UpdateWhere, JobStatus, LiveStatus, TerminalStatus

\* A terminal row is left as it is by both.
LEMMA TerminalLemma ==
    ASSUME NEW r \in JobRow, r.status \in TerminalStatus
    PROVE  /\ MarkFailed(r).status = r.status
           /\ SaveReport(r) = r
BY DEF JobRow, MarkFailed, SaveReport, UpdateWhere, JobStatus, LiveStatus, TerminalStatus

\* The removed row is a row.
LEMMA AbsentLemma ==
    ASSUME NEW r \in JobRow
    PROVE  [NewRow("ABSENT") EXCEPT !.pod_id = r.pod_id] \in JobRow
BY DEF JobRow, NewRow

\* One more message.
LEMMA PutLemma ==
    ASSUME TypeOK, NEW r \in 0..MaxRetries, Put(r)
    PROVE  /\ queue' \in [0..MaxRetries -> Nat]
           /\ queue'[r] > 0
BY ReportAssumption DEF TypeOK, Put

\* A process moves on, the others stay.
LEMMA GotoLemma ==
    ASSUME TypeOK, NEW w \in Worker, NEW step \in Step, Goto(w, step)
    PROVE  /\ task' \in [Worker -> [at : Step, retries : 0..MaxRetries]]
           /\ task'[w].at = step
           /\ \A v \in Worker \ {w} : task'[v] = task[v]
BY DEF TypeOK, Goto, Step

-----------------------------------------------------------------------------
LEMMA InitIInv == Init => IInv
<1> SUFFICES ASSUME Init PROVE IInv
  OBVIOUS
<1>1. row \in JobRow
  BY DEF Init, NewRow, JobRow, JobStatus, LiveStatus, TerminalStatus
<1>2. /\ queue \in [0..MaxRetries -> Nat]
      /\ queue[0] > 0
  <2>1. PICK n \in 1..MaxSent : queue = [r \in 0..MaxRetries |-> IF r = 0 THEN n ELSE 0]
    BY DEF Init
  <2> QED
    BY <2>1, ReportAssumption
<1>3. task \in [Worker -> [at : Step, retries : 0..MaxRetries]]
  BY ReportAssumption DEF Init, Step
<1>4. TypeOK
  <2>1. text = NoText /\ md = NoText /\ crashes = 0 /\ lost = FALSE
    BY DEF Init
  <2>2. crashes \in 0..MaxCrashes
    BY <2>1, ReportAssumption
  <2>3. lost \in BOOLEAN /\ text \in {NoText} /\ md \in {NoText}
    BY <2>1
  <2> QED
    BY <1>1, <1>2, <1>3, <2>2, <2>3 DEF TypeOK
<1>5. SavedIsOver
  BY DEF Init, SavedIsOver, At
<1>6. NeverForgotten
  BY <1>2, ReportAssumption DEF NeverForgotten
<1> QED
  BY <1>4, <1>5, <1>6 DEF IInv

-----------------------------------------------------------------------------
(* What the property rests on: somebody still has the job.                   *)

\* A step of the broker or of a process that leaves the row alone.
LEMMA BrokerStep ==
    ASSUME IInv, NEW w \in Worker,
           Deliver(w) \/ Ack(w) \/ Die(w)
    PROVE  IInv'
<1>1. CASE Deliver(w)
  <2>1. PICK r \in 0..MaxRetries :
           /\ queue[r] > 0
           /\ queue' = [queue EXCEPT ![r] = @ - 1]
           /\ task' = [task EXCEPT ![w] = [at |-> "check", retries |-> r]]
    BY <1>1 DEF Deliver
  <2>2. TypeOK'
    <3>1. queue' \in [0..MaxRetries -> Nat]
      BY <2>1, SMTT(30) DEF IInv, TypeOK
    <3>2. task' \in [Worker -> [at : Step, retries : 0..MaxRetries]]
      BY <2>1 DEF IInv, TypeOK, Step
    <3> QED
      BY <1>1, <3>1, <3>2 DEF IInv, TypeOK, Deliver
  <2>3. SavedIsOver'
    BY <1>1, <2>1 DEF IInv, TypeOK, SavedIsOver, At, Deliver
  <2>4. task'[w].at = "check"
    BY <2>1 DEF IInv, TypeOK
  <2> QED
    BY <2>2, <2>3, <2>4 DEF IInv, NeverForgotten
<1>2. CASE Ack(w)
  <2>1. Goto(w, "idle") /\ UNCHANGED <<row, text, md, queue, crashes, lost>> /\ At(w, "ack")
    BY <1>2 DEF Ack
  <2>2. /\ task' \in [Worker -> [at : Step, retries : 0..MaxRetries]]
        /\ task'[w].at = "idle"
        /\ \A v \in Worker \ {w} : task'[v] = task[v]
    BY <2>1, GotoLemma DEF IInv, Step
  <2>3. TypeOK'
    BY <2>1, <2>2 DEF IInv, TypeOK
  <2>4. SavedIsOver'
    BY <2>1, <2>2 DEF IInv, SavedIsOver, At
  <2>5. NeverForgotten'
    <3> SUFFICES ASSUME row'.status = "REPORTING", ~lost'
                 PROVE  \/ \E r \in 0..MaxRetries : queue'[r] > 0
                        \/ \E v \in Worker : task'[v].at \notin {"idle", "ack"}
      BY DEF NeverForgotten
    <3>1. CASE \E r \in 0..MaxRetries : queue[r] > 0
      BY <2>1, <3>1
    <3>2. CASE \E v \in Worker : task[v].at \notin {"idle", "ack"}
      BY <2>1, <2>2, <3>2 DEF At
    <3> QED
      BY <2>1, <3>1, <3>2 DEF IInv, NeverForgotten
  <2> QED
    BY <2>3, <2>4, <2>5 DEF IInv
<1>3. CASE Die(w)
  <2>1. /\ Goto(w, "idle") /\ Put(task[w].retries)
        /\ crashes < MaxCrashes /\ crashes' = crashes + 1
        /\ UNCHANGED <<row, text, md, lost>>
    BY <1>3 DEF Die
  <2>2. /\ task' \in [Worker -> [at : Step, retries : 0..MaxRetries]]
        /\ task'[w].at = "idle"
        /\ \A v \in Worker \ {w} : task'[v] = task[v]
    BY <2>1, GotoLemma DEF IInv, Step
  <2>3. task[w].retries \in 0..MaxRetries
    BY DEF IInv, TypeOK
  <2>4. queue' \in [0..MaxRetries -> Nat] /\ queue'[task[w].retries] > 0
    BY <2>1, <2>3, PutLemma DEF IInv
  <2>5. crashes' \in 0..MaxCrashes
    BY <2>1, ReportAssumption DEF IInv, TypeOK
  <2>6. TypeOK'
    BY <2>1, <2>2, <2>4, <2>5 DEF IInv, TypeOK
  <2>7. SavedIsOver'
    BY <2>1, <2>2 DEF IInv, SavedIsOver, At
  <2>8. NeverForgotten'
    BY <2>3, <2>4 DEF NeverForgotten
  <2> QED
    BY <2>6, <2>7, <2>8 DEF IInv
<1> QED
  BY <1>1, <1>2, <1>3

\* A process that goes on with the job, or ends with the row out of REPORTING,
\* the error unrecorded, or the message sent again.
LEMMA ExecutionStep ==
    ASSUME IInv, NEW w \in Worker, NEW step \in Step, Goto(w, step),
           row' \in JobRow, row'.status = "REPORTING" => row.status = "REPORTING",
           text' \in Worker \cup {NoText}, md' \in Worker \cup {NoText},
           queue' \in [0..MaxRetries -> Nat],
           \A r \in 0..MaxRetries : queue[r] > 0 => queue'[r] > 0,
           lost' \in BOOLEAN, lost => lost', UNCHANGED crashes,
           step = "put" => row'.status # "REPORTING",
           step \in {"idle", "ack"} =>
               \/ row'.status # "REPORTING" \/ lost'
               \/ \E r \in 0..MaxRetries : queue'[r] > 0
    PROVE  IInv'
<1>1. /\ task' \in [Worker -> [at : Step, retries : 0..MaxRetries]]
      /\ task'[w].at = step
      /\ \A v \in Worker \ {w} : task'[v] = task[v]
  BY GotoLemma DEF IInv
<1>2. TypeOK'
  BY <1>1 DEF IInv, TypeOK
<1>3. SavedIsOver'
  BY <1>1 DEF IInv, SavedIsOver, At
<1>4. NeverForgotten'
  BY <1>1 DEF NeverForgotten
<1> QED
  BY <1>2, <1>3, <1>4 DEF IInv

\* _finalize_as_failed leaves a row that is out of REPORTING, or an error that
\* is not recorded.
LEMMA FinalizeLemma ==
    ASSUME IInv, NEW w \in Worker, NEW r \in JobRow, FinalizeAsFailed(w, r),
           r.status = "REPORTING" => row.status = "REPORTING",
           text' \in Worker \cup {NoText}
    PROVE  IInv'
<1>1. PICK new \in Swallowing(r, MarkFailed(r)) :
         row' = new /\ lost' = (lost \/ new # MarkFailed(r))
  BY DEF FinalizeAsFailed
<1>2. new \in {r, MarkFailed(r)}
  BY <1>1 DEF Swallowing
<1>3. row' \in JobRow /\ (row'.status = "REPORTING" => row.status = "REPORTING")
  BY <1>1, <1>2, RowLemma
<1>4. row'.status # "REPORTING" \/ lost'
  BY <1>1, <1>2, RowLemma
<1>5. Goto(w, "ack") /\ UNCHANGED <<md, queue, crashes>>
  BY DEF FinalizeAsFailed
<1>6. lost' \in BOOLEAN /\ (lost => lost')
  BY <1>1 DEF IInv, TypeOK
<1> QED
  BY <1>3, <1>4, <1>5, <1>6, ExecutionStep DEF IInv, TypeOK, Step

LEMMA ExecutesStep ==
    ASSUME IInv, NEW w \in Worker, Executes(w)
    PROVE  IInv'
<1>0. TypeOK
  BY DEF IInv
<1>1. CASE Check(w)
  <2>1. CASE row.status \in TerminalStatus
    <3>1. Goto(w, "ack") /\ row.status # "REPORTING"
      BY <1>1, <2>1 DEF Check, TerminalStatus
    <3> QED
      BY <1>0, <1>1, <3>1, ExecutionStep DEF Check, TypeOK, Step
  <2>2. CASE row.status \notin TerminalStatus
    <3>1. Goto(w, "run")
      BY <1>1, <2>2 DEF Check
    <3> QED
      BY <1>0, <1>1, <3>1, ExecutionStep DEF Check, TypeOK, Step
  <2> QED
    BY <2>1, <2>2
<1>2. CASE RunReturns(w)
  BY <1>0, <1>2, ExecutionStep DEF RunReturns, TypeOK, Step
<1>3. CASE RunTransient(w)
  <2>1. task[w].retries + 1 \in 0..MaxRetries
    BY <1>0, <1>3, ReportAssumption DEF RunTransient, TypeOK
  <2>2. Put(task[w].retries + 1)
    BY <1>3 DEF RunTransient
  <2>3. /\ queue' \in [0..MaxRetries -> Nat]
        /\ queue'[task[w].retries + 1] > 0
    BY <1>0, <2>1, <2>2, PutLemma
  <2>4. \A r \in 0..MaxRetries : queue[r] > 0 => queue'[r] > 0
    BY <1>0, <2>1, <2>2 DEF Put, TypeOK
  <2>5. Goto(w, "ack") /\ UNCHANGED <<row, text, md, crashes, lost>>
    BY <1>3 DEF RunTransient
  <2> QED
    BY <1>0, <2>1, <2>3, <2>4, <2>5, ExecutionStep DEF TypeOK, Step
<1>4. CASE RunGivesUp(w)
  BY <1>0, <1>4, FinalizeLemma DEF RunGivesUp, TypeOK
<1>5. CASE Save(w)
  <2>1. /\ row' \in JobRow /\ row'.status # "REPORTING"
        /\ Goto(w, "put")
        /\ UNCHANGED <<md, queue, crashes, lost>>
    BY <1>0, <1>5, RowLemma DEF Save, TypeOK
  <2>2. text' \in Worker \cup {NoText}
    BY <1>0, <1>5 DEF Save, TypeOK
  <2> QED
    BY <1>0, <2>1, <2>2, ExecutionStep DEF TypeOK, Step
<1>6. CASE SaveFails(w)
  <2>1. PICK saved \in {row, SaveReport(row)} :
           FinalizeAsFailed(w, saved) /\ text' = IF saved # row THEN w ELSE text
    BY <1>6 DEF SaveFails
  <2>2. saved \in JobRow /\ (saved.status = "REPORTING" => row.status = "REPORTING")
    BY <1>0, <2>1, RowLemma DEF TypeOK
  <2>3. text' \in Worker \cup {NoText}
    BY <1>0, <2>1 DEF TypeOK
  <2> QED
    BY <2>1, <2>2, <2>3, FinalizeLemma
<1>7. CASE PutMd(w)
  <2>1. row.status # "REPORTING"
    BY <1>7 DEF PutMd, IInv, SavedIsOver
  <2>2. /\ md' \in Worker \cup {NoText} /\ Goto(w, "ack")
        /\ UNCHANGED <<row, text, queue, crashes, lost>>
    BY <1>0, <1>7 DEF PutMd, TypeOK
  <2> QED
    BY <1>0, <2>1, <2>2, ExecutionStep DEF TypeOK, Step
<1>8. CASE Unhandled(w)
  BY <1>0, <1>8, ExecutionStep DEF Unhandled, TypeOK, Step
<1> QED
  BY <1>1, <1>2, <1>3, <1>4, <1>5, <1>6, <1>7, <1>8 DEF Executes

\* The detector and the user only ever take the row out of REPORTING.
LEMMA AroundStep ==
    ASSUME IInv, DetectorFails \/ UserDeletes
    PROVE  IInv'
<1>1. row' \in JobRow /\ (row'.status = "REPORTING" => row.status = "REPORTING")
  <2>1. CASE DetectorFails
    <3>1. row' \in {row, MarkFailed(row)}
      BY <2>1 DEF DetectorFails, Swallowing
    <3> QED
      BY <3>1, RowLemma DEF IInv, TypeOK
  <2>2. CASE UserDeletes
    BY <2>2, AbsentLemma DEF UserDeletes, NewRow, IInv, TypeOK, JobRow
  <2> QED
    BY <2>1, <2>2
<1>2. UNCHANGED <<md, queue, task, crashes, lost>> /\ text' \in {text, NoText}
  BY DEF DetectorFails, UserDeletes
<1>3. TypeOK'
  BY <1>1, <1>2 DEF IInv, TypeOK
<1>4. SavedIsOver'
  BY <1>1, <1>2 DEF IInv, SavedIsOver, At
<1>5. NeverForgotten'
  BY <1>1, <1>2 DEF IInv, NeverForgotten
<1> QED
  BY <1>3, <1>4, <1>5 DEF IInv

LEMMA NextIInv == IInv /\ [Next]_vars => IInv'
<1> SUFFICES ASSUME IInv, [Next]_vars PROVE IInv'
  OBVIOUS
<1>1. CASE \E w \in Worker : Deliver(w) \/ Executes(w) \/ Ack(w) \/ Die(w)
  BY <1>1, BrokerStep, ExecutesStep
<1>2. CASE DetectorFails \/ UserDeletes
  BY <1>2, AroundStep
<1>3. CASE UNCHANGED vars
  BY <1>3 DEF vars, IInv, TypeOK, SavedIsOver, NeverForgotten, At
<1> QED
  BY <1>1, <1>2, <1>3 DEF Next

THEOREM InvariantTheorem == Spec => []IInv
<1>1. Init => IInv
  BY InitIInv
<1>2. IInv /\ [Next]_vars => IInv'
  BY NextIInv
<1> QED
  BY <1>1, <1>2, PTL DEF Spec

\* Type correctness for every value of the constants; in particular no
\* message is ever sent with more retries than the task allows.
THEOREM TypeTheorem == Spec => []TypeOK
<1>1. IInv => TypeOK
  BY DEF IInv
<1> QED
  BY <1>1, InvariantTheorem, PTL

\* No job is forgotten in REPORTING while no error has gone unrecorded: with
\* any number of worker processes, deaths, duplicates and retries there is a
\* message left or a process that still works for it.
THEOREM NeverForgottenTheorem == Spec => []NeverForgotten
<1>1. IInv => NeverForgotten
  BY DEF IInv
<1> QED
  BY <1>1, InvariantTheorem, PTL

-----------------------------------------------------------------------------
\* What may become of a decided row.
StaysDecided ==
    row.status \in TerminalStatus =>
        \/ row'.status = row.status /\ text' = text
        \/ row'.status = "ABSENT"

\* An execution leaves a decided row as it is.
LEMMA ExecutionDecided ==
    ASSUME TypeOK, NEW w \in Worker, Executes(w), row.status \in TerminalStatus
    PROVE  row'.status = row.status /\ text' = text
<1>0. /\ MarkFailed(row).status = row.status
      /\ SaveReport(row) = row
  BY TerminalLemma DEF TypeOK
<1>1. CASE Check(w) \/ RunReturns(w) \/ RunTransient(w) \/ PutMd(w) \/ Unhandled(w)
  BY <1>1 DEF Check, RunReturns, RunTransient, PutMd, Unhandled
<1>2. CASE RunGivesUp(w)
  BY <1>0, <1>2 DEF RunGivesUp, FinalizeAsFailed, Swallowing
<1>3. CASE Save(w)
  BY <1>0, <1>3 DEF Save
<1>4. CASE SaveFails(w)
  <2>1. FinalizeAsFailed(w, row) /\ text' = text
    BY <1>0, <1>4 DEF SaveFails
  <2> QED
    BY <1>0, <2>1 DEF FinalizeAsFailed, Swallowing
<1> QED
  BY <1>1, <1>2, <1>3, <1>4 DEF Executes

LEMMA StepDecided == TypeOK /\ [Next]_vars => [StaysDecided]_vars
<1> SUFFICES ASSUME TypeOK, Next, row.status \in TerminalStatus
             PROVE  \/ row'.status = row.status /\ text' = text
                    \/ row'.status = "ABSENT"
  BY DEF StaysDecided
<1>1. ASSUME NEW w \in Worker, Deliver(w) \/ Ack(w) \/ Die(w)
      PROVE  row'.status = row.status /\ text' = text
  BY <1>1 DEF Deliver, Ack, Die
<1>2. ASSUME NEW w \in Worker, Executes(w)
      PROVE  row'.status = row.status /\ text' = text
  BY <1>2, ExecutionDecided
<1>3. CASE DetectorFails
  BY <1>3 DEF DetectorFails, TerminalStatus
<1>4. CASE UserDeletes
  BY <1>4 DEF UserDeletes, NewRow
<1> QED
  BY <1>1, <1>2, <1>3, <1>4 DEF Next

\* A job is decided once: a COMPLETED or FAILED row keeps its status and its
\* report until the user deletes it, whatever is delivered how often.
THEOREM DecidedOnceTheorem == Spec => DecidedOnce
<1>1. TypeOK /\ [Next]_vars => [StaysDecided]_vars
  BY StepDecided
<1>2. Spec => []TypeOK
  BY TypeTheorem
<1>3. [][StaysDecided]_vars => DecidedOnce
  BY PTL DEF StaysDecided, DecidedOnce
<1> QED
  BY <1>1, <1>2, <1>3, PTL DEF Spec

=============================================================================
