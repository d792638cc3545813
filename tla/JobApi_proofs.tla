--------------------------- MODULE JobApi_proofs ---------------------------
(***************************************************************************)
(* What holds of the job API for any number of handlers, jobs, contents    *)
(* and share tokens.                                                       *)
(*                                                                         *)
(* The handlers hold no lock, so the invariant says, for every place a     *)
(* handler can be cut in, what it may still rely on: a job that is not yet *)
(* committed belongs to its handler alone; an edit or a launch that nothing*)
(* has overlapped (the job is not blurred) still finds the draft it        *)
(* loaded; a job about to be shared is finished or gone; and what the      *)
(* duplicate check saw can only get less like the job it was made for.     *)
(*                                                                         *)
(* That every job is on the page needs one more: a retry is younger than   *)
(* what it repeats.  A chain of retries then runs out of numbers, and the  *)
(* chain is a recursive function, which takes an induction.                *)
(***************************************************************************)
EXTENDS JobApi, WellFoundedInduction, TLAPS

USE DEF history

Status(j) == row[j].status
Absent(j) == Status(j) = "ABSENT"

\* The handler of a job that is not in the table yet.
Fresh(r) == req[r].at \in {"start", "commit"}

\* The content nobody may ask for again because of this job.
Claims(i) ==
    IF Status(i) \in LiveStatus /\ ~card[i].draft /\ card[i].recent
    THEN {card[i].content} ELSE {}

\* A job without a row is its handler's alone, and repeats nothing it saw.
FreshOK(r) ==
    Fresh(r) => /\ Absent(req[r].job)
                /\ \A k \in Job : req[r].job \notin seen[k]
                /\ \A i \in seen[req[r].job] : req[r].content \notin Claims(i)

PlaceOK(r) ==
    LET h == req[r]
        j == h.job
    IN  /\ h.at = "idle" => j = 0
        /\ h.at # "idle" => j \in Job /\ j < next
        /\ h.at = "commit" => wf[j].state # "none" /\ wf[j].content = h.content
        /\ h.at \in {"edit", "launch", "mark"} => Absent(j) \/ card[j].draft
        /\ h.at \in {"edit", "launch"} /\ j \notin blurred => Status(j) \in {"DRAFT", "ABSENT"}
        /\ h.at \in {"launch", "mark"} => Status(j) \notin {"REPORTING", "COMPLETED"}
        /\ h.at \in {"launch", "mark"} /\ j \notin blurred =>
              Absent(j) \/ card[j].content = h.content
        /\ h.at = "mark" => wf[j].state # "none"
        /\ h.at = "mark" /\ j \notin blurred => wf[j].content = h.content
        /\ h.at = "share" => Status(j) \in {"COMPLETED", "ABSENT"}

\* A job without a row has one handler at most; a launch that is not blurred
\* has the draft for itself.
Alone == \A q, r \in Request : q # r /\ Fresh(r) => req[q].job # req[r].job

Apart ==
    \A q, r \in Request :
        /\ q # r /\ req[q].job = req[r].job
        /\ req[q].at \in {"launch", "mark"} /\ req[r].at \in {"edit", "launch", "mark"}
        => req[r].job \in blurred

JobOK(j) ==
    /\ j >= next => Absent(j) /\ wf[j].state = "none" /\ seen[j] = {}
    /\ \A i \in seen[j] : i < next
    /\ Status(j) \notin {"ABSENT", "DRAFT"} =>
          /\ wf[j].state # "none"
          /\ j \notin blurred => card[j].content = wf[j].content
    /\ wf[j].state = "running" => Status(j) \notin {"REPORTING", "COMPLETED"}
    /\ Status(j) = "DRAFT" => card[j].draft
    /\ Status(j) = "DRAFT" /\ j \notin blurred /\ wf[j].state # "none" =>
          \E r \in Request : req[r].at = "mark" /\ req[r].job = j
    /\ ~Absent(j) /\ ~card[j].draft /\ Status(j) \in {"REPORTING"} \cup TerminalStatus =>
          wf[j].state = "closed"
    /\ ~Absent(j) /\ card[j].token # 0 => Status(j) = "COMPLETED"
    /\ ~Absent(j) /\ ~card[j].draft => \A i \in seen[j] : card[j].content \notin Claims(i)

IInv ==
    /\ TypeOK
    /\ \A r \in Request : FreshOK(r) /\ PlaceOK(r)
    /\ \A j \in Job : JobOK(j)
    /\ Alone /\ Apart

-----------------------------------------------------------------------------
(* What a statement does to one row, and a step to one handler.              *)

LEMMA JobFacts ==
    /\ Job \subseteq Nat \ {0}
    /\ \A j \in Job : j <= MaxJobs
    /\ \A n \in 1..MaxJobs + 1 : n <= MaxJobs => n \in Job /\ n + 1 \in 1..MaxJobs + 1
PROOF
    BY ApiAssumption DEF Job

LEMMA NextFacts ==
    ASSUME next \in 1..MaxJobs + 1, next' = next + 1
    PROVE  \A i \in Job : /\ (i < next) => (i < next')
                          /\ (i >= next') => (i >= next)
PROOF
<1>1. next \in Nat /\ \A i \in Job : i \in Nat
    BY ApiAssumption, JobFacts
<1>. QED  BY <1>1

LEMMA NewRowFacts ==
    ASSUME NEW s \in JobStatus \cup {"ABSENT"}
    PROVE  NewRow(s) \in JobRow /\ NewRow(s).status = s
PROOF
    BY RowAssumption DEF JobRow, NewRow

\* Every statement of the module JobRow that changes a status here.
LEMMA RowFacts ==
    ASSUME NEW x \in JobRow
    PROVE  /\ UpdateWhere(x, JobStatus, [x EXCEPT !.status = "PENDING"]) \in JobRow
           /\ UpdateWhere(x, JobStatus, [x EXCEPT !.status = "PENDING"]).status =
                 IF x.status = "ABSENT" THEN "ABSENT" ELSE "PENDING"
           /\ UpdatePodId(x, x.pod_id) \in JobRow
           /\ UpdatePodId(x, x.pod_id).status =
                 IF x.status = "ABSENT" THEN "ABSENT" ELSE "PROVISIONING"
           /\ TransitionToRunning(x) \in JobRow
           /\ TransitionToRunning(x).status =
                 IF x.status = "PROVISIONING" THEN "RUNNING" ELSE x.status
           /\ UpdateStage(x) \in JobRow
           /\ UpdateStage(x).status =
                 IF x.status \in {"ABSENT", "COMPLETED"} THEN x.status ELSE "RUNNING"
           /\ MarkFailed(x) \in JobRow
           /\ MarkFailed(x).status =
                 IF x.status \in {"ABSENT", "COMPLETED", "REFUNDED"} THEN x.status ELSE "FAILED"
           /\ TransitionToReporting(x) \in JobRow
           /\ TransitionToReporting(x).status =
                 IF x.status \in {"RUNNING", "PROVISIONING"} THEN "REPORTING" ELSE x.status
           /\ SaveReport(x) \in JobRow
           /\ SaveReport(x).status =
                 IF x.status = "REPORTING" THEN "COMPLETED" ELSE x.status
PROOF
    BY RowAssumption DEF JobRow, UpdateWhere, UpdatePodId, UpdateStage, MarkFailed,
       TransitionToRunning, TransitionToReporting, SaveReport, JobStatus, LiveStatus, TerminalStatus

LEMMA WriteFacts ==
    ASSUME TypeOK, NEW j \in Job, NEW x \in JobRow, Write(j, x)
    PROVE  /\ row' \in [Job -> JobRow]
           /\ \A k \in Job : k # j => row'[k] = row[k]
           /\ row'[j] = x
PROOF
    BY DEF TypeOK, Write

LEMMA CardFacts ==
    ASSUME NEW x \in Card
    PROVE  /\ \A c \in Content \cup {NoContent} : [x EXCEPT !.content = c] \in Card
           /\ \A i \in Job \cup {0} : [x EXCEPT !.retryOf = i] \in Card
           /\ \A n \in 0..MaxTokens : [x EXCEPT !.token = n] \in Card
           /\ [x EXCEPT !.recent = FALSE] \in Card
PROOF
    BY ApiAssumption DEF Card

LEMMA NewCardFacts ==
    ASSUME NEW c \in Content \cup {NoContent}, NEW draft \in BOOLEAN
    PROVE  NewCard(c, draft) \in Card
PROOF
    BY ApiAssumption DEF Card, NewCard

LEMMA Moved ==
    ASSUME TypeOK, NEW r \in Request, NEW p \in Place, Moves(r, p)
    PROVE  /\ req' \in [Request -> Handler]
           /\ \A q \in Request : q # r => req'[q] = req[q]
           /\ req'[r].at = p /\ req'[r].job = req[r].job
           /\ req'[r].content = req[r].content
PROOF
    BY DEF TypeOK, Moves, Goes, Handler

LEMMA Replied ==
    ASSUME TypeOK, NEW r \in Request, Replies(r)
    PROVE  /\ req' \in [Request -> Handler]
           /\ \A q \in Request : q # r => req'[q] = req[q]
           /\ req'[r].at = "idle" /\ req'[r].job = 0
PROOF
    BY DEF TypeOK, Replies, Goes, Handler, Idle, Place

LEMMA Began ==
    ASSUME TypeOK, NEW r \in Request, NEW p \in Place, NEW j \in Job,
           NEW c \in Content \cup {NoContent}, NEW o \in Job \cup {0},
           Goes(r, [at |-> p, job |-> j, content |-> c, origin |-> o])
    PROVE  /\ req' \in [Request -> Handler]
           /\ \A q \in Request : q # r => req'[q] = req[q]
           /\ req'[r].at = p /\ req'[r].job = j /\ req'[r].content = c
PROOF
    BY DEF TypeOK, Goes, Handler

LEMMA CutOffStep ==
    ASSUME IInv, NEW r \in Request, CutOff(r)
    PROVE  IInv'
PROOF
<1>0. TypeOK
    BY DEF IInv
<1>1. /\ req[r].at # "idle" /\ req[r].job \in Job
      /\ blurred' = IF req[r].at = "mark" THEN blurred \cup {req[r].job} ELSE blurred
      /\ UNCHANGED <<row, card, next, issued, wf, seen, overtaken>>
    BY DEF CutOff, At, IInv, PlaceOK
<1>2. /\ req' \in [Request -> Handler]
      /\ \A q \in Request : q # r => req'[q] = req[q]
      /\ req'[r].at = "idle" /\ req'[r].job = 0
    BY Replied DEF CutOff, IInv
<1>4. \A i \in Job : Claims(i)' \subseteq Claims(i)
    BY <1>0, <1>1, <1>2 DEF TypeOK, Claims, Status, LiveStatus
<1>5. TypeOK'
    BY <1>0, <1>1, <1>2, JobFacts DEF TypeOK
<1>6. ASSUME NEW q \in Request
      PROVE  FreshOK(q)'
    <2>1. FreshOK(q) /\ PlaceOK(q) /\ req[q] \in Handler
        BY DEF IInv, TypeOK
    <2>2. CASE q = r
        BY <2>2, <2>1, <1>0, <1>1, <1>2, <1>4, JobFacts
           DEF TypeOK, PlaceOK, FreshOK, Fresh, Absent, Status
    <2>3. CASE q # r
        <3>1. req'[q] = req[q]
            BY <2>3, <1>2
        <3>. QED  BY <2>3, <3>1, <2>1, <1>0, <1>1, <1>2, <1>4, JobFacts
           DEF TypeOK, PlaceOK, FreshOK, Fresh, Absent, Status
    <2>. QED  BY <2>2, <2>3
<1>7. ASSUME NEW q \in Request
      PROVE  PlaceOK(q)'
    <2>1. PlaceOK(q) /\ req[q] \in Handler
        BY DEF IInv, TypeOK
    <2>2. CASE q = r
        BY <2>2, <2>1, <1>1, <1>2
           DEF PlaceOK, Absent, Status
    <2>3. CASE q # r
        <3>1. req'[q] = req[q]
            BY <2>3, <1>2
        <3>. QED  BY <2>3, <3>1, <2>1, <1>1, <1>2
           DEF PlaceOK, Absent, Status
    <2>. QED  BY <2>2, <2>3
<1>8. ASSUME NEW k \in Job
      PROVE  JobOK(k)'
    <2>1. JobOK(k)
        BY DEF IInv
    <2>. QED  BY <2>1, <1>0, <1>1, <1>2, <1>4, JobFacts, SMTT(30)
           DEF TypeOK, JobOK, Absent, Status
<1>9. Alone' /\ Apart'
    <2>1. Alone /\ Apart /\ \A q \in Request : PlaceOK(q)
        BY DEF IInv
    <2>2. Alone'
        BY <2>1, <1>0, <1>1, <1>2, JobFacts DEF TypeOK, Alone, PlaceOK, Fresh
    <2>3. Apart'
        BY <2>1, <1>0, <1>1, <1>2, JobFacts DEF TypeOK, Apart, PlaceOK
    <2>. QED  BY <2>2, <2>3
<1>. QED  BY <1>5, <1>6, <1>7, <1>8, <1>9 DEF IInv

LEMMA CommitJobStep ==
    ASSUME IInv, NEW r \in Request, CommitJob(r)
    PROVE  IInv'
PROOF
<1>0. TypeOK
    BY DEF IInv
<1>1. PICK j \in Job :
         /\ req[r].at = "commit" /\ req[r].job = j
         /\ req[r].content \in Content \cup {NoContent}
         /\ UNCHANGED <<next, issued, wf, seen, blurred>>
    BY DEF CommitJob, At, IInv, PlaceOK, TypeOK, Handler
<1>1b. /\ NewRow("PENDING") \in JobRow /\ NewRow("PENDING").status = "PENDING"
      /\ NewCard(req[r].content, FALSE) \in Card
    BY <1>1, NewRowFacts, NewCardFacts DEF JobStatus, LiveStatus
<1>2. /\ row' \in [Job -> JobRow]
      /\ \A k \in Job : k # j => row'[k].status = row[k].status
      /\ row'[j].status = "PENDING"
      /\ card' \in [Job -> Card]
      /\ \A k \in Job : k # j => card'[k] = card[k]
      /\ card'[j].content = req[r].content /\ ~card'[j].draft /\ card'[j].token = 0
      /\ req' \in [Request -> Handler]
      /\ \A q \in Request : q # r => req'[q] = req[q]
      /\ \/ req'[r].at = "idle" /\ req'[r].job = 0
         \/ req'[r].at = "link" /\ req'[r].job = req[r].job
      /\ overtaken' \subseteq Job
      /\ UNCHANGED <<next, issued, wf, seen, blurred>>
    BY <1>1, <1>1b, Replied, Moved DEF CommitJob, SaysPending, IInv, TypeOK, Place, NewCard
<1>3. /\ \A q \in Request : q # r => req[q].job # j
      /\ row[j].status = "ABSENT" /\ j < next
      /\ wf[j].state # "none" /\ wf[j].content = req[r].content
      /\ \A k \in Job : j \notin seen[k]
      /\ \A i \in seen[j] : i \in Job /\ i # j /\ req[r].content \notin Claims(i)
    BY <1>0, <1>1 DEF IInv, TypeOK, Alone, PlaceOK, FreshOK, Fresh, Absent, Status
<1>4. \A i \in Job : i # j => Claims(i)' \subseteq Claims(i)
    BY <1>0, <1>1, <1>2, <1>3 DEF TypeOK, Claims, Status, LiveStatus
<1>5. TypeOK'
    BY <1>0, <1>1, <1>2, <1>3, JobFacts DEF TypeOK
<1>6. ASSUME NEW q \in Request
      PROVE  FreshOK(q)'
    <2>1. FreshOK(q) /\ PlaceOK(q) /\ req[q] \in Handler
        BY DEF IInv, TypeOK
    <2>2. CASE q = r
        BY <2>2, <2>1, <1>0, <1>1, <1>2, <1>3, <1>4, JobFacts
           DEF TypeOK, PlaceOK, FreshOK, Fresh, Absent, Status
    <2>3. CASE q # r
        <3>1. req'[q] = req[q]
            BY <2>3, <1>2
        <3>2. Fresh(q) => /\ req[q].job \in Job /\ req[q].job # j
                          /\ \A i \in seen[req[q].job] : i \in Job /\ i # j
            BY <2>1, <2>3, <1>0, <1>1, <1>3 DEF TypeOK, PlaceOK, Fresh
        <3>. QED  BY <3>1, <3>2, <2>1, <1>1, <1>2, <1>3, <1>4
           DEF FreshOK, Fresh, Absent, Status
    <2>. QED  BY <2>2, <2>3
<1>7. ASSUME NEW q \in Request
      PROVE  PlaceOK(q)'
    <2>1. PlaceOK(q) /\ req[q] \in Handler
        BY DEF IInv, TypeOK
    <2>2. CASE q = r
        BY <2>2, <2>1, <1>1, <1>2, <1>3
           DEF PlaceOK, Absent, Status
    <2>3. CASE q # r
        <3>1. req'[q] = req[q]
            BY <2>3, <1>2
        <3>. QED  BY <2>3, <3>1, <2>1, <1>1, <1>2, <1>3
           DEF PlaceOK, Absent, Status
    <2>. QED  BY <2>2, <2>3
<1>8. ASSUME NEW k \in Job
      PROVE  JobOK(k)'
    <2>1. JobOK(k)
        BY DEF IInv
    <2>2. CASE k = j
        <3>1. j \in Nat /\ next \in Nat /\ ~(j >= next)
            BY <1>0, <1>3, JobFacts DEF TypeOK
        <3>. QED  BY <2>1, <2>2, <3>1, <1>1, <1>2, <1>3, <1>4, ZenonT(30)
               DEF JobOK, Absent, Status, TerminalStatus
    <2>3. CASE k # j
        <3>1. \A i \in seen[k] : i \in Job /\ i # j
            BY <1>0, <1>3 DEF TypeOK
        <3>2. \A q \in Request : req[q].at = "mark" => req'[q] = req[q]
            BY <1>1, <1>2
        <3>. QED  BY <2>1, <2>3, <3>1, <3>2, <1>1, <1>2, <1>4 DEF JobOK, Absent, Status
    <2>. QED  BY <2>2, <2>3
<1>9. Alone' /\ Apart'
    <2>1. Alone /\ Apart /\ \A q \in Request : PlaceOK(q)
        BY DEF IInv
    <2>2. Alone'
        BY <2>1, <1>0, <1>1, <1>2, <1>3, JobFacts DEF TypeOK, Alone, PlaceOK, Fresh
    <2>3. Apart'
        BY <2>1, <1>0, <1>1, <1>2, <1>3, JobFacts DEF TypeOK, Apart, PlaceOK
    <2>. QED  BY <2>2, <2>3
<1>. QED  BY <1>5, <1>6, <1>7, <1>8, <1>9 DEF IInv

LEMMA RevokeStep ==
    ASSUME IInv, RevokeShareLink
    PROVE  IInv'
PROOF
<1>0. TypeOK
    BY DEF IInv
<1>1. PICK j \in Job :
         /\ card' = [card EXCEPT ![j].token = 0]
         /\ UNCHANGED <<row, next, issued, wf, req, seen, blurred, overtaken>>
    BY DEF RevokeShareLink, Visible
<1>2a. [card[j] EXCEPT !.token = 0] \in Card
    BY CardFacts, ApiAssumption, 0 \in 0..MaxTokens DEF IInv, TypeOK
<1>2. /\ card' \in [Job -> Card]
      /\ \A k \in Job : /\ card'[k].content = card[k].content
                        /\ card'[k].draft = card[k].draft
                        /\ card'[k].recent = card[k].recent
                        /\ card'[k].token \in {0, card[k].token}
      /\ UNCHANGED <<row, next, issued, wf, req, seen, blurred, overtaken>>
    BY <1>1, <1>2a DEF IInv, TypeOK, Card
<1>4. \A i \in Job : Claims(i)' \subseteq Claims(i)
    BY <1>0, <1>2 DEF TypeOK, Claims, Status, LiveStatus
<1>5. TypeOK'
    BY <1>0, <1>2, JobFacts DEF TypeOK
<1>6. ASSUME NEW q \in Request
      PROVE  FreshOK(q)'
    <2>1. FreshOK(q) /\ PlaceOK(q) /\ req[q] \in Handler
        BY DEF IInv, TypeOK
    <2>. QED  BY <2>1, <1>0, <1>2, <1>4, JobFacts
           DEF TypeOK, PlaceOK, FreshOK, Fresh, Absent, Status
<1>7. ASSUME NEW q \in Request
      PROVE  PlaceOK(q)'
    <2>1. PlaceOK(q) /\ req[q] \in Handler
        BY DEF IInv, TypeOK
    <2>. QED  BY <2>1, <1>2
           DEF PlaceOK, Absent, Status
<1>8. ASSUME NEW k \in Job
      PROVE  JobOK(k)'
    <2>1. JobOK(k)
        BY DEF IInv
    <2>. QED  BY <2>1, <1>0, <1>2, <1>4, JobFacts
           DEF TypeOK, JobOK, Absent, Status
<1>9. Alone' /\ Apart'
    <2>1. Alone /\ Apart /\ \A q \in Request : PlaceOK(q)
        BY DEF IInv
    <2>2. Alone'
        BY <2>1, <1>0, <1>2, JobFacts DEF TypeOK, Alone, PlaceOK, Fresh
    <2>3. Apart'
        BY <2>1, <1>0, <1>2, JobFacts DEF TypeOK, Apart, PlaceOK
    <2>. QED  BY <2>2, <2>3
<1>. QED  BY <1>5, <1>6, <1>7, <1>8, <1>9 DEF IInv

LEMMA AgesStep ==
    ASSUME IInv, Ages
    PROVE  IInv'
PROOF
<1>0. TypeOK
    BY DEF IInv
<1>1. PICK j \in Job :
         /\ card' = [card EXCEPT ![j].recent = FALSE]
         /\ UNCHANGED <<row, next, issued, wf, req, seen, blurred, overtaken>>
    BY DEF Ages, Visible
<1>2a. [card[j] EXCEPT !.recent = FALSE] \in Card
    BY CardFacts DEF IInv, TypeOK
<1>2. /\ card' \in [Job -> Card]
      /\ \A k \in Job : /\ card'[k].content = card[k].content
                        /\ card'[k].draft = card[k].draft
                        /\ card'[k].token = card[k].token
                        /\ card'[k].recent => card[k].recent
      /\ UNCHANGED <<row, next, issued, wf, req, seen, blurred, overtaken>>
    BY <1>1, <1>2a DEF IInv, TypeOK, Card
<1>4. \A i \in Job : Claims(i)' \subseteq Claims(i)
    BY <1>0, <1>2 DEF TypeOK, Claims, Status, LiveStatus
<1>5. TypeOK'
    BY <1>0, <1>2, JobFacts DEF TypeOK
<1>6. ASSUME NEW q \in Request
      PROVE  FreshOK(q)'
    <2>1. FreshOK(q) /\ PlaceOK(q) /\ req[q] \in Handler
        BY DEF IInv, TypeOK
    <2>. QED  BY <2>1, <1>0, <1>2, <1>4, JobFacts
           DEF TypeOK, PlaceOK, FreshOK, Fresh, Absent, Status
<1>7. ASSUME NEW q \in Request
      PROVE  PlaceOK(q)'
    <2>1. PlaceOK(q) /\ req[q] \in Handler
        BY DEF IInv, TypeOK
    <2>. QED  BY <2>1, <1>2
           DEF PlaceOK, Absent, Status
<1>8. ASSUME NEW k \in Job
      PROVE  JobOK(k)'
    <2>1. JobOK(k)
        BY DEF IInv
    <2>. QED  BY <2>1, <1>0, <1>2, <1>4, JobFacts
           DEF TypeOK, JobOK, Absent, Status
<1>9. Alone' /\ Apart'
    <2>1. Alone /\ Apart /\ \A q \in Request : PlaceOK(q)
        BY DEF IInv
    <2>2. Alone'
        BY <2>1, <1>0, <1>2, JobFacts DEF TypeOK, Alone, PlaceOK, Fresh
    <2>3. Apart'
        BY <2>1, <1>0, <1>2, JobFacts DEF TypeOK, Apart, PlaceOK
    <2>. QED  BY <2>2, <2>3
<1>. QED  BY <1>5, <1>6, <1>7, <1>8, <1>9 DEF IInv

LEMMA LinkStep ==
    ASSUME IInv, NEW r \in Request, Link(r)
    PROVE  IInv'
PROOF
<1>0. TypeOK
    BY DEF IInv
<1>1. /\ req[r].at = "link" /\ req[r].job \in Job /\ req[r].origin \in Job \cup {0}
      /\ UNCHANGED <<row, next, issued, wf, seen, blurred, overtaken>>
    BY DEF Link, At, IInv, PlaceOK, TypeOK, Handler
<1>2a. [card[req[r].job] EXCEPT !.retryOf = req[r].origin] \in Card
    BY <1>1, CardFacts DEF IInv, TypeOK
<1>2. /\ card' \in [Job -> Card]
      /\ \A k \in Job : /\ card'[k].content = card[k].content
                        /\ card'[k].draft = card[k].draft
                        /\ card'[k].recent = card[k].recent
                        /\ card'[k].token = card[k].token
      /\ req' \in [Request -> Handler]
      /\ \A q \in Request : q # r => req'[q] = req[q]
      /\ req'[r].at = "idle" /\ req'[r].job = 0
    BY <1>1, <1>2a, Replied DEF IInv, TypeOK, Card, Link
<1>4. \A i \in Job : Claims(i)' \subseteq Claims(i)
    BY <1>0, <1>1, <1>2 DEF TypeOK, Claims, Status, LiveStatus
<1>5. TypeOK'
    BY <1>0, <1>1, <1>2, JobFacts DEF TypeOK
<1>6. ASSUME NEW q \in Request
      PROVE  FreshOK(q)'
    <2>1. FreshOK(q) /\ PlaceOK(q) /\ req[q] \in Handler
        BY DEF IInv, TypeOK
    <2>2. CASE q = r
        BY <2>2, <2>1, <1>0, <1>1, <1>2, <1>4, JobFacts
           DEF TypeOK, PlaceOK, FreshOK, Fresh, Absent, Status
    <2>3. CASE q # r
        <3>1. req'[q] = req[q]
            BY <2>3, <1>2
        <3>. QED  BY <2>3, <3>1, <2>1, <1>0, <1>1, <1>2, <1>4, JobFacts
           DEF TypeOK, PlaceOK, FreshOK, Fresh, Absent, Status
    <2>. QED  BY <2>2, <2>3
<1>7. ASSUME NEW q \in Request
      PROVE  PlaceOK(q)'
    <2>1. PlaceOK(q) /\ req[q] \in Handler
        BY DEF IInv, TypeOK
    <2>2. CASE q = r
        BY <2>2, <2>1, <1>1, <1>2
           DEF PlaceOK, Absent, Status
    <2>3. CASE q # r
        <3>1. req'[q] = req[q]
            BY <2>3, <1>2
        <3>. QED  BY <2>3, <3>1, <2>1, <1>1, <1>2
           DEF PlaceOK, Absent, Status
    <2>. QED  BY <2>2, <2>3
<1>8. ASSUME NEW k \in Job
      PROVE  JobOK(k)'
    <2>1. JobOK(k)
        BY DEF IInv
    <2>. QED  BY <2>1, <1>0, <1>1, <1>2, <1>4, JobFacts, SMTT(30)
           DEF TypeOK, JobOK, Absent, Status
<1>9. Alone' /\ Apart'
    <2>1. Alone /\ Apart /\ \A q \in Request : PlaceOK(q)
        BY DEF IInv
    <2>2. Alone'
        BY <2>1, <1>0, <1>1, <1>2, JobFacts DEF TypeOK, Alone, PlaceOK, Fresh
    <2>3. Apart'
        BY <2>1, <1>0, <1>1, <1>2, JobFacts DEF TypeOK, Apart, PlaceOK
    <2>. QED  BY <2>2, <2>3
<1>. QED  BY <1>5, <1>6, <1>7, <1>8, <1>9 DEF IInv

LEMMA CommitShareStep ==
    ASSUME IInv, NEW r \in Request, CommitShareLink(r)
    PROVE  IInv'
PROOF
<1>0. TypeOK
    BY DEF IInv
<1>1. /\ req[r].at = "share" /\ req[r].job \in Job
      /\ issued' \in 0..MaxTokens /\ issued + 1 \in 0..MaxTokens
      /\ UNCHANGED <<row, next, wf, seen, blurred, overtaken>>
    BY ApiAssumption DEF CommitShareLink, At, IInv, PlaceOK, TypeOK
<1>2a. [card[req[r].job] EXCEPT !.token = issued + 1] \in Card
    BY <1>1, CardFacts DEF IInv, TypeOK
<1>2. /\ card' \in [Job -> Card]
      /\ \A k \in Job : /\ card'[k].content = card[k].content
                        /\ card'[k].draft = card[k].draft
                        /\ card'[k].recent = card[k].recent
                        /\ card'[k].token # card[k].token =>
                                 row[k].status # "ABSENT" /\ k = req[r].job
      /\ req' \in [Request -> Handler]
      /\ \A q \in Request : q # r => req'[q] = req[q]
      /\ req'[r].at = "idle" /\ req'[r].job = 0
    BY <1>1, <1>2a, Replied DEF IInv, TypeOK, Card, CommitShareLink, Visible
<1>3. row[req[r].job].status \in {"COMPLETED", "ABSENT"}
    BY <1>1 DEF IInv, PlaceOK, Status
<1>4. \A i \in Job : Claims(i)' \subseteq Claims(i)
    BY <1>0, <1>1, <1>2, <1>3 DEF TypeOK, Claims, Status, LiveStatus
<1>5. TypeOK'
    BY <1>0, <1>1, <1>2, <1>3, JobFacts DEF TypeOK
<1>6. ASSUME NEW q \in Request
      PROVE  FreshOK(q)'
    <2>1. FreshOK(q) /\ PlaceOK(q) /\ req[q] \in Handler
        BY DEF IInv, TypeOK
    <2>2. CASE q = r
        BY <2>2, <2>1, <1>0, <1>1, <1>2, <1>3, <1>4, JobFacts
           DEF TypeOK, PlaceOK, FreshOK, Fresh, Absent, Status
    <2>3. CASE q # r
        <3>1. req'[q] = req[q]
            BY <2>3, <1>2
        <3>. QED  BY <2>3, <3>1, <2>1, <1>0, <1>1, <1>2, <1>3, <1>4, JobFacts
           DEF TypeOK, PlaceOK, FreshOK, Fresh, Absent, Status
    <2>. QED  BY <2>2, <2>3
<1>7. ASSUME NEW q \in Request
      PROVE  PlaceOK(q)'
    <2>1. PlaceOK(q) /\ req[q] \in Handler
        BY DEF IInv, TypeOK
    <2>2. CASE q = r
        BY <2>2, <2>1, <1>1, <1>2, <1>3
           DEF PlaceOK, Absent, Status
    <2>3. CASE q # r
        <3>1. req'[q] = req[q]
            BY <2>3, <1>2
        <3>. QED  BY <2>3, <3>1, <2>1, <1>1, <1>2, <1>3
           DEF PlaceOK, Absent, Status
    <2>. QED  BY <2>2, <2>3
<1>8. ASSUME NEW k \in Job
      PROVE  JobOK(k)'
    <2>1. JobOK(k)
        BY DEF IInv
    <2>. QED  BY <2>1, <1>0, <1>1, <1>2, <1>3, <1>4, JobFacts
           DEF TypeOK, JobOK, Absent, Status
<1>9. Alone' /\ Apart'
    <2>1. Alone /\ Apart /\ \A q \in Request : PlaceOK(q)
        BY DEF IInv
    <2>2. Alone'
        BY <2>1, <1>0, <1>1, <1>2, <1>3, JobFacts DEF TypeOK, Alone, PlaceOK, Fresh
    <2>3. Apart'
        BY <2>1, <1>0, <1>1, <1>2, <1>3, JobFacts DEF TypeOK, Apart, PlaceOK
    <2>. QED  BY <2>2, <2>3
<1>. QED  BY <1>5, <1>6, <1>7, <1>8, <1>9 DEF IInv

LEMMA CommitDraftStep ==
    ASSUME IInv, NEW r \in Request, CommitDraft(r)
    PROVE  IInv'
PROOF
<1>0. TypeOK
    BY DEF IInv
<1>1. /\ req[r].at = "edit" /\ req[r].job \in Job
      /\ UNCHANGED <<row, next, issued, wf, seen, blurred, overtaken>>
    BY DEF CommitDraft, At, IInv, PlaceOK
<1>2a. \A c \in Content \cup {NoContent} : [card[req[r].job] EXCEPT !.content = c] \in Card
    BY <1>1, CardFacts DEF IInv, TypeOK
<1>2. /\ card' \in [Job -> Card]
      /\ \A k \in Job : /\ card'[k].draft = card[k].draft
                        /\ card'[k].recent = card[k].recent
                        /\ card'[k].token = card[k].token
                        /\ card'[k].content # card[k].content => card[k].draft /\ k = req[r].job
      /\ req' \in [Request -> Handler]
      /\ \A q \in Request : q # r => req'[q] = req[q]
      /\ req'[r].at = "idle" /\ req'[r].job = 0
    <2>1. req[r].job \in Visible => card[req[r].job].draft
        BY <1>1 DEF IInv, PlaceOK, Visible, Absent, Status
    <2>2. CASE card' = card
        BY <1>0, <2>2, Replied DEF TypeOK, CommitDraft
    <2>3. ASSUME NEW c \in Content \cup {NoContent}, req[r].job \in Visible,
                 card' = [card EXCEPT ![req[r].job].content = c]
          PROVE  /\ card' \in [Job -> Card]
                 /\ \A k \in Job : /\ card'[k].draft = card[k].draft
                                   /\ card'[k].recent = card[k].recent
                                   /\ card'[k].token = card[k].token
                                   /\ k # req[r].job => card'[k].content = card[k].content
        BY <1>0, <1>1, <1>2a, <2>3 DEF TypeOK, Card
    <2>. QED  BY <1>0, <2>1, <2>2, <2>3, Replied DEF CommitDraft
<1>3. /\ req[r].job \in blurred \/ row[req[r].job].status \in {"DRAFT", "ABSENT"}
      /\ \A q \in Request :
            /\ req[q].job = req[r].job /\ req[q].at \in {"launch", "mark"}
            => req[q].job \in blurred
    BY <1>1 DEF IInv, PlaceOK, Apart, Status
<1>4. \A i \in Job : Claims(i)' \subseteq Claims(i)
    BY <1>0, <1>1, <1>2, <1>3 DEF TypeOK, Claims, Status, LiveStatus
<1>5. TypeOK'
    BY <1>0, <1>1, <1>2, <1>3, JobFacts DEF TypeOK
<1>6. ASSUME NEW q \in Request
      PROVE  FreshOK(q)'
    <2>1. FreshOK(q) /\ PlaceOK(q) /\ req[q] \in Handler
        BY DEF IInv, TypeOK
    <2>2. CASE q = r
        BY <2>2, <2>1, <1>0, <1>1, <1>2, <1>3, <1>4, JobFacts
           DEF TypeOK, PlaceOK, FreshOK, Fresh, Absent, Status
    <2>3. CASE q # r
        <3>1. req'[q] = req[q]
            BY <2>3, <1>2
        <3>. QED  BY <2>3, <3>1, <2>1, <1>0, <1>1, <1>2, <1>3, <1>4, JobFacts
           DEF TypeOK, PlaceOK, FreshOK, Fresh, Absent, Status
    <2>. QED  BY <2>2, <2>3
<1>7. ASSUME NEW q \in Request
      PROVE  PlaceOK(q)'
    <2>1. PlaceOK(q) /\ req[q] \in Handler
        BY DEF IInv, TypeOK
    <2>2. CASE q = r
        BY <2>2, <2>1, <1>1, <1>2, <1>3
           DEF PlaceOK, Absent, Status
    <2>3. CASE q # r
        <3>1. req'[q] = req[q]
            BY <2>3, <1>2
        <3>. QED  BY <2>3, <3>1, <2>1, <1>1, <1>2, <1>3
           DEF PlaceOK, Absent, Status
    <2>. QED  BY <2>2, <2>3
<1>8. ASSUME NEW k \in Job
      PROVE  JobOK(k)'
    <2>1. JobOK(k)
        BY DEF IInv
    <2>. QED  BY <2>1, <1>0, <1>1, <1>2, <1>3, <1>4, JobFacts
           DEF TypeOK, JobOK, Absent, Status
<1>9. Alone' /\ Apart'
    <2>1. Alone /\ Apart /\ \A q \in Request : PlaceOK(q)
        BY DEF IInv
    <2>2. Alone'
        BY <2>1, <1>0, <1>1, <1>2, <1>3, JobFacts DEF TypeOK, Alone, PlaceOK, Fresh
    <2>3. Apart'
        BY <2>1, <1>0, <1>1, <1>2, <1>3, JobFacts DEF TypeOK, Apart, PlaceOK
    <2>. QED  BY <2>2, <2>3
<1>. QED  BY <1>5, <1>6, <1>7, <1>8, <1>9 DEF IInv

LEMMA CreateDraftStep ==
    ASSUME IInv, CreateDraft
    PROVE  IInv'
PROOF
<1>0. TypeOK
    BY DEF IInv
<1>1. PICK j \in Job, c \in Content \cup {NoContent} :
         /\ j = next /\ next' = next + 1 /\ next' \in 1..MaxJobs + 1
         /\ row' = [row EXCEPT ![j] = NewRow("DRAFT")] /\ NewRow("DRAFT") \in JobRow
         /\ card' = [card EXCEPT ![j] = NewCard(c, TRUE)] /\ NewCard(c, TRUE) \in Card
         /\ j = next /\ next' = next + 1 /\ next' \in 1..MaxJobs + 1
      /\ UNCHANGED <<issued, wf, req, seen, blurred, overtaken>>
    BY NewRowFacts, NewCardFacts, JobFacts DEF CreateDraft, IInv, JobStatus, TypeOK
<1>2. /\ row' \in [Job -> JobRow]
      /\ \A k \in Job : k # j => row'[k].status = row[k].status
      /\ row'[j].status = "DRAFT"
      /\ card' \in [Job -> Card]
      /\ \A k \in Job : k # j => card'[k] = card[k]
      /\ card'[j].draft /\ card'[j].token = 0
      /\ row[j].status = "ABSENT" /\ wf[j].state = "none"
      /\ j = next /\ next' = next + 1 /\ next' \in 1..MaxJobs + 1
      /\ UNCHANGED <<issued, wf, req, seen, blurred, overtaken>>
    BY <1>1, JobFacts DEF IInv, TypeOK, NewCard, NewRow, JobOK, Absent, Status
<1>3. /\ \A q \in Request : req[q].job # j
      /\ \A k \in Job : j \notin seen[k]
      /\ seen[j] = {}
    BY <1>0, <1>2, JobFacts DEF IInv, TypeOK, PlaceOK, JobOK
<1>4. \A i \in Job : Claims(i)' \subseteq Claims(i)
    BY <1>0, <1>2, <1>3 DEF TypeOK, Claims, Status, LiveStatus
<1>5. TypeOK'
    BY <1>0, <1>2, <1>3, JobFacts DEF TypeOK
<1>6. ASSUME NEW q \in Request
      PROVE  FreshOK(q)'
    <2>1. FreshOK(q) /\ PlaceOK(q) /\ req[q] \in Handler
        BY DEF IInv, TypeOK
    <2>. QED  BY <2>1, <1>0, <1>2, <1>3, <1>4, JobFacts
           DEF TypeOK, PlaceOK, FreshOK, Fresh, Absent, Status
<1>7. ASSUME NEW q \in Request
      PROVE  PlaceOK(q)'
    <2>1. PlaceOK(q) /\ req[q] \in Handler
        BY DEF IInv, TypeOK
    <2>a. \A i \in Job : (i < next) => (i < next')
        BY <1>0, <1>2, NextFacts DEF TypeOK
    <2>2. req[q].at # "idle" => req[q].job < next'
        BY <2>1, <2>a DEF PlaceOK
    <2>. QED  BY <2>1, <2>2, <1>2, <1>3
           DEF PlaceOK, Absent, Status
<1>8. ASSUME NEW k \in Job
      PROVE  JobOK(k)'
    <2>1. JobOK(k)
        BY DEF IInv
    <2>. QED  BY <2>1, <1>0, <1>2, <1>3, <1>4, JobFacts
           DEF TypeOK, JobOK, Absent, Status
<1>9. Alone' /\ Apart'
    <2>1. Alone /\ Apart /\ \A q \in Request : PlaceOK(q)
        BY DEF IInv
    <2>2. Alone'
        BY <2>1, <1>0, <1>2, <1>3, JobFacts DEF TypeOK, Alone, PlaceOK, Fresh
    <2>3. Apart'
        BY <2>1, <1>0, <1>2, <1>3, JobFacts DEF TypeOK, Apart, PlaceOK
    <2>. QED  BY <2>2, <2>3
<1>. QED  BY <1>5, <1>6, <1>7, <1>8, <1>9 DEF IInv

LEMMA DeleteStep ==
    ASSUME IInv, DeleteJob
    PROVE  IInv'
PROOF
<1>0. TypeOK
    BY DEF IInv
<1>1. PICK j \in Job :
         /\ row[j].status # "ABSENT"
         /\ row' = [row EXCEPT ![j] = NewRow("ABSENT")] /\ NewRow("ABSENT") \in JobRow
         /\ card' = [card EXCEPT ![j] = NewCard(NoContent, FALSE)]
         /\ NewCard(NoContent, FALSE) \in Card
         /\ UNCHANGED <<next, issued, wf, req, seen, blurred, overtaken>>
    BY NewRowFacts, NewCardFacts DEF DeleteJob, Visible
<1>2. /\ row' \in [Job -> JobRow]
      /\ \A k \in Job : k # j => row'[k].status = row[k].status
      /\ row'[j].status = "ABSENT"
      /\ card' \in [Job -> Card]
      /\ \A k \in Job : k # j => card'[k] = card[k]
      /\ UNCHANGED <<next, issued, wf, req, seen, blurred, overtaken>>
    BY <1>1 DEF IInv, TypeOK, NewRow
<1>4. \A i \in Job : Claims(i)' \subseteq Claims(i)
    BY <1>0, <1>2 DEF TypeOK, Claims, Status, LiveStatus
<1>5. TypeOK'
    BY <1>0, <1>2, JobFacts DEF TypeOK
<1>6. ASSUME NEW q \in Request
      PROVE  FreshOK(q)'
    <2>1. FreshOK(q) /\ PlaceOK(q) /\ req[q] \in Handler
        BY DEF IInv, TypeOK
    <2>. QED  BY <2>1, <1>0, <1>2, <1>4, JobFacts
           DEF TypeOK, PlaceOK, FreshOK, Fresh, Absent, Status
<1>7. ASSUME NEW q \in Request
      PROVE  PlaceOK(q)'
    <2>1. PlaceOK(q) /\ req[q] \in Handler
        BY DEF IInv, TypeOK
    <2>. QED  BY <2>1, <1>2
           DEF PlaceOK, Absent, Status
<1>8. ASSUME NEW k \in Job
      PROVE  JobOK(k)'
    <2>1. JobOK(k)
        BY DEF IInv
    <2>. QED  BY <2>1, <1>0, <1>2, <1>4, JobFacts
           DEF TypeOK, JobOK, Absent, Status
<1>9. Alone' /\ Apart'
    <2>1. Alone /\ Apart /\ \A q \in Request : PlaceOK(q)
        BY DEF IInv
    <2>2. Alone'
        BY <2>1, <1>0, <1>2, JobFacts DEF TypeOK, Alone, PlaceOK, Fresh
    <2>3. Apart'
        BY <2>1, <1>0, <1>2, JobFacts DEF TypeOK, Apart, PlaceOK
    <2>. QED  BY <2>2, <2>3
<1>. QED  BY <1>5, <1>6, <1>7, <1>8, <1>9 DEF IInv

LEMMA CommitLaunchStep ==
    ASSUME IInv, NEW r \in Request, CommitLaunch(r)
    PROVE  IInv'
PROOF
<1>0. TypeOK
    BY DEF IInv
<1>1. PICK j \in Job :
         /\ req[r].at = "mark" /\ req[r].job = j
         /\ UNCHANGED <<card, next, issued, wf, seen, blurred>>
    BY DEF CommitLaunch, At, IInv, PlaceOK
<1>2. /\ row' \in [Job -> JobRow]
      /\ \A k \in Job : k # j => row'[k].status = row[k].status
      /\ row'[j].status = IF row[j].status = "ABSENT" THEN "ABSENT" ELSE "PENDING"
      /\ req' \in [Request -> Handler]
      /\ \A q \in Request : q # r => req'[q] = req[q]
      /\ req'[r].at = "idle" /\ req'[r].job = 0
      /\ overtaken' \subseteq Job
    BY <1>1, Replied, RowFacts DEF IInv, TypeOK, CommitLaunch, SaysPending
<1>3. /\ j < next /\ row[j].status \notin {"REPORTING", "COMPLETED"}
      /\ row[j].status = "ABSENT" \/ card[j].draft
      /\ wf[j].state # "none"
      /\ \/ j \in blurred \/ row[j].status = "ABSENT"
         \/ card[j].content = wf[j].content
      /\ \A q \in Request : q # r /\ req[q].job = j =>
            /\ req[q].at \notin {"start", "commit"}
            /\ req[q].at \in {"edit", "launch", "mark"} => j \in blurred
    BY <1>0, <1>1 DEF IInv, TypeOK, Alone, Apart, PlaceOK, Fresh, Absent, Status
<1>4. \A i \in Job : Claims(i)' \subseteq Claims(i)
    BY <1>0, <1>1, <1>2, <1>3 DEF TypeOK, Claims, Status, LiveStatus
<1>5. TypeOK'
    BY <1>0, <1>1, <1>2, <1>3, JobFacts DEF TypeOK
<1>6. ASSUME NEW q \in Request
      PROVE  FreshOK(q)'
    <2>1. FreshOK(q) /\ PlaceOK(q) /\ req[q] \in Handler
        BY DEF IInv, TypeOK
    <2>2. CASE q = r
        BY <2>2, <2>1, <1>0, <1>1, <1>2, <1>3, <1>4, JobFacts
           DEF TypeOK, PlaceOK, FreshOK, Fresh, Absent, Status
    <2>3. CASE q # r
        <3>1. req'[q] = req[q]
            BY <2>3, <1>2
        <3>2. Fresh(q) => /\ req[q].job \in Job /\ req[q].job # j
                          /\ \A i \in seen[req[q].job] : i \in Job
            BY <2>1, <2>3, <1>0, <1>1, <1>3 DEF TypeOK, PlaceOK, Fresh
        <3>. QED  BY <3>1, <3>2, <2>1, <1>1, <1>2, <1>3, <1>4
           DEF FreshOK, Fresh, Absent, Status
    <2>. QED  BY <2>2, <2>3
<1>7. ASSUME NEW q \in Request
      PROVE  PlaceOK(q)'
    <2>1. PlaceOK(q) /\ req[q] \in Handler
        BY DEF IInv, TypeOK
    <2>2. CASE q = r
        BY <2>2, <2>1, <1>1, <1>2, <1>3, <1>0, JobFacts
           DEF TypeOK, PlaceOK, Absent, Status
    <2>3. CASE q # r
        <3>1. req'[q] = req[q]
            BY <2>3, <1>2
        <3>. QED  BY <2>3, <3>1, <2>1, <1>1, <1>2, <1>3
           DEF PlaceOK, Absent, Status
    <2>. QED  BY <2>2, <2>3
<1>8. ASSUME NEW k \in Job
      PROVE  JobOK(k)'
    <2>1. JobOK(k)
        BY DEF IInv
    <2>2. CASE k = j
        <3>1. j \in Nat /\ next \in Nat /\ ~(j >= next) /\ \A i \in seen[j] : i \in Job
            BY <1>0, <1>3, JobFacts DEF TypeOK
        <3>. QED  BY <2>1, <2>2, <3>1, <1>1, <1>2, <1>3, <1>4
               DEF JobOK, Absent, Status, TerminalStatus
    <2>3. CASE k # j
        <3>1. /\ row'[k].status = row[k].status /\ \A i \in seen[k] : i \in Job
              /\ \A q \in Request : req[q].job = k => req'[q] = req[q]
            BY <2>3, <1>0, <1>1, <1>2 DEF TypeOK
        <3>. QED  BY <2>1, <3>1, <1>1, <1>4 DEF JobOK, Absent, Status
    <2>. QED  BY <2>2, <2>3
<1>9. Alone' /\ Apart'
    <2>1. Alone /\ Apart /\ \A q \in Request : PlaceOK(q)
        BY DEF IInv
    <2>2. Alone'
        BY <2>1, <1>0, <1>1, <1>2, <1>3, JobFacts DEF TypeOK, Alone, PlaceOK, Fresh
    <2>3. Apart'
        BY <2>1, <1>0, <1>1, <1>2, <1>3, JobFacts DEF TypeOK, Apart, PlaceOK
    <2>. QED  BY <2>2, <2>3
<1>. QED  BY <1>5, <1>6, <1>7, <1>8, <1>9 DEF IInv

LEMMA ShareStep ==
    ASSUME IInv, NEW r \in Request, CreateShareLink(r)
    PROVE  IInv'
PROOF
<1>0. TypeOK
    BY DEF IInv
<1>1. PICK j \in Job :
         /\ req[r].at = "idle" /\ row[j].status = "COMPLETED"
         /\ Goes(r, [Idle EXCEPT !.at = "share", !.job = j])
         /\ UNCHANGED <<row, card, next, issued, wf, seen, blurred, overtaken>>
    BY DEF CreateShareLink, Shareable, At
<1>2. /\ req' \in [Request -> Handler]
      /\ \A q \in Request : q # r => req'[q] = req[q]
      /\ req'[r].at = "share" /\ req'[r].job = j
    <2>1. /\ [Idle EXCEPT !.at = "share", !.job = j] \in Handler
          /\ [Idle EXCEPT !.at = "share", !.job = j].at = "share"
          /\ [Idle EXCEPT !.at = "share", !.job = j].job = j
        BY DEF Idle, Handler, Place
    <2>. QED  BY <1>0, <1>1, <2>1 DEF TypeOK, Goes
<1>3. /\ j < next
      /\ \A q \in Request : req[q].at \in {"start", "commit"} => req[q].job # j
    BY <1>0, <1>1, JobFacts DEF IInv, TypeOK, JobOK, FreshOK, Fresh, Absent, Status
<1>4. \A i \in Job : Claims(i)' \subseteq Claims(i)
    BY <1>0, <1>1, <1>2, <1>3 DEF TypeOK, Claims, Status, LiveStatus
<1>5. TypeOK'
    BY <1>0, <1>1, <1>2, <1>3, JobFacts DEF TypeOK
<1>6. ASSUME NEW q \in Request
      PROVE  FreshOK(q)'
    <2>1. FreshOK(q) /\ PlaceOK(q) /\ req[q] \in Handler
        BY DEF IInv, TypeOK
    <2>2. CASE q = r
        BY <2>2, <2>1, <1>0, <1>1, <1>2, <1>3, <1>4, JobFacts
           DEF TypeOK, PlaceOK, FreshOK, Fresh, Absent, Status
    <2>3. CASE q # r
        <3>1. req'[q] = req[q]
            BY <2>3, <1>2
        <3>. QED  BY <2>3, <3>1, <2>1, <1>0, <1>1, <1>2, <1>3, <1>4, JobFacts
           DEF TypeOK, PlaceOK, FreshOK, Fresh, Absent, Status
    <2>. QED  BY <2>2, <2>3
<1>7. ASSUME NEW q \in Request
      PROVE  PlaceOK(q)'
    <2>1. PlaceOK(q) /\ req[q] \in Handler
        BY DEF IInv, TypeOK
    <2>2. CASE q = r
        BY <2>2, <2>1, <1>1, <1>2, <1>3
           DEF PlaceOK, Absent, Status
    <2>3. CASE q # r
        <3>1. req'[q] = req[q]
            BY <2>3, <1>2
        <3>. QED  BY <2>3, <3>1, <2>1, <1>1, <1>2, <1>3
           DEF PlaceOK, Absent, Status
    <2>. QED  BY <2>2, <2>3
<1>8. ASSUME NEW k \in Job
      PROVE  JobOK(k)'
    <2>1. JobOK(k)
        BY DEF IInv
    <2>. QED  BY <2>1, <1>0, <1>1, <1>2, <1>3, <1>4, JobFacts
           DEF TypeOK, JobOK, Absent, Status
<1>9. Alone' /\ Apart'
    <2>1. Alone /\ Apart /\ \A q \in Request : PlaceOK(q)
        BY DEF IInv
    <2>2. Alone'
        BY <2>1, <1>0, <1>1, <1>2, <1>3, JobFacts DEF TypeOK, Alone, PlaceOK, Fresh
    <2>3. Apart'
        BY <2>1, <1>0, <1>1, <1>2, <1>3, JobFacts DEF TypeOK, Apart, PlaceOK
    <2>. QED  BY <2>2, <2>3
<1>. QED  BY <1>5, <1>6, <1>7, <1>8, <1>9 DEF IInv

LEMMA StartStep ==
    ASSUME IInv, NEW r \in Request, StartWorkflow(r)
    PROVE  IInv'
PROOF
<1>0. TypeOK
    BY DEF IInv
<1>1. PICK j \in Job :
         /\ req[r].at = "start" /\ req[r].job = j /\ req[r].content \in Content \cup {NoContent}
         /\ UNCHANGED <<row, card, next, issued, seen, blurred, overtaken>>
    BY DEF StartWorkflow, Starts, NewRun, At, IInv, PlaceOK, TypeOK, Handler
<1>2. /\ req' \in [Request -> Handler]
      /\ \A q \in Request : q # r => req'[q] = req[q]
      /\ wf' \in [Job -> WorkflowRun]
      /\ \A k \in Job : k # j => wf'[k] = wf[k]
      /\ \/ req'[r].at = "idle" /\ req'[r].job = 0
         \/ /\ req'[r].at = "commit" /\ req'[r].job = j /\ req'[r].content = req[r].content
            /\ wf'[j].state = "running" /\ wf'[j].content = req[r].content
    <2>1. \/ Starts(j, req[r].content) /\ Moves(r, "commit")
          \/ Starts(j, req[r].content) /\ Replies(r)
          \/ UNCHANGED wf /\ Replies(r)
        BY <1>1 DEF StartWorkflow
    <2>2. CASE Starts(j, req[r].content) /\ Moves(r, "commit")
        BY <1>0, <1>1, <2>2, Moved DEF TypeOK, Place, Starts, NewRun, WorkflowRun
    <2>3. CASE Starts(j, req[r].content) /\ Replies(r)
        BY <1>0, <1>1, <2>3, Replied DEF TypeOK, Starts, NewRun, WorkflowRun
    <2>4. CASE UNCHANGED wf /\ Replies(r)
        BY <1>0, <2>4, Replied DEF TypeOK
    <2>. QED  BY <2>1, <2>2, <2>3, <2>4
<1>3. /\ \A q \in Request : q # r => req[q].job # j
      /\ row[j].status = "ABSENT" /\ j < next
    BY <1>0, <1>1 DEF IInv, TypeOK, Alone, PlaceOK, FreshOK, Fresh, Absent, Status
<1>4. \A i \in Job : Claims(i)' \subseteq Claims(i)
    BY <1>0, <1>1, <1>2, <1>3 DEF TypeOK, Claims, Status, LiveStatus
<1>5. TypeOK'
    BY <1>0, <1>1, <1>2, <1>3, JobFacts DEF TypeOK
<1>6. ASSUME NEW q \in Request
      PROVE  FreshOK(q)'
    <2>1. FreshOK(q) /\ PlaceOK(q) /\ req[q] \in Handler
        BY DEF IInv, TypeOK
    <2>2. CASE q = r
        BY <2>2, <2>1, <1>0, <1>1, <1>2, <1>3, <1>4, JobFacts
           DEF TypeOK, PlaceOK, FreshOK, Fresh, Absent, Status
    <2>3. CASE q # r
        <3>1. req'[q] = req[q]
            BY <2>3, <1>2
        <3>. QED  BY <2>3, <3>1, <2>1, <1>0, <1>1, <1>2, <1>3, <1>4, JobFacts
           DEF TypeOK, PlaceOK, FreshOK, Fresh, Absent, Status
    <2>. QED  BY <2>2, <2>3
<1>7. ASSUME NEW q \in Request
      PROVE  PlaceOK(q)'
    <2>1. PlaceOK(q) /\ req[q] \in Handler
        BY DEF IInv, TypeOK
    <2>2. CASE q = r
        BY <2>2, <2>1, <1>1, <1>2, <1>3
           DEF PlaceOK, Absent, Status
    <2>3. CASE q # r
        <3>1. req'[q] = req[q]
            BY <2>3, <1>2
        <3>. QED  BY <2>3, <3>1, <2>1, <1>1, <1>2, <1>3
           DEF PlaceOK, Absent, Status
    <2>. QED  BY <2>2, <2>3
<1>8. ASSUME NEW k \in Job
      PROVE  JobOK(k)'
    <2>1. JobOK(k)
        BY DEF IInv
    <2>2. CASE k = j
        <3>1. j \in Nat /\ next \in Nat /\ ~(j >= next)
            BY <1>0, <1>3, JobFacts DEF TypeOK
        <3>. QED  BY <2>1, <2>2, <3>1, <1>1, <1>2, <1>3 DEF JobOK, Absent, Status
    <2>3. CASE k # j
        <3>1. wf'[k] = wf[k] /\ \A i \in seen[k] : i \in Job
            BY <2>3, <1>0, <1>2 DEF TypeOK
        <3>2. \A q \in Request : req[q].at = "mark" => req'[q] = req[q]
            BY <1>1, <1>2
        <3>. QED  BY <2>1, <3>1, <3>2, <1>1, <1>4 DEF JobOK, Absent, Status
    <2>. QED  BY <2>2, <2>3
<1>9. Alone' /\ Apart'
    <2>1. Alone /\ Apart /\ \A q \in Request : PlaceOK(q)
        BY DEF IInv
    <2>2. Alone'
        BY <2>1, <1>0, <1>1, <1>2, <1>3, JobFacts DEF TypeOK, Alone, PlaceOK, Fresh
    <2>3. Apart'
        BY <2>1, <1>0, <1>1, <1>2, <1>3, JobFacts DEF TypeOK, Apart, PlaceOK
    <2>. QED  BY <2>2, <2>3
<1>. QED  BY <1>5, <1>6, <1>7, <1>8, <1>9 DEF IInv

LEMMA StartLaunchStep ==
    ASSUME IInv, NEW r \in Request, StartLaunch(r)
    PROVE  IInv'
PROOF
<1>0. TypeOK
    BY DEF IInv
<1>1. PICK j \in Job :
         /\ req[r].at = "launch" /\ req[r].job = j /\ req[r].content \in Content \cup {NoContent}
         /\ UNCHANGED <<row, card, next, issued, seen, overtaken>>
    BY DEF StartLaunch, At, IInv, PlaceOK, TypeOK, Handler
<1>2. /\ req' \in [Request -> Handler]
      /\ \A q \in Request : q # r => req'[q] = req[q]
      /\ wf' \in [Job -> WorkflowRun]
      /\ \A k \in Job : k # j => wf'[k] = wf[k]
      /\ \/ /\ req'[r].at = "idle" /\ req'[r].job = 0
            /\ UNCHANGED <<wf, blurred>>
         \/ /\ req'[r].at = "idle" /\ req'[r].job = 0
            /\ wf'[j].state = "running" /\ wf'[j].content = req[r].content
            /\ blurred' = blurred \cup {j}
         \/ /\ req'[r].at = "mark" /\ req'[r].job = j /\ req'[r].content = req[r].content
            /\ wf'[j].state = "running" /\ wf'[j].content = req[r].content
            /\ UNCHANGED blurred
    <2>1. \/ Starts(j, req[r].content) /\ Moves(r, "mark") /\ UNCHANGED blurred
          \/ Starts(j, req[r].content) /\ Replies(r) /\ blurred' = blurred \cup {j}
          \/ UNCHANGED wf /\ Replies(r) /\ UNCHANGED blurred
        BY <1>1 DEF StartLaunch
    <2>2. CASE Starts(j, req[r].content) /\ Moves(r, "mark") /\ UNCHANGED blurred
        BY <1>0, <1>1, <2>2, Moved DEF TypeOK, Place, Starts, NewRun, WorkflowRun
    <2>3. CASE Starts(j, req[r].content) /\ Replies(r) /\ blurred' = blurred \cup {j}
        BY <1>0, <1>1, <2>3, Replied DEF TypeOK, Starts, NewRun, WorkflowRun
    <2>4. CASE UNCHANGED wf /\ Replies(r) /\ UNCHANGED blurred
        BY <1>0, <2>4, Replied DEF TypeOK
    <2>. QED  BY <2>1, <2>2, <2>3, <2>4
<1>3. /\ j < next /\ row[j].status \notin {"REPORTING", "COMPLETED"}
      /\ row[j].status = "ABSENT" \/ card[j].draft
      /\ \/ j \in blurred \/ row[j].status = "ABSENT"
         \/ row[j].status = "DRAFT" /\ card[j].content = req[r].content
      /\ \A q \in Request : q # r /\ req[q].job = j =>
            /\ req[q].at \notin {"start", "commit"}
            /\ req[q].at \in {"edit", "launch", "mark"} => j \in blurred
    BY <1>0, <1>1 DEF IInv, TypeOK, Alone, Apart, PlaceOK, Fresh, Absent, Status
<1>4. \A i \in Job : Claims(i)' \subseteq Claims(i)
    BY <1>0, <1>1, <1>2, <1>3 DEF TypeOK, Claims, Status, LiveStatus
<1>5. TypeOK'
    BY <1>0, <1>1, <1>2, <1>3, JobFacts DEF TypeOK
<1>6. ASSUME NEW q \in Request
      PROVE  FreshOK(q)'
    <2>1. FreshOK(q) /\ PlaceOK(q) /\ req[q] \in Handler
        BY DEF IInv, TypeOK
    <2>2. CASE q = r
        BY <2>2, <2>1, <1>0, <1>1, <1>2, <1>3, <1>4, JobFacts
           DEF TypeOK, PlaceOK, FreshOK, Fresh, Absent, Status
    <2>3. CASE q # r
        <3>1. req'[q] = req[q]
            BY <2>3, <1>2
        <3>. QED  BY <2>3, <3>1, <2>1, <1>0, <1>1, <1>2, <1>3, <1>4, JobFacts
           DEF TypeOK, PlaceOK, FreshOK, Fresh, Absent, Status
    <2>. QED  BY <2>2, <2>3
<1>7. ASSUME NEW q \in Request
      PROVE  PlaceOK(q)'
    <2>1. PlaceOK(q) /\ req[q] \in Handler
        BY DEF IInv, TypeOK
    <2>2. CASE q = r
        BY <2>2, <2>1, <1>1, <1>2, <1>3
           DEF PlaceOK, Absent, Status
    <2>3. CASE q # r
        <3>1. req'[q] = req[q]
            BY <2>3, <1>2
        <3>. QED  BY <2>3, <3>1, <2>1, <1>1, <1>2, <1>3
           DEF PlaceOK, Absent, Status
    <2>. QED  BY <2>2, <2>3
<1>8. ASSUME NEW k \in Job
      PROVE  JobOK(k)'
    <2>1. JobOK(k)
        BY DEF IInv
    <2>2. \A i \in seen[k] : i \in Job
        BY <1>0 DEF TypeOK
    <2>3. \A q \in Request : req[q].at = "mark" => req'[q] = req[q]
        BY <1>1, <1>2
    <2>4. CASE k = j
        <3>1. j \in Nat /\ next \in Nat /\ ~(j >= next)
            BY <1>0, <1>3, JobFacts DEF TypeOK
        <3>. QED  BY <2>1, <2>2, <2>3, <2>4, <3>1, <1>1, <1>2, <1>3, <1>4
               DEF JobOK, Absent, Status, TerminalStatus
    <2>5. CASE k # j
        <3>1. /\ wf'[k] = wf[k]
              /\ k \in blurred' <=> k \in blurred
            BY <2>5, <1>2
        <3>. QED  BY <2>1, <2>2, <2>3, <3>1, <1>1, <1>4 DEF JobOK, Absent, Status
    <2>. QED  BY <2>4, <2>5
<1>9. Alone' /\ Apart'
    <2>1. Alone /\ Apart /\ \A q \in Request : PlaceOK(q)
        BY DEF IInv
    <2>2. Alone'
        BY <2>1, <1>0, <1>1, <1>2, <1>3, JobFacts DEF TypeOK, Alone, PlaceOK, Fresh
    <2>3. Apart'
        BY <2>1, <1>0, <1>1, <1>2, <1>3, JobFacts DEF TypeOK, Apart, PlaceOK
    <2>. QED  BY <2>2, <2>3
<1>. QED  BY <1>5, <1>6, <1>7, <1>8, <1>9 DEF IInv

LEMMA ChecksStep ==
    ASSUME IInv, NEW r \in Request, NEW c \in Content, NEW o \in Job \cup {0},
           Checks(r, c, o)
    PROVE  IInv'
PROOF
<1>0. TypeOK
    BY DEF IInv
<1>1. PICK j \in Job :
         /\ j = next /\ next' = next + 1 /\ next' \in 1..MaxJobs + 1
         /\ req[r].at = "idle"
         /\ UNCHANGED <<row, card, issued, wf, blurred, overtaken>>
    BY <1>0, JobFacts DEF Checks, At, TypeOK
<1>2. /\ req' \in [Request -> Handler]
      /\ \A q \in Request : q # r => req'[q] = req[q]
      /\ req'[r].at = "start" /\ req'[r].job = j /\ req'[r].content = c
      /\ seen' \in [Job -> SUBSET Job]
      /\ \A k \in Job : k # j => seen'[k] = seen[k]
      /\ seen'[j] = Visible
    BY <1>0, <1>1, Began DEF Checks, Place, TypeOK, Visible
<1>3. /\ row[j].status = "ABSENT" /\ wf[j].state = "none"
      /\ \A i \in Visible : i \in Job /\ i < next /\ c \notin Claims(i)
      /\ \A k \in Job : j \notin seen[k]
      /\ \A q \in Request : req[q].job # j
    <2>1. \A i \in Visible : c \notin Claims(i)
        BY DEF Checks, Twins, Claims, Visible, Status
    <2>. QED  BY <1>0, <1>1, <2>1, JobFacts
              DEF IInv, TypeOK, JobOK, PlaceOK, Visible, Absent, Status
<1>4. \A i \in Job : Claims(i)' \subseteq Claims(i)
    BY <1>0, <1>1, <1>2, <1>3 DEF TypeOK, Claims, Status, LiveStatus
<1>5. TypeOK'
    BY <1>0, <1>1, <1>2, <1>3, JobFacts DEF TypeOK
<1>6. ASSUME NEW q \in Request
      PROVE  FreshOK(q)'
    <2>1. FreshOK(q) /\ PlaceOK(q) /\ req[q] \in Handler
        BY DEF IInv, TypeOK
    <2>2. CASE q = r
        BY <2>2, <2>1, <1>0, <1>1, <1>2, <1>3, <1>4, JobFacts
           DEF TypeOK, PlaceOK, FreshOK, Fresh, Absent, Status
    <2>3. CASE q # r
        <3>1. req'[q] = req[q]
            BY <2>3, <1>2
        <3>2. Fresh(q) => /\ req[q].job \in Job /\ req[q].job # j
                          /\ \A i \in seen[req[q].job] : i \in Job
            BY <2>1, <2>3, <1>0, <1>1, <1>3 DEF TypeOK, PlaceOK, Fresh
        <3>. QED  BY <3>1, <3>2, <2>1, <1>1, <1>2, <1>3, <1>4
           DEF FreshOK, Fresh, Absent, Status, Visible
    <2>. QED  BY <2>2, <2>3
<1>7. ASSUME NEW q \in Request
      PROVE  PlaceOK(q)'
    <2>1. PlaceOK(q) /\ req[q] \in Handler
        BY DEF IInv, TypeOK
    <2>2. CASE q = r
        BY <2>2, <2>1, <1>1, <1>2, <1>3, <1>0, JobFacts
           DEF TypeOK, PlaceOK, Absent, Status
    <2>3. CASE q # r
        <3>1. req'[q] = req[q]
            BY <2>3, <1>2
        <3>a. \A i \in Job : (i < next) => (i < next')
            BY <1>0, <1>1, NextFacts DEF TypeOK
        <3>2. req[q].at # "idle" => req[q].job < next'
            BY <2>1, <3>a DEF PlaceOK
        <3>. QED  BY <3>1, <3>2, <2>1, <1>1 DEF PlaceOK, Absent, Status
    <2>. QED  BY <2>2, <2>3
<1>8. ASSUME NEW k \in Job
      PROVE  JobOK(k)'
    <2>1. JobOK(k)
        BY DEF IInv
    <2>2. CASE k = j
        BY <2>2, <1>0, <1>1, <1>2, <1>3, JobFacts DEF TypeOK, JobOK, Absent, Status, TerminalStatus
    <2>3. CASE k # j
        <3>1. /\ seen'[k] = seen[k] /\ seen[k] \subseteq Job
              /\ \A i \in seen[k] : i < next'
              /\ k >= next' => k >= next
            BY <2>1, <2>3, <1>0, <1>1, <1>2, NextFacts DEF TypeOK, JobOK
        <3>2. \A q \in Request : req[q].at = "mark" => req'[q] = req[q]
            BY <1>1, <1>2
        <3>. QED  BY <2>1, <3>1, <3>2, <1>1, <1>4 DEF JobOK, Absent, Status
    <2>. QED  BY <2>2, <2>3
<1>9. Alone' /\ Apart'
    <2>1. Alone /\ Apart /\ \A q \in Request : PlaceOK(q)
        BY DEF IInv
    <2>2. Alone'
        BY <2>1, <1>0, <1>1, <1>2, <1>3, JobFacts DEF TypeOK, Alone, PlaceOK, Fresh
    <2>3. Apart'
        BY <2>1, <1>0, <1>1, <1>2, <1>3, JobFacts DEF TypeOK, Apart, PlaceOK
    <2>. QED  BY <2>2, <2>3
<1>. QED  BY <1>5, <1>6, <1>7, <1>8, <1>9 DEF IInv

LEMMA LoadsStep ==
    ASSUME IInv, NEW r \in Request, NEW j \in Job, NEW place, NEW others,
           \/ place = "edit" /\ others = {"launch", "mark"}
           \/ place = "launch" /\ others = {"edit", "launch", "mark"},
           LoadsDraft(r, j, place, others)
    PROVE  IInv'
PROOF
<1>0. TypeOK
    BY DEF IInv
<1>1. /\ req[r].at = "idle" /\ row[j].status = "DRAFT"
      /\ UNCHANGED <<row, card, next, issued, wf, seen, overtaken>>
    BY DEF LoadsDraft, At, UserDraft
<1>2. /\ req' \in [Request -> Handler]
      /\ \A q \in Request : q # r => req'[q] = req[q]
      /\ req'[r].at = place /\ req'[r].job = j /\ req'[r].content = card[j].content
      /\ blurred' \in {blurred, blurred \cup {j}}
      /\ \A q \in Request : req[q].job = j /\ req[q].at \in others => j \in blurred'
    <2>1. place \in Place /\ card[j].content \in Content \cup {NoContent}
        BY <1>0 DEF TypeOK, Card, Place
    <2>. QED  BY <1>0, <2>1, Began DEF LoadsDraft, OnJob
<1>3. /\ j < next /\ card[j].draft
      /\ \A q \in Request : req[q].at \in {"start", "commit"} => req[q].job # j
    BY <1>0, <1>1, JobFacts DEF IInv, TypeOK, JobOK, FreshOK, Fresh, Absent, Status
<1>4. \A i \in Job : Claims(i)' \subseteq Claims(i)
    BY <1>0, <1>1, <1>2, <1>3 DEF TypeOK, Claims, Status, LiveStatus
<1>5. TypeOK'
    BY <1>0, <1>1, <1>2, <1>3, JobFacts DEF TypeOK
<1>6. ASSUME NEW q \in Request
      PROVE  FreshOK(q)'
    <2>1. FreshOK(q) /\ PlaceOK(q) /\ req[q] \in Handler
        BY DEF IInv, TypeOK
    <2>2. CASE q = r
        BY <2>2, <2>1, <1>0, <1>1, <1>2, <1>3, <1>4, JobFacts
           DEF TypeOK, PlaceOK, FreshOK, Fresh, Absent, Status
    <2>3. CASE q # r
        <3>1. req'[q] = req[q]
            BY <2>3, <1>2
        <3>. QED  BY <2>3, <3>1, <2>1, <1>0, <1>1, <1>2, <1>3, <1>4, JobFacts
           DEF TypeOK, PlaceOK, FreshOK, Fresh, Absent, Status
    <2>. QED  BY <2>2, <2>3
<1>7. ASSUME NEW q \in Request
      PROVE  PlaceOK(q)'
    <2>1. PlaceOK(q) /\ req[q] \in Handler
        BY DEF IInv, TypeOK
    <2>2. CASE q = r
        BY <2>2, <2>1, <1>1, <1>2, <1>3
           DEF PlaceOK, Absent, Status
    <2>3. CASE q # r
        <3>1. req'[q] = req[q]
            BY <2>3, <1>2
        <3>. QED  BY <2>3, <3>1, <2>1, <1>1, <1>2, <1>3
           DEF PlaceOK, Absent, Status
    <2>. QED  BY <2>2, <2>3
<1>8. ASSUME NEW k \in Job
      PROVE  JobOK(k)'
    <2>1. JobOK(k)
        BY DEF IInv
    <2>. QED  BY <2>1, <1>0, <1>1, <1>2, <1>3, <1>4, JobFacts
           DEF TypeOK, JobOK, Absent, Status
<1>9. Alone' /\ Apart'
    <2>1. Alone /\ Apart /\ \A q \in Request : PlaceOK(q)
        BY DEF IInv
    <2>2. Alone'
        BY <2>1, <1>0, <1>1, <1>2, <1>3, JobFacts DEF TypeOK, Alone, PlaceOK, Fresh
    <2>3. Apart'
        BY <2>1, <1>0, <1>1, <1>2, <1>3, JobFacts DEF TypeOK, Apart, PlaceOK
    <2>. QED  BY <2>2, <2>3
<1>. QED  BY <1>5, <1>6, <1>7, <1>8, <1>9 DEF IInv

\* A running workflow that moves its row on, if there is one.
LEMMA WorkStep ==
    ASSUME IInv, NEW j \in Job, Running(j),
           UNCHANGED <<card, next, issued, req, seen, blurred, overtaken>>,
           row' \in [Job -> JobRow],
           \A k \in Job : k # j => row'[k].status = row[k].status,
           row'[j].status # row[j].status =>
              row[j].status # "ABSENT" /\ row'[j].status \in {"PROVISIONING", "RUNNING"},
           wf' \in [Job -> WorkflowRun],
           \A k \in Job : wf'[k].state = wf[k].state /\ wf'[k].content = wf[k].content
    PROVE  IInv'
PROOF
<1>0. TypeOK
    BY DEF IInv
<1>1. wf[j].state = "running" /\ UNCHANGED <<card, next, issued, req, seen, blurred, overtaken>>
    BY DEF Running
<1>2. /\ row' \in [Job -> JobRow]
      /\ \A k \in Job : k # j => row'[k].status = row[k].status
      /\ row'[j].status # row[j].status =>
            row[j].status # "ABSENT" /\ row'[j].status \in {"PROVISIONING", "RUNNING"}
      /\ wf' \in [Job -> WorkflowRun]
      /\ \A k \in Job : wf'[k].state = wf[k].state /\ wf'[k].content = wf[k].content
    OBVIOUS
<1>3. /\ row[j].status = "ABSENT" \/ card[j].draft
         \/ row[j].status \in {"PENDING", "PROVISIONING", "RUNNING"}
      /\ row[j].status # "COMPLETED"
      /\ j \in blurred \/ row[j].status = "ABSENT" \/ card[j].content = wf[j].content
      /\ \A q \in Request : req[q].job = j /\ req[q].at \in {"edit", "launch"}
            => j \in blurred \/ row[j].status = "ABSENT"
    <2>1. JobOK(j) /\ row[j] \in JobRow
        BY <1>0 DEF IInv, TypeOK
    <2>2. /\ row[j].status = "ABSENT" \/ card[j].draft
             \/ row[j].status \in {"PENDING", "PROVISIONING", "RUNNING"}
          /\ row[j].status # "COMPLETED"
        BY <2>1, <1>1 DEF JobOK, Absent, Status, JobRow, JobStatus, LiveStatus, TerminalStatus
    <2>3. \A q \in Request : PlaceOK(q) /\ Apart
        BY DEF IInv
    <2>4. j \in blurred \/ row[j].status = "ABSENT" \/ card[j].content = wf[j].content
        BY <2>1, <2>3, <1>1 DEF JobOK, PlaceOK, Absent, Status
    <2>5. ASSUME NEW q \in Request, req[q].job = j, req[q].at \in {"edit", "launch"}
          PROVE  j \in blurred \/ row[j].status = "ABSENT"
        BY <2>1, <2>3, <2>5, <1>1 DEF JobOK, PlaceOK, Apart, Absent, Status
    <2>. QED  BY <2>2, <2>4, <2>5
<1>4. \A i \in Job : Claims(i)' \subseteq Claims(i)
    BY <1>0, <1>1, <1>2, <1>3 DEF TypeOK, Claims, Status, LiveStatus
<1>5. TypeOK'
    BY <1>0, <1>1, <1>2, <1>3, JobFacts DEF TypeOK
<1>6. ASSUME NEW q \in Request
      PROVE  FreshOK(q)'
    <2>1. FreshOK(q) /\ PlaceOK(q) /\ req[q] \in Handler
        BY DEF IInv, TypeOK
    <2>. QED  BY <2>1, <1>0, <1>1, <1>2, <1>3, <1>4, JobFacts, ZenonT(30)
           DEF TypeOK, PlaceOK, FreshOK, Fresh, Absent, Status
<1>7. ASSUME NEW q \in Request
      PROVE  PlaceOK(q)'
    <2>1. PlaceOK(q) /\ req[q] \in Handler
        BY DEF IInv, TypeOK
    <2>. QED  BY <2>1, <1>1, <1>2, <1>3
           DEF PlaceOK, Absent, Status
<1>8. ASSUME NEW k \in Job
      PROVE  JobOK(k)'
    <2>1. JobOK(k)
        BY DEF IInv
    <2>2. CASE k # j
        BY <2>1, <2>2, <1>0, <1>1, <1>2, <1>4 DEF TypeOK, JobOK, Absent, Status
    <2>3. CASE k = j
        BY <2>1, <2>3, <1>0, <1>1, <1>2, <1>3, <1>4, JobFacts
           DEF TypeOK, JobOK, Absent, Status, TerminalStatus
    <2>. QED  BY <2>2, <2>3
<1>9. Alone' /\ Apart'
    <2>1. Alone /\ Apart /\ \A q \in Request : PlaceOK(q)
        BY DEF IInv
    <2>2. Alone'
        BY <2>1, <1>0, <1>1, <1>2, <1>3, JobFacts DEF TypeOK, Alone, PlaceOK, Fresh
    <2>3. Apart'
        BY <2>1, <1>0, <1>1, <1>2, <1>3, JobFacts DEF TypeOK, Apart, PlaceOK
    <2>. QED  BY <2>2, <2>3
<1>. QED  BY <1>5, <1>6, <1>7, <1>8, <1>9 DEF IInv

LEMMA ClosesFacts ==
    ASSUME TypeOK, NEW j \in Job, Closes(j)
    PROVE  /\ wf' \in [Job -> WorkflowRun]
           /\ \A k \in Job : k # j => wf'[k] = wf[k]
           /\ wf'[j].state = "closed" /\ wf'[j].content = wf[j].content /\ wf'[j].wrote
PROOF
<1>1. wf[j] \in WorkflowRun /\ wf \in [Job -> WorkflowRun]
    BY DEF TypeOK
<1>2. [wf[j] EXCEPT !.state = "closed", !.wrote = TRUE] \in WorkflowRun
    BY <1>1 DEF WorkflowRun
<1>. QED  BY <1>1, <1>2 DEF Closes, WorkflowRun

LEMMA WfHasPodStep ==
    ASSUME IInv, NEW j \in Job, WfHasPod(j),
           UNCHANGED <<card, next, issued, req, seen, blurred, overtaken>>
    PROVE  IInv'
PROOF
<1>0. TypeOK
    BY DEF IInv
<1>1. /\ row' \in [Job -> JobRow]
      /\ \A k \in Job : k # j => row'[k].status = row[k].status
      /\ row'[j].status = IF row[j].status = "ABSENT" THEN "ABSENT" ELSE "PROVISIONING"
    BY <1>0, RowFacts DEF WfHasPod, Write, TypeOK
<1>2. /\ wf' \in [Job -> WorkflowRun]
      /\ \A k \in Job : wf'[k].state = wf[k].state /\ wf'[k].content = wf[k].content
    BY <1>0 DEF WfHasPod, TypeOK, WorkflowRun
<1>. QED  BY <1>1, <1>2, WorkStep DEF WfHasPod

LEMMA WfRunsStep ==
    ASSUME IInv, NEW j \in Job, WfRuns(j),
           UNCHANGED <<card, next, issued, req, seen, blurred, overtaken>>
    PROVE  IInv'
PROOF
<1>0. TypeOK
    BY DEF IInv
<1>1. /\ row' \in [Job -> JobRow]
      /\ \A k \in Job : k # j => row'[k].status = row[k].status
      /\ row'[j].status # row[j].status =>
            row[j].status # "ABSENT" /\ row'[j].status \in {"PROVISIONING", "RUNNING"}
    <2>1. row[j] \in JobRow
        BY <1>0 DEF TypeOK
    <2>2. CASE Write(j, TransitionToRunning(row[j]))
        BY <2>1, <2>2, <1>0, RowFacts DEF Write, TypeOK
    <2>3. CASE Write(j, UpdateStage(row[j]))
        BY <2>1, <2>3, <1>0, RowFacts DEF Write, TypeOK
    <2>. QED  BY <2>2, <2>3 DEF WfRuns
<1>2. /\ wf' \in [Job -> WorkflowRun]
      /\ \A k \in Job : wf'[k].state = wf[k].state /\ wf'[k].content = wf[k].content
    BY <1>0 DEF WfRuns, TypeOK
<1>. QED  BY <1>1, <1>2, WorkStep DEF WfRuns

LEMMA WfFailsStep ==
    ASSUME IInv, NEW j \in Job, WfFails(j),
           UNCHANGED <<card, next, issued, req, seen, blurred, overtaken>>
    PROVE  IInv'
PROOF
<1>0. TypeOK
    BY DEF IInv
<1>1. wf[j].state = "running" /\ UNCHANGED <<card, next, issued, req, seen, blurred, overtaken>>
    BY DEF WfFails, Running
<1>2. /\ row' \in [Job -> JobRow]
      /\ \A k \in Job : k # j => row'[k].status = row[k].status
      /\ row'[j].status = IF row[j].status \in {"ABSENT", "COMPLETED", "REFUNDED"}
                           THEN row[j].status ELSE "FAILED"
      /\ wf' \in [Job -> WorkflowRun]
      /\ \A k \in Job : k # j => wf'[k] = wf[k]
      /\ wf'[j].state = "closed" /\ wf'[j].content = wf[j].content
    <2>1. row[j] \in JobRow
        BY <1>0 DEF TypeOK
    <2>2. Write(j, MarkFailed(row[j])) /\ Closes(j)
        BY DEF WfFails
    <2>3. /\ MarkFailed(row[j]) \in JobRow
          /\ MarkFailed(row[j]).status = IF row[j].status \in {"ABSENT", "COMPLETED", "REFUNDED"}
                                   THEN row[j].status ELSE "FAILED"
        BY <2>1, RowFacts
    <2>4. /\ row' \in [Job -> JobRow] /\ row'[j] = MarkFailed(row[j])
          /\ \A k \in Job : k # j => row'[k] = row[k]
        BY <1>0, <2>2, <2>3, WriteFacts
    <2>5. /\ wf' \in [Job -> WorkflowRun]
          /\ \A k \in Job : k # j => wf'[k] = wf[k]
          /\ wf'[j].state = "closed" /\ wf'[j].content = wf[j].content
        BY <1>0, <2>2, ClosesFacts
    <2>. QED  BY <2>3, <2>4, <2>5
<1>3. /\ row[j].status = "ABSENT" \/ card[j].draft
         \/ row[j].status \in {"PENDING", "PROVISIONING", "RUNNING"}
      /\ j \in blurred \/ row[j].status = "ABSENT" \/ card[j].content = wf[j].content
      /\ \A q \in Request : req[q].job = j /\ req[q].at \in {"edit", "launch"}
            => j \in blurred \/ row[j].status = "ABSENT"
    <2>1. JobOK(j) /\ row[j] \in JobRow /\ Apart /\ \A q \in Request : PlaceOK(q)
        BY <1>0 DEF IInv, TypeOK
    <2>2. row[j].status = "ABSENT" \/ card[j].draft
             \/ row[j].status \in {"PENDING", "PROVISIONING", "RUNNING"}
        BY <2>1, <1>1 DEF JobOK, Absent, Status, JobRow, JobStatus, LiveStatus, TerminalStatus
    <2>3. j \in blurred \/ row[j].status = "ABSENT" \/ card[j].content = wf[j].content
        BY <2>1, <1>1 DEF JobOK, PlaceOK, Absent, Status
    <2>4. ASSUME NEW q \in Request, req[q].job = j, req[q].at \in {"edit", "launch"}
          PROVE  j \in blurred \/ row[j].status = "ABSENT"
        BY <2>1, <2>4, <1>1 DEF JobOK, PlaceOK, Apart, Absent, Status
    <2>. QED  BY <2>2, <2>3, <2>4
<1>4. \A i \in Job : Claims(i)' \subseteq Claims(i)
    BY <1>0, <1>1, <1>2, <1>3 DEF TypeOK, Claims, Status, LiveStatus
<1>5. TypeOK'
    BY <1>0, <1>1, <1>2, <1>3, JobFacts DEF TypeOK
<1>6. ASSUME NEW q \in Request
      PROVE  FreshOK(q)'
    <2>1. FreshOK(q) /\ PlaceOK(q) /\ req[q] \in Handler
        BY DEF IInv, TypeOK
    <2>. QED  BY <2>1, <1>0, <1>1, <1>2, <1>3, <1>4, JobFacts, ZenonT(30)
           DEF TypeOK, PlaceOK, FreshOK, Fresh, Absent, Status
<1>7. ASSUME NEW q \in Request
      PROVE  PlaceOK(q)'
    <2>1. PlaceOK(q) /\ req[q] \in Handler
        BY DEF IInv, TypeOK
    <2>. QED  BY <2>1, <1>1, <1>2, <1>3
           DEF PlaceOK, Absent, Status
<1>8. ASSUME NEW k \in Job
      PROVE  JobOK(k)'
    <2>1. JobOK(k)
        BY DEF IInv
    <2>2. CASE k # j
        BY <2>1, <2>2, <1>0, <1>1, <1>2, <1>4 DEF TypeOK, JobOK, Absent, Status
    <2>3. CASE k = j
        BY <2>1, <2>3, <1>0, <1>1, <1>2, <1>3, <1>4, JobFacts
           DEF TypeOK, JobOK, Absent, Status, TerminalStatus
    <2>. QED  BY <2>2, <2>3
<1>9. Alone' /\ Apart'
    <2>1. Alone /\ Apart /\ \A q \in Request : PlaceOK(q)
        BY DEF IInv
    <2>2. Alone'
        BY <2>1, <1>0, <1>1, <1>2, <1>3, JobFacts DEF TypeOK, Alone, PlaceOK, Fresh
    <2>3. Apart'
        BY <2>1, <1>0, <1>1, <1>2, <1>3, JobFacts DEF TypeOK, Apart, PlaceOK
    <2>. QED  BY <2>2, <2>3
<1>. QED  BY <1>5, <1>6, <1>7, <1>8, <1>9 DEF IInv

LEMMA IsGivenUpStep ==
    ASSUME IInv, NEW j \in Job, IsGivenUp(j),
           UNCHANGED <<card, next, issued, req, seen, blurred, overtaken>>
    PROVE  IInv'
PROOF
<1>0. TypeOK
    BY DEF IInv
<1>1. /\ wf[j].state = "closed" /\ row[j].status \in LiveStatus
      /\ UNCHANGED <<card, next, issued, req, seen, blurred, overtaken>>
    BY DEF IsGivenUp
<1>2. /\ row' \in [Job -> JobRow]
      /\ \A k \in Job : k # j => row'[k].status = row[k].status
      /\ row'[j].status = "FAILED"
      /\ UNCHANGED wf
    BY <1>0, <1>1, RowFacts DEF IsGivenUp, Write, TypeOK, LiveStatus
<1>3. /\ row[j].status \notin {"ABSENT", "DRAFT", "COMPLETED"}
      /\ \A q \in Request : req[q].job = j /\ req[q].at \in {"edit", "launch"}
            => j \in blurred
    BY <1>0, <1>1 DEF IInv, TypeOK, PlaceOK, Absent, Status, LiveStatus
<1>4. \A i \in Job : Claims(i)' \subseteq Claims(i)
    BY <1>0, <1>1, <1>2, <1>3 DEF TypeOK, Claims, Status, LiveStatus
<1>5. TypeOK'
    BY <1>0, <1>1, <1>2, <1>3, JobFacts DEF TypeOK
<1>6. ASSUME NEW q \in Request
      PROVE  FreshOK(q)'
    <2>1. FreshOK(q) /\ PlaceOK(q) /\ req[q] \in Handler
        BY DEF IInv, TypeOK
    <2>. QED  BY <2>1, <1>0, <1>1, <1>2, <1>3, <1>4, JobFacts, ZenonT(30)
           DEF TypeOK, PlaceOK, FreshOK, Fresh, Absent, Status
<1>7. ASSUME NEW q \in Request
      PROVE  PlaceOK(q)'
    <2>1. PlaceOK(q) /\ req[q] \in Handler
        BY DEF IInv, TypeOK
    <2>. QED  BY <2>1, <1>1, <1>2, <1>3
           DEF PlaceOK, Absent, Status
<1>8. ASSUME NEW k \in Job
      PROVE  JobOK(k)'
    <2>1. JobOK(k)
        BY DEF IInv
    <2>2. CASE k # j
        BY <2>1, <2>2, <1>0, <1>1, <1>2, <1>4 DEF TypeOK, JobOK, Absent, Status
    <2>3. CASE k = j
        BY <2>1, <2>3, <1>0, <1>1, <1>2, <1>3, <1>4, JobFacts
           DEF TypeOK, JobOK, Absent, Status, TerminalStatus
    <2>. QED  BY <2>2, <2>3
<1>9. Alone' /\ Apart'
    <2>1. Alone /\ Apart /\ \A q \in Request : PlaceOK(q)
        BY DEF IInv
    <2>2. Alone'
        BY <2>1, <1>0, <1>1, <1>2, <1>3, JobFacts DEF TypeOK, Alone, PlaceOK, Fresh
    <2>3. Apart'
        BY <2>1, <1>0, <1>1, <1>2, <1>3, JobFacts DEF TypeOK, Apart, PlaceOK
    <2>. QED  BY <2>2, <2>3
<1>. QED  BY <1>5, <1>6, <1>7, <1>8, <1>9 DEF IInv

LEMMA WfReportsStep ==
    ASSUME IInv, NEW j \in Job, WfReports(j),
           UNCHANGED <<card, next, issued, req, seen, blurred, overtaken>>
    PROVE  IInv'
PROOF
<1>0. TypeOK
    BY DEF IInv
<1>1. wf[j].state = "running" /\ UNCHANGED <<card, next, issued, req, seen, blurred, overtaken>>
    BY DEF WfReports, Running
<1>2. /\ row' \in [Job -> JobRow]
      /\ \A k \in Job : k # j => row'[k].status = row[k].status
      /\ row'[j].status = IF row[j].status \in {"RUNNING", "PROVISIONING"}
                           THEN "REPORTING" ELSE row[j].status
      /\ wf' \in [Job -> WorkflowRun]
      /\ \A k \in Job : k # j => wf'[k] = wf[k]
      /\ wf'[j].state = "closed" /\ wf'[j].content = wf[j].content
    <2>1. row[j] \in JobRow
        BY <1>0 DEF TypeOK
    <2>2. Write(j, TransitionToReporting(row[j])) /\ Closes(j)
        BY DEF WfReports
    <2>3. /\ TransitionToReporting(row[j]) \in JobRow
          /\ TransitionToReporting(row[j]).status = IF row[j].status \in {"RUNNING", "PROVISIONING"}
                                   THEN "REPORTING" ELSE row[j].status
        BY <2>1, RowFacts
    <2>4. /\ row' \in [Job -> JobRow] /\ row'[j] = TransitionToReporting(row[j])
          /\ \A k \in Job : k # j => row'[k] = row[k]
        BY <1>0, <2>2, <2>3, WriteFacts
    <2>5. /\ wf' \in [Job -> WorkflowRun]
          /\ \A k \in Job : k # j => wf'[k] = wf[k]
          /\ wf'[j].state = "closed" /\ wf'[j].content = wf[j].content
        BY <1>0, <2>2, ClosesFacts
    <2>. QED  BY <2>3, <2>4, <2>5
<1>3. /\ \A q \in Request : req[q].job = j => req[q].at \notin {"launch", "mark"}
      /\ j \in blurred \/ row[j].status # "DRAFT"
    BY <1>0, <1>1 DEF IInv, TypeOK, JobOK, Apart, PlaceOK, Absent, Status, TerminalStatus,
       WfReports, OnJob
<1>4. \A i \in Job : Claims(i)' \subseteq Claims(i)
    BY <1>0, <1>1, <1>2, <1>3 DEF TypeOK, Claims, Status, LiveStatus
<1>5. TypeOK'
    BY <1>0, <1>1, <1>2, <1>3, JobFacts DEF TypeOK
<1>6. ASSUME NEW q \in Request
      PROVE  FreshOK(q)'
    <2>1. FreshOK(q) /\ PlaceOK(q) /\ req[q] \in Handler
        BY DEF IInv, TypeOK
    <2>. QED  BY <2>1, <1>0, <1>1, <1>2, <1>3, <1>4, JobFacts, ZenonT(30)
           DEF TypeOK, PlaceOK, FreshOK, Fresh, Absent, Status
<1>7. ASSUME NEW q \in Request
      PROVE  PlaceOK(q)'
    <2>1. PlaceOK(q) /\ req[q] \in Handler
        BY DEF IInv, TypeOK
    <2>. QED  BY <2>1, <1>1, <1>2, <1>3
           DEF PlaceOK, Absent, Status
<1>8. ASSUME NEW k \in Job
      PROVE  JobOK(k)'
    <2>1. JobOK(k)
        BY DEF IInv
    <2>2. CASE k # j
        BY <2>1, <2>2, <1>0, <1>1, <1>2, <1>4 DEF TypeOK, JobOK, Absent, Status
    <2>3. CASE k = j
        BY <2>1, <2>3, <1>0, <1>1, <1>2, <1>3, <1>4, JobFacts
           DEF TypeOK, JobOK, Absent, Status, TerminalStatus
    <2>. QED  BY <2>2, <2>3
<1>9. Alone' /\ Apart'
    <2>1. Alone /\ Apart /\ \A q \in Request : PlaceOK(q)
        BY DEF IInv
    <2>2. Alone'
        BY <2>1, <1>0, <1>1, <1>2, <1>3, JobFacts DEF TypeOK, Alone, PlaceOK, Fresh
    <2>3. Apart'
        BY <2>1, <1>0, <1>1, <1>2, <1>3, JobFacts DEF TypeOK, Apart, PlaceOK
    <2>. QED  BY <2>2, <2>3
<1>. QED  BY <1>5, <1>6, <1>7, <1>8, <1>9 DEF IInv

LEMMA ReportIsSavedStep ==
    ASSUME IInv, NEW j \in Job, ReportIsSaved(j),
           UNCHANGED <<card, next, issued, req, seen, blurred, overtaken>>
    PROVE  IInv'
PROOF
<1>0. TypeOK
    BY DEF IInv
<1>1. UNCHANGED <<card, next, issued, req, seen, blurred, overtaken>>
    BY DEF ReportIsSaved
<1>2. /\ row' \in [Job -> JobRow]
      /\ \A k \in Job : k # j => row'[k].status = row[k].status
      /\ row'[j].status = IF row[j].status = "REPORTING" THEN "COMPLETED" ELSE row[j].status
      /\ UNCHANGED wf
    BY <1>0, <1>1, RowFacts DEF ReportIsSaved, Write, TypeOK
<1>3. /\ \A q \in Request : req[q].job = j /\ req[q].at \in {"launch", "mark"}
            => row[j].status # "REPORTING"
      /\ \A q \in Request : req[q].job = j /\ req[q].at = "edit"
            => j \in blurred \/ row[j].status # "REPORTING"
    BY <1>0, <1>1 DEF IInv, TypeOK, JobOK, Apart, PlaceOK, Absent, Status, TerminalStatus
<1>4. \A i \in Job : Claims(i)' \subseteq Claims(i)
    BY <1>0, <1>1, <1>2, <1>3 DEF TypeOK, Claims, Status, LiveStatus
<1>5. TypeOK'
    BY <1>0, <1>1, <1>2, <1>3, JobFacts DEF TypeOK
<1>6. ASSUME NEW q \in Request
      PROVE  FreshOK(q)'
    <2>1. FreshOK(q) /\ PlaceOK(q) /\ req[q] \in Handler
        BY DEF IInv, TypeOK
    <2>. QED  BY <2>1, <1>0, <1>1, <1>2, <1>3, <1>4, JobFacts, ZenonT(30)
           DEF TypeOK, PlaceOK, FreshOK, Fresh, Absent, Status
<1>7. ASSUME NEW q \in Request
      PROVE  PlaceOK(q)'
    <2>1. PlaceOK(q) /\ req[q] \in Handler
        BY DEF IInv, TypeOK
    <2>. QED  BY <2>1, <1>1, <1>2, <1>3
           DEF PlaceOK, Absent, Status
<1>8. ASSUME NEW k \in Job
      PROVE  JobOK(k)'
    <2>1. JobOK(k)
        BY DEF IInv
    <2>2. CASE k # j
        BY <2>1, <2>2, <1>0, <1>1, <1>2, <1>4 DEF TypeOK, JobOK, Absent, Status
    <2>3. CASE k = j
        BY <2>1, <2>3, <1>0, <1>1, <1>2, <1>3, <1>4, JobFacts
           DEF TypeOK, JobOK, Absent, Status, TerminalStatus
    <2>. QED  BY <2>2, <2>3
<1>9. Alone' /\ Apart'
    <2>1. Alone /\ Apart /\ \A q \in Request : PlaceOK(q)
        BY DEF IInv
    <2>2. Alone'
        BY <2>1, <1>0, <1>1, <1>2, <1>3, JobFacts DEF TypeOK, Alone, PlaceOK, Fresh
    <2>3. Apart'
        BY <2>1, <1>0, <1>1, <1>2, <1>3, JobFacts DEF TypeOK, Apart, PlaceOK
    <2>. QED  BY <2>2, <2>3
<1>. QED  BY <1>5, <1>6, <1>7, <1>8, <1>9 DEF IInv

-----------------------------------------------------------------------------
(* The invariant is inductive.                                               *)

LEMMA InitIInv == Init => IInv
PROOF
<1>. SUFFICES ASSUME Init PROVE IInv
    OBVIOUS
<1>1. /\ NewRow("ABSENT") \in JobRow /\ NewRow("ABSENT").status = "ABSENT"
      /\ NewCard(NoContent, FALSE) \in Card
    BY NewRowFacts, NewCardFacts
<1>2. TypeOK
    <2>1. Idle \in Handler /\ 1 \in 1..MaxJobs + 1 /\ 0 \in 0..MaxTokens
        BY ApiAssumption DEF Idle, Handler, Place
    <2>. QED  BY <1>1, <2>1 DEF Init, TypeOK, NewRun, WorkflowRun
<1>3. \A r \in Request : FreshOK(r) /\ PlaceOK(r)
    BY DEF Init, Idle, FreshOK, PlaceOK, Fresh
<1>4. ASSUME NEW j \in Job
      PROVE  JobOK(j)
    BY <1>1 DEF Init, NewRun, JobOK, Absent, Status, TerminalStatus
<1>5. Alone /\ Apart
    BY DEF Init, Idle, Alone, Apart, Fresh
<1>. QED  BY <1>2, <1>3, <1>4, <1>5 DEF IInv

LEMMA HandlerStep ==
    ASSUME IInv, NEW r \in Request, Handles(r)
    PROVE  IInv'
PROOF
<1>1. CASE CreateJob(r)
    BY <1>1, ChecksStep DEF CreateJob
<1>2. CASE RetryJob(r)
    <2>1. PICK j \in Job : card[j].content # NoContent /\ Checks(r, card[j].content, j)
        BY <1>2 DEF RetryJob, Visible
    <2>2. card[j].content \in Content
        BY <2>1 DEF IInv, TypeOK, Card
    <2>. QED  BY <2>1, <2>2, ChecksStep
<1>3. CASE UpdateDraft(r)
    BY <1>3, LoadsStep DEF UpdateDraft
<1>4. CASE LaunchDraft(r)
    BY <1>4, LoadsStep DEF LaunchDraft
<1>. QED  BY <1>1, <1>2, <1>3, <1>4, StartStep, CommitJobStep, LinkStep, CommitDraftStep,
             StartLaunchStep, CommitLaunchStep, ShareStep, CommitShareStep, CutOffStep
          DEF Handles

LEMMA WorkflowStep ==
    ASSUME IInv, Workflow
    PROVE  IInv'
PROOF
    BY WfHasPodStep, WfRunsStep, WfFailsStep, WfReportsStep, ReportIsSavedStep, IsGivenUpStep
    DEF Workflow

LEMMA StutterStep ==
    ASSUME IInv, UNCHANGED vars
    PROVE  IInv'
PROOF
<1>. USE DEF vars
<1>1. TypeOK'
    BY DEF IInv, TypeOK
<1>2. ASSUME NEW r \in Request
      PROVE  FreshOK(r)' /\ PlaceOK(r)'
    <2>1. FreshOK(r) /\ PlaceOK(r)
        BY DEF IInv
    <2>. QED  BY <2>1 DEF FreshOK, PlaceOK, Fresh, Claims, Absent, Status
<1>3. ASSUME NEW j \in Job
      PROVE  JobOK(j)'
    <2>1. JobOK(j)
        BY DEF IInv
    <2>. QED  BY <2>1 DEF JobOK, Claims, Absent, Status
<1>4. Alone' /\ Apart'
    BY DEF IInv, Alone, Apart, Fresh
<1>. QED  BY <1>1, <1>2, <1>3, <1>4 DEF IInv

LEMMA Inductive == Spec => []IInv
PROOF
<1>1. IInv /\ [Next]_vars => IInv'
    BY HandlerStep, CreateDraftStep, RevokeStep, DeleteStep, AgesStep, WorkflowStep, StutterStep
       DEF Next
<1>. QED  BY InitIInv, <1>1, PTL DEF Spec

-----------------------------------------------------------------------------
(* What follows from it.                                                     *)

\* Type correctness: in particular no id above MaxJobs and no token twice the
\* bound, whatever the handlers of the job API do to one another.
THEOREM TypeTheorem == Spec => []TypeOK
PROOF
<1>1. IInv => TypeOK
    BY DEF IInv
<1>. QED  BY Inductive, <1>1, PTL

\* A row at work and its workflow, and what a commit that came late has left.
ServedOK(j) ==
    /\ wf[j].state = "closed" => wf[j].wrote
    /\ Status(j) \in {"PROVISIONING", "RUNNING"} => wf[j].state = "running"
    /\ Status(j) = "PENDING" /\ wf[j].wrote => j \in overtaken

Served == \A j \in Job : ServedOK(j)

LEMMA ServedInit == Init => Served
PROOF
    BY NewRowFacts DEF Init, NewRun, Served, ServedOK, Status

\* A step that leaves workflows and commits alone changes no status, or to one
\* that asks for nothing.
LEMMA ServedKept ==
    ASSUME Served, UNCHANGED <<wf, overtaken>>,
           \A j \in Job : row'[j].status \in {row[j].status, "ABSENT", "DRAFT", "FAILED", "COMPLETED"}
    PROVE  Served'
PROOF
    BY DEF Served, ServedOK, Status

\* Only the commits of create and launch say PENDING, and they note what they find.
LEMMA ServedCommit ==
    ASSUME IInv, Served, NEW r \in Request, CommitJob(r) \/ CommitLaunch(r)
    PROVE  Served'
PROOF
<1>0. TypeOK
    BY DEF IInv
<1>1. PICK j \in Job :
         /\ \A k \in Job : k # j => row'[k].status = row[k].status
         /\ row'[j].status \in {"ABSENT", "PENDING"}
         /\ SaysPending(j) /\ UNCHANGED wf
    <2>1. CASE CommitJob(r)
        <3>1. req[r].job \in Job /\ NewRow("PENDING").status = "PENDING"
            BY <2>1, NewRowFacts DEF CommitJob, At, IInv, PlaceOK, JobStatus, LiveStatus
        <3>. QED  BY <3>1, <2>1, <1>0 DEF CommitJob, TypeOK
    <2>2. CASE CommitLaunch(r)
        <3>1. req[r].job \in Job
            BY <2>2 DEF CommitLaunch, At, IInv, PlaceOK
        <3>. QED  BY <3>1, <2>2, <1>0, RowFacts DEF CommitLaunch, TypeOK
    <2>. QED  BY <2>1, <2>2
<1>2. ASSUME NEW k \in Job
      PROVE  ServedOK(k)'
    <2>1. ServedOK(k)
        BY DEF Served
    <2>2. CASE k = j
        BY <2>1, <2>2, <1>1 DEF ServedOK, Status, SaysPending
    <2>3. CASE k # j
        BY <2>1, <2>3, <1>1 DEF ServedOK, Status, SaysPending
    <2>. QED  BY <2>2, <2>3
<1>. QED  BY <1>2 DEF Served

\* A workflow that is started has written nothing, and the row it is for is not
\* provisioning or running: nothing else was at work on it.
LEMMA ServedStart ==
    ASSUME IInv, Served, NEW r \in Request, StartWorkflow(r) \/ StartLaunch(r)
    PROVE  Served'
PROOF
<1>0. TypeOK /\ UNCHANGED <<row, overtaken>>
    BY DEF IInv, StartWorkflow, StartLaunch
<1>1. PICK j \in Job : UNCHANGED wf \/ wf' = [wf EXCEPT ![j] = NewRun("running", req[r].content)]
    BY DEF StartWorkflow, StartLaunch, At, IInv, PlaceOK, Starts
<1>2. ASSUME NEW k \in Job
      PROVE  ServedOK(k)'
    <2>1. ServedOK(k)
        BY DEF Served
    <2>2. wf'[k] = wf[k] \/ wf'[k] = NewRun("running", req[r].content)
        BY <1>0, <1>1 DEF TypeOK
    <2>. QED  BY <2>1, <2>2, <1>0 DEF ServedOK, Status, NewRun
<1>. QED  BY <1>2 DEF Served

\* What the workflow itself writes: it goes from PENDING to a status it is behind,
\* and a workflow that ends leaves none of those, unless the commit overtook it.
LEMMA ServedWorkflow ==
    ASSUME IInv, Served, Workflow
    PROVE  Served'
PROOF
<1>0. TypeOK /\ UNCHANGED overtaken
    BY DEF IInv, Workflow
<1>1. PICK j \in Job : \/ WfHasPod(j) \/ WfRuns(j) \/ WfFails(j) \/ WfReports(j)
                       \/ ReportIsSaved(j) \/ IsGivenUp(j)
    BY DEF Workflow
<1>2. row[j] \in JobRow /\ wf[j] \in WorkflowRun
    BY <1>0 DEF TypeOK
<1>3. /\ \A k \in Job : k # j => row'[k] = row[k] /\ wf'[k] = wf[k]
      /\ ServedOK(j) => ServedOK(j)'
    <2>1. CASE WfHasPod(j)
        <3>1. /\ \A k \in Job : k # j => row'[k] = row[k]
              /\ row'[j].status \in {"ABSENT", "PROVISIONING"}
            BY <2>1, <1>0, <1>2, RowFacts DEF WfHasPod, Write, TypeOK
        <3>2. /\ \A k \in Job : k # j => wf'[k] = wf[k]
              /\ wf'[j].state = "running"
            BY <2>1, <1>0, <1>2 DEF WfHasPod, TypeOK, Running, WorkflowRun
        <3>. QED  BY <3>1, <3>2 DEF ServedOK, Status
    <2>2. CASE WfRuns(j)
        <3>1. /\ \A k \in Job : k # j => row'[k] = row[k]
              /\ row'[j].status \in {"RUNNING", row[j].status}
            <4>1. CASE Write(j, TransitionToRunning(row[j]))
                BY <4>1, <1>0, <1>2, RowFacts DEF Write, TypeOK
            <4>2. CASE Write(j, UpdateStage(row[j]))
                BY <4>2, <1>0, <1>2, RowFacts DEF Write, TypeOK
            <4>. QED  BY <2>2, <4>1, <4>2 DEF WfRuns
        <3>2. wf' = wf /\ wf[j].state = "running"
            BY <2>2 DEF WfRuns, Running
        <3>. QED  BY <3>1, <3>2, <1>0 DEF ServedOK, Status
    <2>3. CASE WfFails(j)
        <3>1. /\ \A k \in Job : k # j => row'[k] = row[k]
              /\ row'[j].status \in {"ABSENT", "COMPLETED", "REFUNDED", "FAILED"}
            BY <2>3, <1>0, <1>2, RowFacts DEF WfFails, Write, TypeOK
        <3>2. /\ \A k \in Job : k # j => wf'[k] = wf[k]
              /\ wf'[j].state = "closed" /\ wf'[j].wrote
            BY <2>3, <1>0, ClosesFacts DEF WfFails
        <3>. QED  BY <3>1, <3>2 DEF ServedOK, Status
    <2>4. CASE WfReports(j)
        <3>1. /\ \A k \in Job : k # j => row'[k] = row[k]
              /\ row'[j].status = IF row[j].status \in {"RUNNING", "PROVISIONING"}
                                   THEN "REPORTING" ELSE row[j].status
            <4>1. Write(j, TransitionToReporting(row[j]))
                BY <2>4 DEF WfReports
            <4>. QED  BY <4>1, <1>0, <1>2, RowFacts DEF Write, TypeOK
        <3>2. /\ \A k \in Job : k # j => wf'[k] = wf[k]
              /\ wf[j].wrote /\ wf'[j].state = "closed" /\ wf'[j].wrote
            BY <2>4, <1>0, ClosesFacts DEF WfReports
        <3>. QED  BY <3>1, <3>2, <1>0 DEF ServedOK, Status
    <2>5. CASE ReportIsSaved(j)
        <3>1. /\ \A k \in Job : k # j => row'[k] = row[k]
              /\ row'[j].status \in {"COMPLETED", row[j].status}
            BY <2>5, <1>0, <1>2, RowFacts DEF ReportIsSaved, Write, TypeOK
        <3>. QED  BY <3>1, <2>5, <1>0 DEF ReportIsSaved, ServedOK, Status
    <2>6. CASE IsGivenUp(j)
        <3>1. /\ \A k \in Job : k # j => row'[k] = row[k]
              /\ row'[j].status \in {"FAILED", "ABSENT", "COMPLETED", "REFUNDED"}
            BY <2>6, <1>0, <1>2, RowFacts DEF IsGivenUp, Write, TypeOK
        <3>. QED  BY <3>1, <2>6, <1>0 DEF IsGivenUp, ServedOK, Status
    <2>. QED  BY <1>1, <2>1, <2>2, <2>3, <2>4, <2>5, <2>6
<1>4. ASSUME NEW k \in Job
      PROVE  ServedOK(k)'
    <2>1. ServedOK(k)
        BY DEF Served
    <2>2. CASE k = j
        BY <2>1, <2>2, <1>3
    <2>3. CASE k # j
        BY <2>1, <2>3, <1>0, <1>3 DEF ServedOK, Status
    <2>. QED  BY <2>2, <2>3
<1>. QED  BY <1>4 DEF Served

LEMMA ServedStep == IInv /\ Served /\ [Next]_vars => Served'
PROOF
<1>. SUFFICES ASSUME IInv, Served, [Next]_vars PROVE Served'
    OBVIOUS
<1>0. TypeOK
    BY DEF IInv
<1>1. ASSUME NEW r \in Request, Handles(r)
      PROVE  Served'
    <2>1. CASE CommitJob(r) \/ CommitLaunch(r)
        BY <2>1, ServedCommit
    <2>2. CASE StartWorkflow(r) \/ StartLaunch(r)
        BY <2>2, ServedStart
    <2>3. CASE ~(CommitJob(r) \/ CommitLaunch(r) \/ StartWorkflow(r) \/ StartLaunch(r))
        <3>1. UNCHANGED <<row, wf, overtaken>>
            BY <1>1, <2>3 DEF Handles, CreateJob, RetryJob, Checks, Link, UpdateDraft,
               CommitDraft, LaunchDraft, LoadsDraft, CreateShareLink, CommitShareLink, CutOff
        <3>. QED  BY <3>1, ServedKept
    <2>. QED  BY <2>1, <2>2, <2>3
<1>2. CASE CreateDraft
    <2>1. \A j \in Job : row'[j].status \in {row[j].status, "DRAFT"}
        BY <1>0, <1>2, NewRowFacts DEF CreateDraft, TypeOK, JobStatus
    <2>. QED  BY <1>2, <2>1, ServedKept DEF CreateDraft
<1>3. CASE DeleteJob
    <2>1. \A j \in Job : row'[j].status \in {row[j].status, "ABSENT"}
        BY <1>0, <1>3, NewRowFacts DEF DeleteJob, TypeOK
    <2>. QED  BY <1>3, <2>1, ServedKept DEF DeleteJob
<1>4. CASE RevokeShareLink \/ Ages \/ UNCHANGED vars
    BY <1>4, ServedKept DEF RevokeShareLink, Ages, vars
<1>5. CASE Workflow
    BY <1>5, ServedWorkflow
<1>. QED  BY <1>1, <1>2, <1>3, <1>4, <1>5 DEF Next

\* A visible job that is provisioning or running has its workflow running, and so
\* has one that is waiting, unless the commit that made it wait came after its
\* workflow had already written to the row (api.py create_job, api_draft.py
\* launch_draft): no cut-off request, second launch, edit or delete between two
\* steps of another handler leaves a row at work with nothing behind it.
THEOREM LiveHasWorkflowTheorem == Spec => []LiveHasWorkflow
PROOF
<1>1. IInv /\ Served => LiveHasWorkflow
    <2>. SUFFICES ASSUME IInv, Served, NEW j \in Visible
                  PROVE  /\ row[j].status \in {"PROVISIONING", "RUNNING"} => Running(j)
                         /\ row[j].status = "PENDING" => Running(j) \/ j \in overtaken
        BY DEF LiveHasWorkflow
    <2>1. j \in Job /\ wf[j] \in WorkflowRun /\ JobOK(j) /\ ServedOK(j)
        BY DEF Visible, IInv, TypeOK, Served
    <2>. QED  BY <2>1 DEF JobOK, ServedOK, Status, Running, WorkflowRun
<1>. QED  BY Inductive, ServedInit, ServedStep, <1>1, PTL DEF Spec

\* The workflow of a visible job was given the content the job shows, unless the
\* launch of a draft overlapped an edit or was cut off.
THEOREM RunsWhatItShowsTheorem == Spec => []RunsWhatItShows
PROOF
<1>1. IInv => RunsWhatItShows
    BY DEF IInv, JobOK, RunsWhatItShows, Visible, Status
<1>. QED  BY Inductive, <1>1, PTL

\* A job with a share token is a finished one: nothing brings a job back from
\* COMPLETED, not even a launch that was under way.
THEOREM SharedIsFinishedTheorem == Spec => []SharedIsFinished
PROOF
<1>1. IInv => SharedIsFinished
    BY DEF IInv, JobOK, SharedIsFinished, Visible, Absent, Status
<1>. QED  BY Inductive, <1>1, PTL

\* Two identical jobs at work within one window had overlapping requests: the
\* duplicate check (api.py) refuses the second of two that came one after the
\* other, whatever the first one's workflow has done meanwhile.
THEOREM TwinsOverlappedTheorem == Spec => []TwinsOverlapped
PROOF
<1>1. ASSUME IInv, NEW j \in Visible, NEW k \in Visible,
             j \in seen[k], ~card[j].draft, ~card[k].draft,
             card[j].content = card[k].content, row[j].status \in LiveStatus
      PROVE  ~card[j].recent
    <2>1. k \in Job /\ ~Absent(k) /\ JobOK(k)
        BY <1>1 DEF IInv, Visible, Absent, Status
    <2>2. card[k].content \notin Claims(j)
        BY <1>1, <2>1 DEF JobOK
    <2>. QED  BY <1>1, <2>2 DEF Claims, Status
<1>2. IInv => TwinsOverlapped
    BY <1>1 DEF TwinsOverlapped
<1>. QED  BY Inductive, <1>2, PTL

-----------------------------------------------------------------------------
(* Induction over the natural numbers, by the least counterexample.          *)

Less == {ss \in Nat \X Nat : ss[1] < ss[2]}

\* A set of numbers that is not empty has a least one.
LEMMA LeastOf ==
    ASSUME NEW S \in SUBSET Nat, S # {}
    PROVE  \E n \in S : \A m \in S : n <= m
PROOF
<1>1. IsWellFoundedOn(Less, Nat)
    BY NatLessThanWellFounded DEF OpToRel, Less
<1>2. PICK n \in S : \A m \in S : ~ (<<m, n>> \in Less)
    BY <1>1, WFMin
<1>3. ASSUME NEW m \in S
      PROVE  n <= m
    <2>1. n \in Nat /\ m \in Nat /\ <<m, n>> \in Nat \X Nat
        OBVIOUS
    <2>2. ~ (m < n)
        BY <1>2, <2>1 DEF Less
    <2>. QED  BY <2>1, <2>2
<1>. QED  BY <1>3

\* f[n] is what G makes of a in n steps.
Iterated(f, N, A, a, G) ==
    f \in [0..N -> A] /\ f[0] = a /\ \A n \in 1..N : f[n] = G[f[n - 1]]

\* There is such a function: a recursive definition on 0..N defines something.
LEMMA Iterates ==
    ASSUME NEW N \in Nat, NEW A, NEW a \in A, NEW G \in [A -> A]
    PROVE  \E f : Iterated(f, N, A, a, G)
PROOF
<1>. DEFINE Reaches(m) == \E f : Iterated(f, m, A, a, G)
            Bad == {m \in Nat : ~Reaches(m)}
<1>1. Reaches(0)
    <2>. DEFINE f == [n \in 0..0 |-> a]
    <2>1. f \in [0..0 -> A] /\ f[0] = a /\ 1..0 = {}
        OBVIOUS
    <2>. HIDE DEF f
    <2>. QED  BY <2>1 DEF Iterated
<1>2. ASSUME NEW m \in Nat \ {0}, Reaches(m - 1)
      PROVE  Reaches(m)
    <2>1. PICK g : Iterated(g, m - 1, A, a, G)
        BY <1>2
    <2>. DEFINE f == [n \in 0..m |-> IF n = m THEN G[g[m - 1]] ELSE g[n]]
    <2>2. /\ \A n \in 0..m : n # m => n \in 0..(m - 1)
          /\ \A n \in 1..m : n \in 0..m /\ n - 1 \in 0..(m - 1) /\ n - 1 \in 0..m /\ n - 1 # m
          /\ m - 1 \in 0..(m - 1) /\ 0 \in 0..m /\ m # 0
          /\ \A n \in 1..m : n # m => n \in 1..(m - 1)
        OBVIOUS
    <2>3. f \in [0..m -> A] /\ f[0] = a
        BY <2>1, <2>2 DEF Iterated
    <2>4. ASSUME NEW n \in 1..m
          PROVE  f[n] = G[f[n - 1]]
        <3>1. f[n - 1] = g[n - 1]
            BY <2>2
        <3>2. f[n] = IF n = m THEN G[g[m - 1]] ELSE g[n]
            BY <2>2
        <3>. QED  BY <3>1, <3>2, <2>1, <2>2 DEF Iterated
    <2>. HIDE DEF f
    <2>. QED  BY <2>3, <2>4 DEF Iterated
<1>. HIDE DEF Reaches
<1>3. ASSUME NEW m \in Bad
      PROVE  \E k \in Bad : k < m
    <2>1. m \in Nat /\ m # 0 /\ m - 1 \in Nat /\ m - 1 < m
        BY <1>1
    <2>. QED  BY <2>1, <1>2
<1>4. Bad = {}
    <2>. SUFFICES ASSUME Bad # {} PROVE FALSE
        OBVIOUS
    <2>1. Bad \in SUBSET Nat
        OBVIOUS
    <2>. HIDE DEF Bad
    <2>2. PICK n \in Bad : \A m \in Bad : n <= m
        BY <2>1, LeastOf
    <2>3. PICK k \in Bad : k < n
        BY <1>3
    <2>. QED  BY <2>1, <2>2, <2>3
<1>. QED  BY <1>4 DEF Reaches

\* The jobs that repeat a job, as far as RepeatsOf has come: they only get more,
\* and what repeats one of them is among them one step further on.
LEMMA Repeats ==
    ASSUME NEW j \in Job
    PROVE  \E upTo : /\ upTo[0] = {j} /\ RepeatsOf(j) = upTo[MaxJobs]
                     /\ \A n \in 0..MaxJobs : upTo[n] \subseteq upTo[MaxJobs]
                     /\ \A n \in 1..MaxJobs : \A k \in Visible :
                           card[k].retryOf \in upTo[n - 1] => k \in upTo[n]
PROOF
<1>. DEFINE G == [S \in SUBSET Job |-> S \cup {k \in Visible : card[k].retryOf \in S}]
            Rec(u) == u = [n \in 0..MaxJobs |->
                              IF n = 0 THEN {j}
                              ELSE u[n - 1] \cup {k \in Visible : card[k].retryOf \in u[n - 1]}]
            upTo == CHOOSE u : Rec(u)
<1>0. MaxJobs \in Nat /\ \A n \in 0..MaxJobs : n # 0 => n - 1 \in 0..MaxJobs
    BY ApiAssumption
<1>1. G \in [SUBSET Job -> SUBSET Job] /\ {j} \in SUBSET Job
    BY DEF Visible
<1>2. PICK f : Iterated(f, MaxJobs, SUBSET Job, {j}, G)
    <2>. HIDE DEF G
    <2>. QED  BY <1>0, <1>1, Iterates
<1>3. Rec(f)
    <2>1. ASSUME NEW n \in 0..MaxJobs, n # 0
          PROVE  f[n] = f[n - 1] \cup {k \in Visible : card[k].retryOf \in f[n - 1]}
        <3>1. n \in 1..MaxJobs /\ f[n - 1] \in SUBSET Job
            BY <1>0, <1>2, <2>1 DEF Iterated
        <3>. QED  BY <3>1, <1>2 DEF Iterated
    <2>. QED  BY <1>2, <2>1 DEF Iterated
<1>4. Rec(upTo)
    <2>. HIDE DEF Rec
    <2>. QED  BY <1>3
<1>5. RepeatsOf(j) = upTo[MaxJobs]
    BY DEF RepeatsOf
<1>. HIDE DEF upTo
<1>6. /\ upTo[0] = {j}
      /\ \A n \in 0..MaxJobs : n # 0 =>
            upTo[n] = upTo[n - 1] \cup {k \in Visible : card[k].retryOf \in upTo[n - 1]}
    BY <1>0, <1>4
<1>. DEFINE Missed == {d \in 0..MaxJobs : ~(upTo[MaxJobs - d] \subseteq upTo[MaxJobs])}
<1>7. Missed = {}
    <2>. SUFFICES ASSUME Missed # {} PROVE FALSE
        OBVIOUS
    <2>1. PICK d \in Missed : \A e \in Missed : d <= e
        BY <1>0, LeastOf, Missed \in SUBSET Nat
    <2>2. d # 0 /\ d - 1 \in 0..MaxJobs /\ ~(d <= d - 1) /\ MaxJobs - (d - 1) \in 0..MaxJobs
          /\ MaxJobs - (d - 1) # 0 /\ MaxJobs - (d - 1) - 1 = MaxJobs - d
        BY <1>0
    <2>3. upTo[MaxJobs - (d - 1)] \subseteq upTo[MaxJobs]
        BY <2>1, <2>2
    <2>4. upTo[MaxJobs - d] \subseteq upTo[MaxJobs - (d - 1)]
        BY <2>2, <1>6
    <2>. QED  BY <2>3, <2>4
<1>8. ASSUME NEW n \in 0..MaxJobs
      PROVE  upTo[n] \subseteq upTo[MaxJobs]
    <2>1. MaxJobs - n \in 0..MaxJobs /\ MaxJobs - (MaxJobs - n) = n
        BY <1>0
    <2>. QED  BY <1>7, <2>1
<1>9. \A n \in 1..MaxJobs : n \in 0..MaxJobs /\ n # 0
    OBVIOUS
<1>. QED  BY <1>5, <1>6, <1>8, <1>9

-----------------------------------------------------------------------------
(* A retry is younger than the job it repeats.                               *)

Younger ==
    /\ \A j \in Job : card[j].retryOf < j
    /\ \A r \in Request : req[r].at \in {"start", "commit", "link"} => req[r].origin < req[r].job

LEMMA YoungerInit == Init => Younger
PROOF
    BY JobFacts DEF Init, Younger, NewCard, Idle

LEMMA YoungerStep == IInv /\ Younger /\ [Next]_vars => Younger'
PROOF
<1>. SUFFICES ASSUME IInv, Younger, [Next]_vars PROVE Younger'
    OBVIOUS
<1>1. /\ TypeOK /\ \A j \in Visible : j \in Job /\ j < next
      /\ next \in Nat \ {0} /\ \A j \in Job : j \in Nat /\ j > 0
    <2>1. TypeOK /\ \A j \in Visible : j \in Job /\ JobOK(j)
        BY DEF IInv, Visible
    <2>2. next \in Nat \ {0} /\ \A j \in Job : j \in Nat /\ j > 0
        BY <2>1, JobFacts, ApiAssumption DEF TypeOK
    <2>. QED  BY <2>1, <2>2 DEF JobOK, Absent, Status, Visible
<1>. DEFINE Kept == \A j \in Job : card'[j].retryOf = card[j].retryOf
            Held == \A r \in Request :
                       \/ req'[r] = req[r] \/ req'[r].at \notin {"start", "commit", "link"}
                       \/ /\ req[r].at \in {"start", "commit", "link"}
                          /\ req'[r].origin = req[r].origin /\ req'[r].job = req[r].job
<1>2. ASSUME Kept, Held
      PROVE  Younger'
    BY <1>2 DEF Younger
<1>3. ASSUME NEW r \in Request, NEW p \in Place, Moves(r, p),
             req[r].at \in {"start", "commit", "link"} \/ p \notin {"start", "commit", "link"}
      PROVE  Held
    BY <1>3, <1>1 DEF Moves, Goes, TypeOK, Handler
<1>4. ASSUME NEW r \in Request, Replies(r)
      PROVE  Held
    BY <1>4, <1>1 DEF Replies, Goes, Idle, TypeOK
<1>5. ASSUME UNCHANGED req
      PROVE  Held
    BY <1>5
<1>6. ASSUME UNCHANGED card
      PROVE  Kept
    BY <1>6
<1>7. ASSUME NEW r \in Request, NEW c, NEW o \in {0} \cup Visible, Checks(r, c, o)
      PROVE  Younger'
    <2>1. o < next
        BY <1>1
    <2>2. /\ \A q \in Request : q # r => req'[q] = req[q]
          /\ req'[r].origin = o /\ req'[r].job = next
        BY <1>7, <1>1 DEF Checks, Goes, TypeOK
    <2>3. UNCHANGED card
        BY <1>7 DEF Checks
    <2>. QED  BY <2>1, <2>2, <2>3 DEF Younger
<1>8. ASSUME NEW r \in Request, StartWorkflow(r)
      PROVE  Younger'
    BY <1>8, <1>2, <1>3, <1>4, <1>6 DEF StartWorkflow, At, Place
<1>9. ASSUME NEW r \in Request, CommitJob(r)
      PROVE  Younger'
    <2>1. Held
        BY <1>9, <1>3, <1>4 DEF CommitJob, At, Place
    <2>2. \A j \in Job : card'[j].retryOf \in {0, card[j].retryOf}
        BY <1>9, <1>1 DEF CommitJob, NewCard, TypeOK
    <2>. QED  BY <2>1, <2>2, <1>1 DEF Younger
<1>10. ASSUME NEW r \in Request, Link(r)
       PROVE  Younger'
    <2>1. Held
        BY <1>10, <1>4 DEF Link
    <2>2. req[r].origin < req[r].job
        BY <1>10 DEF Link, At, Younger
    <2>3. \A j \in Job : \/ card'[j].retryOf = card[j].retryOf
                         \/ j = req[r].job /\ card'[j].retryOf = req[r].origin
        BY <1>10, <1>1 DEF Link, TypeOK, Card
    <2>. QED  BY <2>1, <2>2, <2>3 DEF Younger
<1>11. ASSUME CreateDraft \/ DeleteJob
       PROVE  Younger'
    <2>1. Held
        BY <1>11, <1>5 DEF CreateDraft, DeleteJob
    <2>2. \A j \in Job : card'[j].retryOf \in {0, card[j].retryOf}
        BY <1>11, <1>1 DEF CreateDraft, DeleteJob, NewCard, TypeOK
    <2>. QED  BY <2>1, <2>2, <1>1 DEF Younger
<1>12. ASSUME NEW r \in Request, UpdateDraft(r) \/ LaunchDraft(r)
       PROVE  Younger'
    <2>1. Kept
        BY <1>12, <1>6 DEF UpdateDraft, LaunchDraft, LoadsDraft
    <2>2. Held
        BY <1>12, <1>1 DEF UpdateDraft, LaunchDraft, LoadsDraft, Goes, TypeOK
    <2>. QED  BY <2>1, <2>2, <1>2
<1>13. ASSUME NEW r \in Request, CommitDraft(r)
       PROVE  Younger'
    <2>1. Kept
        <3>1. \/ UNCHANGED card
              \/ \E c : card' = [card EXCEPT ![req[r].job].content = c]
            BY <1>13 DEF CommitDraft
        <3>2. ASSUME NEW k \in Job
              PROVE  card'[k].retryOf = card[k].retryOf
            <4>1. card \in [Job -> Card] /\ card[k] \in Card
                BY <1>1 DEF TypeOK
            <4>2. CASE k = req[r].job
                BY <4>2, <4>1, <3>1 DEF Card
            <4>3. CASE k # req[r].job
                BY <4>3, <4>1, <3>1
            <4>. QED  BY <4>2, <4>3
        <3>. QED  BY <3>2
    <2>. QED  BY <2>1, <1>13, <1>2, <1>4 DEF CommitDraft
<1>14. ASSUME NEW r \in Request, StartLaunch(r) \/ CommitLaunch(r) \/ CutOff(r)
       PROVE  Younger'
    <2>1. Kept
        BY <1>14, <1>6 DEF StartLaunch, CommitLaunch, CutOff
    <2>2. Held
        BY <1>14, <1>3, <1>4 DEF StartLaunch, CommitLaunch, CutOff, Place
    <2>. QED  BY <2>1, <2>2, <1>2
<1>15. ASSUME NEW r \in Request, CreateShareLink(r)
       PROVE  Younger'
    <2>1. Kept
        BY <1>15, <1>6 DEF CreateShareLink
    <2>2. Held
        BY <1>15, <1>1 DEF CreateShareLink, Goes, Idle, TypeOK
    <2>. QED  BY <2>1, <2>2, <1>2
<1>16. ASSUME NEW r \in Request, CommitShareLink(r)
       PROVE  Younger'
    <2>1. Kept
        BY <1>16, <1>1 DEF CommitShareLink, TypeOK, Card
    <2>. QED  BY <2>1, <1>16, <1>2, <1>4 DEF CommitShareLink
<1>17. ASSUME RevokeShareLink \/ Ages
       PROVE  Younger'
    <2>1. Kept
        BY <1>17, <1>1 DEF RevokeShareLink, Ages, TypeOK, Card
    <2>. QED  BY <2>1, <1>17, <1>2, <1>5 DEF RevokeShareLink, Ages
<1>18. ASSUME Workflow \/ UNCHANGED vars
       PROVE  Younger'
    BY <1>18, <1>2, <1>5, <1>6 DEF Workflow, vars
<1>19. ASSUME NEW r \in Request, CreateJob(r) \/ RetryJob(r)
       PROVE  Younger'
    BY <1>19, <1>7 DEF CreateJob, RetryJob
<1>. HIDE DEF Kept, Held
<1>. QED  BY <1>8, <1>9, <1>10, <1>11, <1>12, <1>13, <1>14, <1>15, <1>16, <1>17, <1>18, <1>19
          DEF Next, Handles

LEMMA YoungerAlways == Spec => []Younger
PROOF
    BY YoungerInit, YoungerStep, Inductive, PTL DEF Spec

\* A job the user has is on the page, or a later one that repeats it is, through
\* however many retries, deletions and handlers cut off between the commit of a
\* retry and its link (api_retry.py, list_jobs).
THEOREM EveryJobIsListedTheorem == Spec => []EveryJobIsListed
PROOF
<1>1. ASSUME IInv, Younger, NEW j \in Visible
      PROVE  \E k \in RepeatsOf(j) \cap Listed : k >= j
    <2>1. j \in Job /\ \A k \in Visible : k \in Job
        BY DEF Visible
    <2>2. MaxJobs \in Nat /\ \A k \in Job : k \in Nat /\ k > 0 /\ k <= MaxJobs
        BY ApiAssumption, JobFacts
    <2>3. PICK upTo : /\ upTo[0] = {j} /\ RepeatsOf(j) = upTo[MaxJobs]
                      /\ \A n \in 0..MaxJobs : upTo[n] \subseteq upTo[MaxJobs]
                      /\ \A n \in 1..MaxJobs : \A k \in Visible :
                            card[k].retryOf \in upTo[n - 1] => k \in upTo[n]
        BY <2>1, Repeats
    <2>. SUFFICES ASSUME \A k \in RepeatsOf(j) \cap Listed : ~(k >= j)
                  PROVE  FALSE
        OBVIOUS
    \* Then every repeat has a repeat of its own, and the numbers run out.
    <2>. DEFINE Far(n) == \E k \in Visible : k \in upTo[n] /\ k >= j + n
                Short == {n \in 0..MaxJobs : ~Far(n)}
    <2>4. ASSUME NEW n \in 1..MaxJobs, Far(n - 1)
          PROVE  Far(n)
        <3>1. PICK k \in Visible : k \in upTo[n - 1] /\ k >= j + (n - 1)
            BY <2>4
        <3>2. n - 1 \in 0..MaxJobs /\ n \in Nat
            BY <2>2
        <3>3. k \in RepeatsOf(j) /\ k >= j
            BY <3>1, <3>2, <2>1, <2>2, <2>3
        <3>4. PICK m \in Visible : card[m].retryOf = k
            BY <3>1, <3>3 DEF Listed, Superseded
        <3>5. m \in upTo[n]
            BY <3>1, <3>4, <2>3
        <3>6. k < m
            BY <1>1, <3>4, <2>1 DEF Younger
        <3>. QED  BY <3>1, <3>2, <3>5, <3>6, <2>1, <2>2
    <2>5. Far(0)
        BY <2>1, <2>2, <2>3
    <2>6. ~Far(MaxJobs)
        BY <2>1, <2>2
    <2>7. MaxJobs \in Short /\ Short \in SUBSET Nat
        BY <2>2, <2>6
    <2>8. PICK n \in Short : \A m \in Short : n <= m
        <3>. HIDE DEF Short
        <3>. QED  BY <2>7, LeastOf
    <2>9. n \in 1..MaxJobs /\ n - 1 \in 0..MaxJobs /\ ~(n <= n - 1)
        BY <2>5, <2>2
    <2>. HIDE DEF Far
    <2>. QED  BY <2>4, <2>8, <2>9
<1>2. IInv /\ Younger => EveryJobIsListed
    BY <1>1 DEF EveryJobIsListed
<1>. QED  BY Inductive, YoungerAlways, <1>2, PTL

=============================================================================
