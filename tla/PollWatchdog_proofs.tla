------------------------- MODULE PollWatchdog_proofs -------------------------
(***************************************************************************)
(* What the round watchdog promises for every threshold, every length of   *)
(* a poll and every number of lost polls and empty fetches.  The samples   *)
(* of the slow-pod detector play no part in that, and what that detector   *)
(* decides may be anything.  When it may call a pod slow is the second     *)
(* part.  The third part is about the error-rate breaker of the same loop. *)
(***************************************************************************)
EXTENDS PollWatchdog, LlmBreaker, FiniteSetTheorems, WellFoundedInduction, TLAPS

Types ==
    /\ now \in Nat /\ wait \in Nat /\ round \in Nat
    /\ lastRound \in Nat \cup {NoRound} /\ progressAt \in Nat /\ polled \in Nat
    /\ seen \in Nat /\ seenAt \in Nat
    /\ failures \in Nat /\ blind \in Nat
    /\ at \in Watching \cup Outcome

\* What the loop remembers next to what the logs have shown: it may be older
\* or it may have been forgotten, but a round it counts as progress is no
\* older than the highest one.
Remembered ==
    /\ lastRound # NoRound => lastRound <= seen
    /\ seen <= round
    /\ seenAt <= progressAt /\ progressAt <= now
    /\ at = "logs" => progressAt <= polled /\ polled <= now

\* As long as every fetch has shown the round there was, the two agree.
Armed == (at \in Watching /\ seen > 0 /\ blind = 0) =>
             lastRound = seen /\ progressAt = seenAt

\* Before an answer come the polls lost since the last one, and a log is fetched
\* by a poll that was not lost.
Awaits ==
    /\ at = "poll" => failures < MaxFailures
    /\ at = "logs" => failures = 0 /\ now + wait <= polled + LogTakes

\* ... and the next poll comes before the watchdog's time, a log fetch and the
\* polls lost since the watchdog was last asked are up.
Timely == (seen > 0 /\ blind = 0) =>
    /\ at = "poll" => now + wait <= (progressAt + Stuck + LogTakes) + (failures + 1) * TurnTakes
    /\ at = "logs" => polled <= progressAt + Stuck

IInv == Types /\ Remembered /\ Armed /\ Awaits /\ Timely /\ StuckMeansStalled

-----------------------------------------------------------------------------
(* One lemma for each step.                                                  *)

LEMMA Constants ==
    /\ {Stuck, Window, MinDelta, RoundBudget, LogTakes, TurnTakes, MaxLost, MaxBlind, Rounds,
        MaxTime, MaxFailures, Interval, MinPace} \subseteq Nat
    /\ MaxFailures > 0 /\ MinPace > 0 /\ Interval <= TurnTakes /\ NoRound \notin Nat
PROOF
    BY WatchdogAssumption

\* Products with a step more, a step less.
LEMMA Times ==
    ASSUME NEW a \in Nat, NEW b \in Nat
    PROVE  /\ a * b \in Nat /\ (a + 1) * b = a * b + b
           /\ \A c \in Nat : a <= c => a * b <= c * b
           /\ \A c \in Nat : b <= c => a * b <= a * c
           /\ \A c \in Nat : c <= a => (a - c) * b \in Nat /\ (a + 1 - c) * b = (a - c) * b + b
PROOF
<1>1. a * b \in Nat /\ (a + 1) * b = a * b + b
    OBVIOUS
<1>2. ASSUME NEW c \in Nat, a <= c PROVE a * b <= c * b
    BY <1>2
<1>3. ASSUME NEW c \in Nat, b <= c PROVE a * b <= a * c
    BY <1>3
<1>4. ASSUME NEW c \in Nat, c <= a
      PROVE  (a - c) * b \in Nat /\ (a + 1 - c) * b = (a - c) * b + b
    <2>. DEFINE d == a - c
    <2>1. d \in Nat /\ a + 1 - c = d + 1
        BY <1>4
    <2>. HIDE DEF d
    <2>2. d * b \in Nat /\ (d + 1) * b = d * b + b
        BY <2>1
    <2>. QED  BY <2>1, <2>2 DEF d
<1>. QED  BY <1>1, <1>2, <1>3, <1>4

\* Turns, in time.
LEMMA Turns ==
    ASSUME NEW f \in Nat
    PROVE  /\ (f + 1) * TurnTakes \in Nat
           /\ (f + 1 + 1) * TurnTakes = (f + 1) * TurnTakes + TurnTakes
           /\ f < MaxFailures => (f + 1) * TurnTakes <= MaxFailures * TurnTakes
           /\ MaxFailures * TurnTakes \in Nat /\ (0 + 1) * TurnTakes = TurnTakes
PROOF
<1>1. TurnTakes \in Nat /\ MaxFailures \in Nat /\ f + 1 \in Nat
    BY Constants
<1>2. /\ (f + 1) * TurnTakes \in Nat
      /\ (f + 1 + 1) * TurnTakes = (f + 1) * TurnTakes + TurnTakes
      /\ f + 1 <= MaxFailures => (f + 1) * TurnTakes <= MaxFailures * TurnTakes
      /\ MaxFailures * TurnTakes \in Nat
    BY <1>1, Times
<1>. QED  BY <1>1, <1>2

LEMMA TurnFacts == NextTurn => wait' \in Nat /\ wait' <= TurnTakes
PROOF
    BY Constants DEF NextTurn

LEMMA InitIInv == Init => IInv
PROOF
    BY Constants DEF Init, IInv, Types, Remembered, Armed, Awaits, Timely, StuckMeansStalled,
       Outcome, Watching

LEMMA PodStep == IInv /\ PodAdvances => IInv'
PROOF
    BY DEF PodAdvances, locals, history, IInv, Types, Remembered, Armed, Awaits, Timely,
       StuckMeansStalled

LEMMA TickStep == IInv /\ Tick => IInv'
PROOF
<1>. SUFFICES ASSUME IInv, Tick PROVE IInv'
    OBVIOUS
<1>1. /\ at \in Watching /\ wait > 0 /\ now' = now + 1 /\ wait' = wait - 1
      /\ UNCHANGED <<round, lastRound, progressAt, failures, polled, at, blind, seen, seenAt>>
    BY DEF Tick, pod, locals
<1>2. (failures + 1) * TurnTakes \in Nat
    BY Turns DEF IInv, Types
<1>3. Types'
    BY <1>1 DEF IInv, Types
<1>4. Remembered' /\ Armed' /\ StuckMeansStalled'
    BY <1>1 DEF IInv, Types, Remembered, Armed, StuckMeansStalled, Watching
<1>5. now' + wait' = now + wait
    BY <1>1 DEF IInv, Types
<1>6. Awaits' /\ Timely'
    BY <1>1, <1>5 DEF IInv, Awaits, Timely
<1>. QED  BY <1>3, <1>4, <1>6 DEF IInv

LEMMA LostStep == IInv /\ PollLost => IInv'
PROOF
<1>. SUFFICES ASSUME IInv, PollLost PROVE IInv'
    OBVIOUS
<1>1. /\ at = "poll" /\ wait = 0 /\ failures' = failures + 1
      /\ at' = IF failures' >= MaxFailures THEN "unreachable" ELSE "poll"
      /\ wait' \in Nat /\ wait' <= TurnTakes
      /\ UNCHANGED <<now, round, lastRound, progressAt, polled, blind, seen, seenAt>>
    BY TurnFacts DEF PollLost, Polls, pod, history
<1>2. /\ (failures + 1) * TurnTakes \in Nat
      /\ (failures' + 1) * TurnTakes = (failures + 1) * TurnTakes + TurnTakes
    BY <1>1, Turns DEF IInv, Types
<1>3. Types'
    BY <1>1 DEF IInv, Types, Outcome, Watching
<1>4. Remembered' /\ Armed' /\ StuckMeansStalled'
    BY <1>1 DEF IInv, Types, Remembered, Armed, StuckMeansStalled, Watching
<1>5. Awaits'
    BY <1>1, <1>3, Constants DEF Types, Awaits
<1>6. Timely'
    <2>. SUFFICES ASSUME at' = "poll", seen > 0, blind = 0
                  PROVE  now + wait' <= (progressAt + Stuck + LogTakes)
                                            + (failures' + 1) * TurnTakes
        BY <1>1 DEF Timely
    <2>. DEFINE f == (failures + 1) * TurnTakes
                g == (failures' + 1) * TurnTakes
    <2>1. now + wait <= (progressAt + Stuck + LogTakes) + f
        BY <1>1 DEF IInv, Timely
    <2>2. f \in Nat /\ g = f + TurnTakes
        BY <1>2
    <2>. HIDE DEF f, g
    <2>3. now + wait' <= (progressAt + Stuck + LogTakes) + g
        BY <1>1, <2>1, <2>2, Constants DEF IInv, Types
    <2>. QED  BY <2>3 DEF g
<1>. QED  BY <1>3, <1>4, <1>5, <1>6 DEF IInv

LEMMA StuckStep == IInv /\ PollStuck => IInv'
PROOF
    BY Constants DEF PollStuck, Polls, Stalled, locals, pod, history, IInv, Types, Remembered,
       Armed, Awaits, Timely, StuckMeansStalled, Outcome, Watching

LEMMA StatusStep == IInv /\ PollStatusOnly => IInv'
PROOF
<1>. SUFFICES ASSUME IInv, PollStatusOnly PROVE IInv'
    OBVIOUS
<1>1. /\ at = "poll" /\ wait = 0 /\ ~Stalled /\ at' \in {"poll", "completed"}
      /\ failures' = 0 /\ wait' \in Nat /\ wait' <= TurnTakes
      /\ UNCHANGED <<now, round, lastRound, progressAt, polled, blind, seen, seenAt>>
    BY TurnFacts DEF PollStatusOnly, Polls, AfterStatus, pod, history
<1>2. Types' /\ Remembered' /\ Armed' /\ StuckMeansStalled'
    BY <1>1 DEF IInv, Types, Remembered, Armed, StuckMeansStalled, Outcome, Watching
<1>3. Awaits'
    BY <1>1, Constants DEF Awaits
<1>4. Timely'
    <2>1. (0 + 1) * TurnTakes = TurnTakes
        BY Turns
    <2>. QED  BY <1>1, <2>1, Constants DEF IInv, Types, Armed, Timely, Stalled, Watching
<1>. QED  BY <1>2, <1>3, <1>4 DEF IInv

LEMMA AskStep == IInv /\ AskLogs => IInv'
PROOF
<1>. SUFFICES ASSUME IInv, AskLogs PROVE IInv'
    OBVIOUS
<1>1. /\ at = "poll" /\ wait = 0 /\ ~Stalled /\ at' = "logs" /\ polled' = now
      /\ failures' = 0 /\ wait' \in 0..LogTakes
      /\ UNCHANGED <<now, round, lastRound, progressAt, blind, seen, seenAt>>
    BY DEF AskLogs, Polls, pod, history
<1>2. Types' /\ Remembered' /\ Armed' /\ Awaits' /\ StuckMeansStalled'
    BY <1>1, Constants
       DEF IInv, Types, Remembered, Armed, Awaits, StuckMeansStalled, Outcome, Watching
<1>3. Timely'
    BY <1>1, Constants DEF IInv, Types, Armed, Timely, Stalled, Watching
<1>. QED  BY <1>2, <1>3 DEF IInv

LEMMA LogsStep == IInv /\ LogsCome => IInv'
PROOF
<1>. SUFFICES ASSUME IInv, LogsCome PROVE IInv'
    OBVIOUS
<1>1. PICK shown \in {NoRound} \cup ({round} \ {0}) :
         /\ at = "logs" /\ wait = 0
         /\ at' \in {"poll", "completed", "slow"}
         /\ at' # "slow" => lastRound' = shown
         /\ at' = "slow" => lastRound' = lastRound
         /\ blind' = IF shown = NoRound /\ round > 0 THEN blind + 1 ELSE blind
         /\ seen' = IF shown # NoRound /\ shown > seen THEN shown ELSE seen
         /\ seenAt' = IF seen' # seen THEN polled ELSE seenAt
         /\ progressAt' = IF Progress(shown) THEN polled ELSE progressAt
         /\ wait' \in Nat /\ wait' <= TurnTakes
         /\ UNCHANGED <<now, round, failures, polled>>
    BY TurnFacts DEF LogsCome, AfterStatus, pod
<1>2. /\ now <= polled + LogTakes /\ failures = 0
      /\ progressAt <= polled /\ polled <= now
    BY <1>1 DEF IInv, Types, Awaits, Remembered
<1>3. Types'
    BY <1>1, Constants DEF IInv, Types, Outcome, Watching
<1>4. Remembered'
    BY <1>1, <1>2, Constants DEF IInv, Types, Remembered, Progress
<1>5. Armed'
    <2>. SUFFICES ASSUME at' \in Watching, seen' > 0, blind' = 0
                  PROVE  lastRound' = seen' /\ progressAt' = seenAt'
        BY DEF Armed
    <2>1. shown = round /\ round > 0
        BY <1>1, Constants DEF IInv, Types, Remembered
    <2>2. blind = 0
        BY <1>1, <2>1, Constants DEF IInv, Types
    <2>. QED  BY <1>1, <2>1, <2>2, Constants
              DEF IInv, Types, Remembered, Armed, Progress, Watching
<1>6. Awaits'
    BY <1>1, <1>2, Constants DEF Awaits
<1>7. Timely'
    <2>1. (0 + 1) * TurnTakes = TurnTakes
        BY Turns
    <2>. SUFFICES ASSUME at' = "poll", seen' > 0, blind' = 0
                  PROVE  now + wait' <= (progressAt' + Stuck + LogTakes) + TurnTakes
        BY <1>1, <1>2, <2>1 DEF Timely
    <2>2. CASE Progress(shown)
        BY <1>1, <1>2, <2>2, Constants DEF IInv, Types
    <2>3. CASE ~Progress(shown)
        <3>1. shown = round /\ round > 0 /\ blind = 0
            BY <1>1, Constants DEF IInv, Types, Remembered
        <3>2. seen > 0
            BY <1>1, <2>3, <3>1, Constants DEF IInv, Types, Remembered, Progress
        <3>3. polled <= progressAt + Stuck
            BY <1>1, <3>1, <3>2 DEF IInv, Timely
        <3>. QED  BY <1>1, <1>2, <2>3, <3>3, Constants DEF IInv, Types
    <2>. QED  BY <2>2, <2>3
<1>8. StuckMeansStalled'
    BY <1>1 DEF StuckMeansStalled
<1>. QED  BY <1>3, <1>4, <1>5, <1>6, <1>7, <1>8 DEF IInv

LEMMA Inductive == Spec => []IInv
PROOF
<1>1. IInv /\ UNCHANGED vars => IInv'
    BY DEF vars, pod, locals, history, IInv, Types, Remembered, Armed, Awaits, Timely,
       StuckMeansStalled
<1>2. IInv /\ [Next]_vars => IInv'
    BY <1>1, PodStep, TickStep, LostStep, StuckStep, StatusStep, AskStep, LogsStep DEF Next
<1>. QED  BY InitIInv, <1>2, PTL DEF Spec

-----------------------------------------------------------------------------
(* What follows from it.                                                     *)

\* The watchdog never counts the time before the first round, or time in which
\* rounds rose, as being stuck: for any threshold and any faults.
THEOREM StuckMeansStalledTheorem == Spec => []StuckMeansStalled
PROOF
<1>1. IInv => StuckMeansStalled
    BY DEF IInv
<1>. QED  BY Inductive, <1>1, PTL

\* A pod that shows no new round is given up within the threshold, one log fetch
\* and the polls the loop sits out, whatever these are.
THEOREM StuckIsNoticedTheorem == Spec => []StuckIsNoticed
PROOF
<1>1. ASSUME IInv, at \in Watching, seen > 0, blind = 0
      PROVE  now - seenAt <= Stuck + LogTakes + MaxFailures * TurnTakes
    <2>. DEFINE f == (failures + 1) * TurnTakes
                g == MaxFailures * TurnTakes
    <2>1. /\ f \in Nat /\ g \in Nat
          /\ failures < MaxFailures => f <= g
        BY <1>1, Turns DEF IInv, Types
    <2>2. progressAt = seenAt
        BY <1>1 DEF IInv, Armed
    <2>3. at = "poll" => failures < MaxFailures /\ now + wait <= (progressAt + Stuck + LogTakes) + f
        BY <1>1 DEF IInv, Awaits, Timely
    <2>4. at = "logs" => now + wait <= polled + LogTakes /\ polled <= progressAt + Stuck
        BY <1>1 DEF IInv, Awaits, Timely
    <2>. HIDE DEF f, g
    <2>5. now - seenAt <= Stuck + LogTakes + g
        BY <1>1, <2>1, <2>2, <2>3, <2>4, Constants DEF IInv, Types, Watching
    <2>. QED  BY <2>5 DEF g
<1>2. IInv => StuckIsNoticed
    BY <1>1 DEF StuckIsNoticed
<1>. QED  BY Inductive, <1>2, PTL

-----------------------------------------------------------------------------
(* When a pod may be called slow.  Here the samples count: each is a bound on *)
(* when the pod began the round it is in.                                    *)

\* Fewer failures than end the loop, and a log that comes in time.
Answers ==
    /\ at \in Watching => failures < MaxFailures
    /\ at = "logs" => now + wait <= polled + LogTakes

\* Since when the pod has been in its round, by a sample and its slowest round.
InTime(x) ==
    /\ x[2] <= round
    /\ roundAt <= (x[1] + LogTakes) + (round - x[2]) * slowest

Paced ==
    /\ round > 0 => now <= roundAt + slowest
    /\ \A x \in samples : InTime(x)

PaceInv == TypeOK /\ Answers /\ Paced /\ SlowMeansSlow

LEMMA TypeTypes ==
    TypeOK =>
    /\ now \in Nat /\ wait \in Nat /\ round \in Nat /\ roundAt \in Nat /\ roundAt <= now
    /\ job \in Status /\ answer \in Status
    /\ lastRound \in Nat \cup {NoRound} /\ progressAt \in Nat /\ progressAt <= now
    /\ \A x \in samples : x[1] \in Nat /\ x[2] \in Nat /\ x[2] > 0 /\ x[1] <= now
    /\ fetch \in BOOLEAN /\ failures \in Nat /\ lost \in Nat /\ blind \in Nat /\ lost <= MaxLost
    /\ polled \in Nat /\ polled <= now /\ slowest \in Nat /\ slowest <= now
PROOF
    BY Constants DEF TypeOK

LEMMA TurnIsWait == NextTurn => wait' \in 0..LogTakes \cup 0..TurnTakes
PROOF
    BY Constants DEF NextTurn

LEMMA PaceInit == Init => PaceInv
PROOF
<1>. SUFFICES ASSUME Init PROVE PaceInv
    OBVIOUS
<1>1. TypeOK
    <2>1. Interval \in 0..TurnTakes /\ \A n \in Nat : 0 \in 0..n
        BY Constants
    <2>2. {MaxTime, Rounds, MaxFailures, MaxLost, MaxBlind} \subseteq Nat
        BY Constants
    <2>. QED  BY <2>1, <2>2 DEF Init, TypeOK, Watching, Status
<1>2. Answers /\ Paced /\ SlowMeansSlow
    BY Constants DEF Init, Answers, Paced, SlowMeansSlow, Watching
<1>. QED  BY <1>1, <1>2 DEF PaceInv

LEMMA PacePod == ASSUME PaceInv, PodAdvances PROVE PaceInv'
PROOF
<1>0. TypeOK /\ Answers /\ Paced /\ SlowMeansSlow
    BY DEF PaceInv
<1>1. /\ at \in Watching
      /\ \/ round < Rounds /\ round' = round + 1 /\ roundAt' = now /\ UNCHANGED job
         \/ job' = "completed" /\ UNCHANGED <<round, roundAt>>
      /\ UNCHANGED <<now, wait, lastRound, progressAt, samples, fetch, failures, polled, answer,
                     at, lost, blind, seen, seenAt, slowest>>
    BY DEF PodAdvances, locals, history
<1>2. TypeOK'
    BY <1>0, <1>1, Constants DEF TypeOK, Status
<1>3. Answers' /\ SlowMeansSlow'
    BY <1>0, <1>1 DEF Answers, SlowMeansSlow, Watching
<1>4. ASSUME NEW x \in samples PROVE InTime(x)'
    <2>1. /\ x[1] \in Nat /\ x[2] \in Nat /\ x[2] > 0 /\ round \in Nat
          /\ now \in Nat /\ roundAt \in Nat /\ slowest \in Nat
        BY <1>0, TypeTypes
    <2>2. InTime(x) /\ x[2] <= round /\ now <= roundAt + slowest
        BY <1>0, <2>1 DEF Paced, InTime
    <2>3. /\ (round - x[2]) * slowest \in Nat
          /\ (round + 1 - x[2]) * slowest = (round - x[2]) * slowest + slowest
        BY <2>1, <2>2, Times
    <2>. QED  BY <2>1, <2>2, <2>3, <1>1, Constants DEF InTime
<1>5. round' > 0 => now <= roundAt' + slowest
    BY <1>0, <1>1, TypeTypes DEF Paced
<1>6. Paced'
    BY <1>1, <1>4, <1>5 DEF Paced
<1>. QED  BY <1>2, <1>3, <1>6 DEF PaceInv

LEMMA PaceTick == ASSUME PaceInv, Tick PROVE PaceInv'
PROOF
<1>0. TypeOK /\ Answers /\ Paced /\ SlowMeansSlow
    BY DEF PaceInv
<1>1. /\ at \in Watching /\ wait > 0 /\ now < MaxTime
      /\ now' = now + 1 /\ wait' = wait - 1
      /\ UNCHANGED <<round, roundAt, job, lastRound, progressAt, samples, fetch, failures, polled,
                     answer, at, lost, blind, seen, seenAt>>
    BY DEF Tick, pod, locals
<1>2. /\ slowest' \in Nat /\ slowest <= slowest' /\ slowest' <= now'
      /\ round > 0 => now' <= roundAt + slowest'
    BY <1>0, <1>1, TypeTypes DEF Tick, AtOneRound
<1>3. TypeOK'
    BY <1>0, <1>1, <1>2, Constants DEF TypeOK
<1>4. Answers' /\ SlowMeansSlow'
    BY <1>0, <1>1, TypeTypes DEF Answers, SlowMeansSlow, Watching
<1>5. ASSUME NEW x \in samples PROVE InTime(x)'
    <2>1. x[1] \in Nat /\ x[2] \in Nat /\ round \in Nat /\ roundAt \in Nat /\ slowest \in Nat
        BY <1>0, TypeTypes
    <2>2. InTime(x) /\ x[2] <= round
        BY <1>0 DEF Paced, InTime
    <2>3. /\ (round - x[2]) * slowest \in Nat /\ (round - x[2]) * slowest' \in Nat
          /\ (round - x[2]) * slowest <= (round - x[2]) * slowest'
        BY <2>1, <2>2, <1>2, Times
    <2>. QED  BY <2>1, <2>2, <2>3, <1>1, Constants DEF InTime
<1>6. Paced'
    BY <1>1, <1>2, <1>5 DEF Paced
<1>. QED  BY <1>3, <1>4, <1>6 DEF PaceInv

\* Steps that leave the pod, the clock and the samples alone, and do not call it slow.
LEMMA PaceKept ==
    ASSUME PaceInv, TypeOK', Answers', at' # "slow",
           UNCHANGED <<now, round, roundAt, samples, slowest>>
    PROVE  PaceInv'
PROOF
<1>1. Paced'
    BY DEF PaceInv, Paced, InTime
<1>. QED  BY <1>1 DEF PaceInv, SlowMeansSlow

LEMMA PaceLost == ASSUME PaceInv, PollLost PROVE PaceInv'
PROOF
<1>0. TypeOK /\ Answers
    BY DEF PaceInv
<1>1. /\ at = "poll" /\ wait = 0 /\ lost < MaxLost
      /\ lost' = lost + 1 /\ failures' = failures + 1
      /\ at' = IF failures' >= MaxFailures THEN "unreachable" ELSE "poll"
      /\ fetch' = ~fetch /\ wait' \in 0..LogTakes \cup 0..TurnTakes
      /\ UNCHANGED <<now, round, roundAt, job, lastRound, progressAt, samples, polled, answer,
                     blind, seen, seenAt, slowest>>
    BY TurnIsWait DEF PollLost, Polls, pod, history
<1>2. TypeOK'
    BY <1>0, <1>1, Constants DEF TypeOK, Answers, Outcome, Watching
<1>3. Answers'
    BY <1>0, <1>1, TypeTypes, Constants DEF Answers, Watching
<1>. QED  BY <1>1, <1>2, <1>3, PaceKept

LEMMA PaceStuck == ASSUME PaceInv, PollStuck PROVE PaceInv'
PROOF
<1>1. /\ at' = "stuck"
      /\ UNCHANGED <<now, wait, round, roundAt, job, lastRound, progressAt, samples, fetch,
                     failures, polled, answer, lost, blind, seen, seenAt, slowest>>
    BY DEF PollStuck, locals, pod, history
<1>2. TypeOK' /\ Answers'
    BY <1>1 DEF PaceInv, TypeOK, Answers, Outcome, Watching
<1>. QED  BY <1>1, <1>2, PaceKept

LEMMA PaceStatus == ASSUME PaceInv, PollStatusOnly PROVE PaceInv'
PROOF
<1>1. /\ at' \in {"poll", "completed"}
      /\ failures' = 0 /\ fetch' = TRUE /\ wait' \in 0..LogTakes \cup 0..TurnTakes
      /\ UNCHANGED <<now, round, roundAt, job, lastRound, progressAt, samples, polled, answer,
                     lost, blind, seen, seenAt, slowest>>
    BY TurnIsWait DEF PollStatusOnly, AfterStatus, pod, history
<1>2. TypeOK' /\ Answers'
    BY <1>1, Constants DEF PaceInv, TypeOK, Answers, Outcome, Watching
<1>. QED  BY <1>1, <1>2, PaceKept

LEMMA PaceAsk == ASSUME PaceInv, AskLogs PROVE PaceInv'
PROOF
<1>1. /\ at' = "logs" /\ polled' = now /\ answer' = job
      /\ failures' = 0 /\ fetch' = FALSE /\ wait' \in 0..LogTakes
      /\ UNCHANGED <<now, round, roundAt, job, lastRound, progressAt, samples, lost, blind,
                     seen, seenAt, slowest>>
    BY DEF AskLogs, pod, history
<1>2. TypeOK /\ now \in 0..now /\ now \in Nat
    BY TypeTypes DEF PaceInv
<1>3. TypeOK'
    <2>1. /\ at' \in Watching \cup Outcome /\ wait' \in 0..LogTakes \cup 0..TurnTakes
          /\ failures' \in 0..MaxFailures
        BY <1>1, Constants DEF Watching
    <2>2. fetch' \in BOOLEAN
        BY <1>1
    <2>. QED  BY <1>1, <1>2, <2>1, <2>2 DEF TypeOK
<1>4. Answers'
    BY <1>1, <1>2, Constants DEF Answers, Watching
<1>. QED  BY <1>1, <1>3, <1>4, PaceKept

\* What a sample says of the pace: unless a round has been too long, the rate is
\* not below the detector's.
LEMMA FastEnough ==
    ASSUME NEW s \in Nat, ~TooLong(s), NEW d \in Nat, d >= MinDelta
    PROVE  (d + 1) * s + LogTakes <= d * RoundBudget
PROOF
<1>. DEFINE m == MinDelta
            R == RoundBudget
            e == d - m
<1>1. /\ m \in Nat /\ R \in Nat /\ LogTakes \in Nat /\ e \in Nat /\ d = m + e
      /\ d + 1 = (m + 1) + e
    BY Constants
<1>2. (m + 1) * s + LogTakes <= m * R
    BY <1>1, Times DEF TooLong
<1>. HIDE DEF m, R, e
<1>3. s <= R
    <2>1. CASE s >= R + 1
        <3>1. (m + 1) * (R + 1) <= (m + 1) * s /\ (m + 1) * s \in Nat
            BY <1>1, <2>1
        <3>2. m * R \in Nat /\ (m + 1) * (R + 1) = m * R + m + R + 1
            BY <1>1
        <3>. QED  BY <1>1, <1>2, <3>1, <3>2
    <2>. QED  BY <2>1, <1>1
<1>4. /\ e * s \in Nat /\ e * R \in Nat /\ e * s <= e * R
      /\ (d + 1) * s = (m + 1) * s + e * s /\ d * R = m * R + e * R
      /\ (m + 1) * s \in Nat /\ m * R \in Nat
    BY <1>1, <1>3
<1>5. (d + 1) * s + LogTakes <= d * R
    BY <1>1, <1>2, <1>4
<1>. QED  BY <1>5 DEF R

LEMMA PaceLogs == ASSUME PaceInv, LogsCome PROVE PaceInv'
PROOF
<1>0. TypeOK /\ Answers /\ Paced /\ SlowMeansSlow
    BY DEF PaceInv
<1>1. PICK shown \in {NoRound} \cup ({round} \ {0}) :
         /\ at = "logs" /\ wait = 0
         /\ blind' = (IF shown = NoRound /\ round > 0 THEN blind + 1 ELSE blind)
         /\ blind' <= MaxBlind
         /\ seen' = (IF shown # NoRound /\ shown > seen THEN shown ELSE seen)
         /\ seenAt' = (IF seen' # seen THEN polled ELSE seenAt)
         /\ progressAt' = (IF Progress(shown) THEN polled ELSE progressAt)
         /\ samples' = (IF Progress(shown) THEN Sampled(shown) ELSE samples)
         /\ \/ Progress(shown) /\ TooSlow(samples', shown) /\ at' = "slow" /\ UNCHANGED lastRound
            \/ at' \in {"poll", "completed"} /\ lastRound' = shown
         /\ wait' \in 0..LogTakes \cup 0..TurnTakes
         /\ UNCHANGED <<now, round, roundAt, job, fetch, failures, polled, answer, lost, slowest>>
    BY TurnIsWait DEF LogsCome, AfterStatus, pod
<1>2. shown # NoRound => shown = round /\ round \in 1..Rounds
    BY <1>1, <1>0 DEF TypeOK
<1>3. \A x \in samples' : x \in samples \/ (x = <<polled, round>> /\ shown = round)
    BY <1>1, <1>2 DEF Sampled, Progress
<1>4. TypeOK'
    <2>1. samples' \subseteq (0..now) \X (1..Rounds)
        <3>1. samples \subseteq (0..now) \X (1..Rounds) /\ polled \in 0..now
            BY <1>0 DEF TypeOK
        <3>2. shown = round => round \in 1..Rounds
            BY <1>0, <1>2, TypeTypes, Constants
        <3>. QED  BY <3>1, <3>2, <1>3
    <2>2. /\ lastRound' \in 1..Rounds \cup {NoRound} /\ seen' \in 0..Rounds
          /\ seenAt' \in 0..now /\ progressAt' \in 0..now
        BY <1>0, <1>1, <1>2, TypeTypes, Constants DEF TypeOK
    <2>3. blind' \in 0..MaxBlind
        BY <1>0, <1>1, Constants DEF TypeOK
    <2>4. at' \in Watching \cup Outcome
        BY <1>1 DEF Outcome, Watching
    <2>. QED  BY <2>1, <2>2, <2>3, <2>4, <1>0, <1>1 DEF TypeOK
<1>5. Answers'
    <2>1. failures < MaxFailures
        BY <1>0, <1>1 DEF Answers, Watching
    <2>. QED  BY <2>1, <1>1 DEF Answers, Watching
<1>6. now <= polled + LogTakes /\ polled <= now
    BY <1>0, <1>1, TypeTypes DEF Answers, Watching
<1>7. ASSUME NEW x \in samples'
      PROVE  InTime(x)'
    <2>1. CASE x \in samples
        BY <2>1, <1>0, <1>1 DEF Paced, InTime
    <2>2. CASE x = <<polled, round>>
        <3>1. (round - round) * slowest = 0
            BY <1>0, TypeTypes
        <3>. QED  BY <2>2, <3>1, <1>0, <1>1, <1>6, TypeTypes, Constants DEF InTime
    <2>. QED  BY <2>1, <2>2, <1>3
<1>8. Paced'
    BY <1>0, <1>1, <1>7 DEF Paced
<1>9. ASSUME Progress(shown), TooSlow(samples', shown)
      PROVE  TooLong(slowest)
    <2>1. PICK x \in samples' : /\ polled > x[1] /\ shown >= x[2] + MinDelta
                                /\ (shown - x[2]) * RoundBudget < polled - x[1]
        BY <1>9 DEF TooSlow
    <2>2. shown = round /\ round \in Nat /\ round > 0
        BY <1>2, <1>9, Constants DEF Progress
    <2>3. /\ x[1] \in Nat /\ x[2] \in Nat /\ x[2] <= round
          /\ roundAt <= (x[1] + LogTakes) + (round - x[2]) * slowest
          /\ now \in Nat /\ roundAt \in Nat /\ polled \in Nat /\ slowest \in Nat
        BY <1>0, <1>1, <1>4, <1>7, TypeTypes DEF TypeOK, InTime
    <2>4. now <= roundAt + slowest
        BY <1>0, <2>2 DEF Paced
    <2>. DEFINE d == round - x[2]
    <2>5. d \in Nat /\ d >= MinDelta
        BY <2>1, <2>2, <2>3, Constants
    <2>6. roundAt <= (x[1] + LogTakes) + d * slowest /\ d * RoundBudget < polled - x[1]
        BY <2>1, <2>2, <2>3
    <2>. HIDE DEF d
    <2>7. d * slowest \in Nat /\ d * RoundBudget \in Nat /\ (d + 1) * slowest = d * slowest + slowest
        BY <2>3, <2>5, Times, Constants
    <2>8. ~((d + 1) * slowest + LogTakes <= d * RoundBudget)
        BY <2>3, <2>4, <2>6, <2>7, <1>6, Constants
    <2>. QED  BY <2>3, <2>5, <2>8, FastEnough
<1>10. SlowMeansSlow'
    BY <1>1, <1>9 DEF SlowMeansSlow, TooLong
<1>. QED  BY <1>4, <1>5, <1>8, <1>10 DEF PaceInv

LEMMA PaceInductive == Spec => []PaceInv
PROOF
<1>1. PaceInv /\ UNCHANGED vars => PaceInv'
    BY DEF vars, pod, locals, history, PaceInv, TypeOK, Answers, Paced, InTime, SlowMeansSlow
<1>2. PaceInv /\ [Next]_vars => PaceInv'
    BY <1>1, PacePod, PaceTick, PaceLost, PaceStuck, PaceStatus, PaceAsk, PaceLogs DEF Next
<1>. QED  BY PaceInit, <1>2, PTL DEF Spec

\* Types, whatever the clock, the pod and the network do: in particular the rounds
\* the loop remembers are the pod's, and failures stay within their limit.
THEOREM TypeTheorem == Spec => []TypeOK
PROOF
<1>1. PaceInv => TypeOK
    BY DEF PaceInv
<1>. QED  BY PaceInductive, <1>1, PTL

\* Only a pod that has been too long at one round is called slow, whichever log
\* fetches show nothing or come late and whichever polls are lost, with the samples
\* of any window, and for any gate and rate of the detector.
THEOREM SlowMeansSlowTheorem == Spec => []SlowMeansSlow
PROOF
<1>1. PaceInv => SlowMeansSlow
    BY DEF PaceInv
<1>. QED  BY PaceInductive, <1>1, PTL

-----------------------------------------------------------------------------
(* The LLM circuit breaker, for every length of tail and log, every window,  *)
(* sample minimum and error rate, and whichever fetches fail.                *)

\* What a sample says is what its tail holds: the log only grows behind it.
Truthful(f) ==
    /\ llmSamples[f].upto <= Len(log)
    /\ llmSamples[f] = SampleOf(llmSamples[f].upto)

BreakerInv ==
    /\ BreakerTypeOK
    /\ \A f \in DOMAIN llmSamples : Truthful(f)
    /\ breaker = "open" => Trips(llmSamples)

Less == {ss \in Nat \X Nat : ss[1] < ss[2]}

\* A set of numbers that is not empty has a least one.
LEMMA LeastOf ==
    ASSUME NEW S \in SUBSET Nat, S # {}
    PROVE  \E n \in S : \A m \in S : n <= m
PROOF
<1>1. IsWellFoundedOn(Less, Nat)
    BY NatLessThanWellFounded DEF OpToRel, Less
<1>2. PICK n \in S : \A m \in S : ~ (<<m, n>> \in Less)
    BY <1>1, WFMin
<1>3. ASSUME NEW m \in S
      PROVE  n <= m
    <2>1. n \in Nat /\ m \in Nat /\ <<m, n>> \in Nat \X Nat
        OBVIOUS
    <2>2. ~ (m < n)
        BY <1>2, <2>1 DEF Less
    <2>. QED  BY <2>1, <2>2
<1>. QED  BY <1>3

\* Induction, by descent: there is no endless descent in the natural numbers.
LEMMA Descent ==
    ASSUME NEW S \in SUBSET Nat, \A m \in S : \E k \in S : k < m
    PROVE  S = {}
PROOF
<1>1. ASSUME S # {} PROVE FALSE
    <2>1. PICK n \in S : \A m \in S : n <= m
        BY <1>1, LeastOf
    <2>2. PICK k \in S : k < n
        OBVIOUS
    <2>. QED  BY <2>1, <2>2
<1>. QED  BY <1>1

LEMMA Distribute ==
    ASSUME NEW x \in Nat, NEW y \in Nat, NEW c \in Nat
    PROVE  x * c \in Nat /\ y * c \in Nat /\ (x + y) * c = x * c + y * c
PROOF
    OBVIOUS

\* u[n] is the sum of the first n terms.
Sums(u, t, N) == u \in [0..N -> Nat] /\ u[0] = 0 /\ \A n \in 1..N : u[n] = u[n - 1] + t[n]

LEMMA SumsExist ==
    ASSUME NEW N \in Nat, NEW t \in [1..N -> Nat]
    PROVE  \E u : Sums(u, t, N)
PROOF
<1>. DEFINE Bad == {m \in 0..N : ~ \E u : Sums(u, t, m)}
<1>1. \E u : Sums(u, t, 0)
    <2>. DEFINE u == [n \in 0..0 |-> 0]
    <2>1. u \in [0..0 -> Nat] /\ u[0] = 0 /\ 1..0 = {}
        OBVIOUS
    <2>. HIDE DEF u
    <2>. QED  BY <2>1 DEF Sums
<1>2. ASSUME NEW m \in 1..N, \E u : Sums(u, t, m - 1)
      PROVE  \E u : Sums(u, t, m)
    <2>1. PICK g : Sums(g, t, m - 1)
        BY <1>2
    <2>. DEFINE u == [n \in 0..m |-> IF n = m THEN g[m - 1] + t[m] ELSE g[n]]
    <2>2. /\ m \in Nat /\ m # 0 /\ t[m] \in Nat
          /\ \A n \in 0..m : n # m => n \in 0..(m - 1)
          /\ \A n \in 1..m : n \in 0..m /\ n - 1 \in 0..(m - 1) /\ n - 1 \in 0..m /\ n - 1 # m
          /\ m - 1 \in 0..(m - 1) /\ 0 \in 0..m
          /\ \A n \in 1..m : n # m => n \in 1..(m - 1)
        OBVIOUS
    <2>3. u \in [0..m -> Nat] /\ u[0] = 0
        BY <2>1, <2>2 DEF Sums
    <2>4. ASSUME NEW n \in 1..m
          PROVE  u[n] = u[n - 1] + t[n]
        <3>1. u[n - 1] = g[n - 1]
            BY <2>2
        <3>2. u[n] = IF n = m THEN g[m - 1] + t[m] ELSE g[n]
            BY <2>2
        <3>. QED  BY <3>1, <3>2, <2>1, <2>2 DEF Sums
    <2>. HIDE DEF u
    <2>. QED  BY <2>3, <2>4 DEF Sums
<1>3. ASSUME NEW m \in Bad
      PROVE  \E k \in Bad : k < m
    <2>1. m \in 1..N /\ m - 1 \in 0..N /\ m - 1 < m
        BY <1>1
    <2>. QED  BY <2>1, <1>2
<1>4. Bad = {}
    <2>1. Bad \in SUBSET Nat
        OBVIOUS
    <2>. HIDE DEF Bad
    <2>. QED  BY <2>1, <1>3, Descent
<1>5. N \in 0..N
    OBVIOUS
<1>. QED  BY <1>4, <1>5

Term(count, n) == IF n \in DOMAIN count THEN count[n] ELSE 0

LEMMA TotalSums ==
    ASSUME NEW count, \A f \in DOMAIN count : count[f] \in Nat
    PROVE  \E u : Sums(u, [n \in 1..MaxFetches |-> Term(count, n)], MaxFetches)
                  /\ Total(count) = u[MaxFetches]
PROOF
<1>. DEFINE t == [n \in 1..MaxFetches |-> Term(count, n)]
            Rec(u) == u = [n \in 0..MaxFetches |->
                              IF n = 0 THEN 0
                              ELSE u[n - 1] + (IF n \in DOMAIN count THEN count[n] ELSE 0)]
            upTo == CHOOSE u : Rec(u)
<1>0. MaxFetches \in Nat /\ \A n \in 0..MaxFetches : n # 0 => n \in 1..MaxFetches /\ n - 1 \in 0..MaxFetches
    BY BreakerAssumption
<1>1. t \in [1..MaxFetches -> Nat]
    BY DEF Term
<1>2. PICK g : Sums(g, t, MaxFetches)
    <2>. HIDE DEF t
    <2>. QED  BY <1>0, <1>1, SumsExist
<1>3. Rec(g)
    BY <1>0, <1>2 DEF Sums, Term
<1>4. Rec(upTo)
    <2>. HIDE DEF Rec
    <2>. QED  BY <1>3
<1>5. Total(count) = upTo[MaxFetches]
    BY DEF Total
<1>. HIDE DEF upTo
<1>6. /\ upTo[0] = 0
      /\ \A n \in 1..MaxFetches : upTo[n] = upTo[n - 1] + t[n]
    BY <1>0, <1>4 DEF Term
<1>7. upTo \in [0..MaxFetches -> Nat]
    <2>. DEFINE Bad == {m \in 0..MaxFetches : upTo[m] \notin Nat}
    <2>1. ASSUME NEW m \in Bad PROVE \E k \in Bad : k < m
        <3>1. m \in 1..MaxFetches /\ m - 1 \in 0..MaxFetches /\ m - 1 < m
            BY <1>0, <1>6
        <3>2. t[m] \in Nat
            BY <1>1, <3>1
        <3>. HIDE DEF t
        <3>3. upTo[m - 1] \notin Nat
            BY <3>1, <3>2, <1>6
        <3>. QED  BY <3>1, <3>3
    <2>2. Bad = {}
        <3>1. Bad \in SUBSET Nat
            BY <1>0
        <3>. HIDE DEF Bad
        <3>. QED  BY <3>1, <2>1, Descent
    <2>3. upTo = [n \in 0..MaxFetches |-> upTo[n]]
        BY <1>4
    <2>. QED  BY <2>2, <2>3
<1>. QED  BY <1>5, <1>6, <1>7 DEF Sums

\* x is to y at most as b is to a; so are the terms of s to those of t.
AtMost(x, a, y, b) == x * a <= y * b
AllAtMost(s, a, t, b, N) == \A n \in 1..N : AtMost(s[n], a, t[n], b)

\* A sum is not above another by a rate none of its terms is above.
LEMMA SumsCompare ==
    ASSUME NEW N \in Nat, NEW s \in [1..N -> Nat], NEW t \in [1..N -> Nat], NEW u, NEW v,
           Sums(u, s, N), Sums(v, t, N), NEW a \in Nat, NEW b \in Nat,
           AllAtMost(s, a, t, b, N)
    PROVE  AtMost(u[N], a, v[N], b)
PROOF
<1>. DEFINE Bad == {m \in 0..N : ~(u[m] * a <= v[m] * b)}
<1>1. ASSUME NEW m \in Bad PROVE \E k \in Bad : k < m
    <2>1. m \in 1..N /\ m - 1 \in 0..N /\ m - 1 < m
        BY DEF Sums
    <2>2. /\ u[m] = u[m - 1] + s[m] /\ v[m] = v[m - 1] + t[m]
          /\ u[m - 1] \in Nat /\ v[m - 1] \in Nat /\ s[m] \in Nat /\ t[m] \in Nat
        BY <2>1 DEF Sums
    <2>3. /\ u[m] * a = u[m - 1] * a + s[m] * a
          /\ v[m] * b = v[m - 1] * b + t[m] * b
        <3>1. u[m] * a = (u[m - 1] + s[m]) * a /\ v[m] * b = (v[m - 1] + t[m]) * b
            BY <2>2, Zenon
        <3>. DEFINE p == u[m - 1]
                    q == v[m - 1]
                    x == s[m]
                    y == t[m]
        <3>2. p \in Nat /\ q \in Nat /\ x \in Nat /\ y \in Nat
            BY <2>2
        <3>. HIDE DEF p, q, x, y
        <3>3. (p + x) * a = p * a + x * a /\ (q + y) * b = q * b + y * b
            BY <3>2, Distribute
        <3>. QED  BY <3>1, <3>3, Zenon DEF p, q, x, y
    <2>4. s[m] * a <= t[m] * b
        BY <2>1 DEF AllAtMost, AtMost
    <2>5. /\ u[m - 1] * a \in Nat /\ v[m - 1] * b \in Nat /\ s[m] * a \in Nat /\ t[m] * b \in Nat
        BY <2>2, Distribute
    <2>6. ~(u[m - 1] * a <= v[m - 1] * b)
        <3>1. ~(u[m] * a <= v[m] * b)
            OBVIOUS
        <3>. DEFINE p == u[m - 1] * a
                    q == v[m - 1] * b
                    x == s[m] * a
                    y == t[m] * b
        <3>2. p \in Nat /\ q \in Nat /\ x \in Nat /\ y \in Nat /\ x <= y
            BY <2>4, <2>5
        <3>3. ~(p + x <= q + y)
            BY <3>1, <2>3, Zenon
        <3>. HIDE DEF p, q, x, y
        <3>4. ~(p <= q)
            BY <3>2, <3>3
        <3>. QED  BY <3>4 DEF p, q
    <2>. QED  BY <2>1, <2>6
<1>2. Bad = {}
    <2>1. Bad \in SUBSET Nat
        OBVIOUS
    <2>. HIDE DEF Bad
    <2>. QED  BY <2>1, <1>1, Descent
<1>3. N \in 0..N
    OBVIOUS
<1>. QED  BY <1>2, <1>3 DEF AtMost

LEMMA BreakerFacts ==
    /\ {TailLen, InWindow, MinSamples, ErrorRate, MaxLines, MaxFetches} \subseteq Nat
    /\ TailLen > 0
PROOF
    BY BreakerAssumption

\* The tail of a log is a short sequence of its lines.
LEMMA Tails ==
    ASSUME log \in Seq(Line), NEW n \in 0..Len(log)
    PROVE  /\ TailUpTo(n) \in Seq(Line) /\ Len(TailUpTo(n)) <= TailLen
           /\ \A l \in Line : log' = Append(log, l) => TailUpTo(n)' = TailUpTo(n)
PROOF
<1>. DEFINE m == IF n > TailLen THEN n - TailLen + 1 ELSE 1
<1>1. /\ Len(log) \in Nat /\ n \in Nat /\ m \in Nat /\ m >= 1 /\ m <= n + 1
      /\ n - m + 1 <= TailLen
      /\ \A i \in m..n : i \in 1..Len(log)
    BY BreakerFacts
<1>. HIDE DEF m
<1>2. TailUpTo(n) = SubSeq(log, m, n)
    BY DEF TailUpTo, m
<1>3. SubSeq(log, m, n) \in Seq(Line) /\ Len(SubSeq(log, m, n)) = n - m + 1
    BY <1>1
<1>4. ASSUME NEW l \in Line, log' = Append(log, l)
      PROVE  TailUpTo(n)' = TailUpTo(n)
    <2>1. TailUpTo(n)' = SubSeq(Append(log, l), m, n)
        BY <1>4 DEF TailUpTo, m
    <2>2. SubSeq(Append(log, l), m, n) = SubSeq(log, m, n)
        BY <1>1
    <2>. QED  BY <1>2, <2>1, <2>2
<1>. QED  BY <1>1, <1>2, <1>3, <1>4, BreakerFacts

\* The counts of a tail.
LEMMA Counts ==
    ASSUME NEW s \in Seq(Line), Len(s) <= TailLen
    PROVE  /\ Cardinality(LlmLines(s)) \in 0..TailLen
           /\ Cardinality(ErrorLines(s)) \in 0..TailLen
           /\ LlmLines(s) # {} => Cardinality(LlmLines(s)) > 0
PROOF
<1>1. DOMAIN s = 1..Len(s) /\ Len(s) \in Nat
    OBVIOUS
<1>2. IsFiniteSet(1..Len(s)) /\ Cardinality(1..Len(s)) = Len(s)
    <2>. DEFINE n == Len(s)
    <2>1. n \in Nat /\ 1 \in Int /\ n \in Int
        BY <1>1
    <2>. HIDE DEF n
    <2>2. IsFiniteSet(1..n) /\ Cardinality(1..n) = IF 1 > n THEN 0 ELSE n - 1 + 1
        BY <2>1, FS_Interval, Zenon
    <2>3. IsFiniteSet(1..n) /\ Cardinality(1..n) = n
        BY <2>1, <2>2
    <2>. QED  BY <2>3 DEF n
<1>3. ASSUME NEW T \in SUBSET (1..Len(s))
      PROVE  IsFiniteSet(T) /\ Cardinality(T) \in 0..TailLen
    <2>1. IsFiniteSet(T) /\ Cardinality(T) <= Len(s) /\ Cardinality(T) \in Nat
        BY <1>2, FS_Subset, FS_CardinalityType
    <2>. QED  BY <1>1, <2>1, BreakerFacts
<1>4. LlmLines(s) \in SUBSET (1..Len(s)) /\ ErrorLines(s) \in SUBSET (1..Len(s))
    BY <1>1 DEF LlmLines, ErrorLines
<1>5. LlmLines(s) # {} => Cardinality(LlmLines(s)) # 0
    BY <1>3, <1>4, FS_EmptySet
<1>. QED  BY <1>3, <1>4, <1>5

LEMMA BreakerInitInv == BreakerInit => BreakerInv
PROOF
<1>. SUFFICES ASSUME BreakerInit PROVE BreakerInv
    OBVIOUS
<1>1. log \in Seq(Line) /\ Len(log) = 0 /\ DOMAIN llmSamples = {} /\ breaker = "closed"
    BY DEF BreakerInit
<1>2. 0 \in 0..MaxFetches
    BY BreakerFacts
<1>. QED  BY <1>1, <1>2, BreakerFacts DEF BreakerInit, BreakerInv, BreakerTypeOK

LEMMA PodLogsStep == ASSUME BreakerInv, PodLogs PROVE BreakerInv'
PROOF
<1>0. /\ log \in Seq(Line) /\ Len(log) <= MaxLines
    BY DEF BreakerInv, BreakerTypeOK
<1>1. PICK line \in Line : log' = Append(log, line) /\ Len(log) < MaxLines
    BY DEF PodLogs
<1>2. UNCHANGED <<llmSamples, fetches, breaker>>
    BY DEF PodLogs
<1>3. log' \in Seq(Line) /\ Len(log') = Len(log) + 1 /\ Len(log') <= MaxLines
    BY <1>0, <1>1, BreakerFacts
<1>4. BreakerTypeOK'
    BY <1>2, <1>3 DEF BreakerInv, BreakerTypeOK
<1>5. ASSUME NEW f \in DOMAIN llmSamples
      PROVE  Truthful(f)'
    <2>1. /\ llmSamples[f].upto \in 0..Len(log)
          /\ llmSamples[f] = SampleOf(llmSamples[f].upto)
        BY <1>0 DEF BreakerInv, BreakerTypeOK, Sample, Truthful
    <2>2. TailUpTo(llmSamples[f].upto)' = TailUpTo(llmSamples[f].upto)
        BY <1>0, <1>1, <1>2, <2>1, Tails
    <2>. QED  BY <1>0, <1>2, <1>3, <2>1, <2>2 DEF SampleOf, Truthful
<1>6. breaker = "open" => Trips(llmSamples)
    BY DEF BreakerInv
<1>. QED  BY <1>2, <1>4, <1>5, <1>6 DEF BreakerInv

LEMMA FetchStep == ASSUME BreakerInv, Fetch PROVE BreakerInv'
PROOF
<1>0. BreakerTypeOK
    BY DEF BreakerInv
<1>1. PICK n \in {0, Len(log)} : llmSamples' = Recent(WithSample(llmSamples, n))
    BY DEF Fetch
<1>2. /\ fetches < MaxFetches /\ fetches' = fetches + 1 /\ UNCHANGED log
      /\ breaker' = IF Trips(llmSamples') THEN "open" ELSE "closed"
    BY DEF Fetch
<1>3. n \in 0..Len(log) /\ Len(log) \in Nat /\ Len(log) <= MaxLines /\ fetches \in Nat
    BY <1>0, BreakerFacts DEF BreakerTypeOK
<1>4. LlmLines(TailUpTo(n)) # {} => SampleOf(n) \in Sample /\ SampleOf(n).upto = n
    <2>1. n \in 0..MaxLines
        BY <1>3, BreakerFacts
    <2>2. TailUpTo(n) \in Seq(Line) /\ Len(TailUpTo(n)) <= TailLen
        BY <1>0, <1>3, Tails DEF BreakerTypeOK
    <2>3. /\ Cardinality(LlmLines(TailUpTo(n))) \in 0..TailLen
          /\ Cardinality(ErrorLines(TailUpTo(n))) \in 0..TailLen
          /\ LlmLines(TailUpTo(n)) # {} => Cardinality(LlmLines(TailUpTo(n))) > 0
        BY <2>2, Counts
    <2>4. LlmLines(TailUpTo(n)) # {} => Cardinality(LlmLines(TailUpTo(n))) \in 1..TailLen
        BY <2>3, BreakerFacts
    <2>. QED  BY <2>1, <2>3, <2>4 DEF SampleOf, Sample
<1>5. ASSUME NEW f \in DOMAIN llmSamples'
      PROVE  /\ f \in 1..fetches'
             /\ \/ f \in DOMAIN llmSamples /\ llmSamples'[f] = llmSamples[f]
                \/ llmSamples'[f] = SampleOf(n) /\ LlmLines(TailUpTo(n)) # {}
    <2>1. f \in DOMAIN WithSample(llmSamples, n)
          /\ llmSamples'[f] = WithSample(llmSamples, n)[f]
        BY <1>1 DEF Recent, Restrict
    <2>2. f \in DOMAIN llmSamples => f \in 1..fetches'
        BY <1>0, <1>2, <1>3 DEF BreakerTypeOK
    <2>3. fetches + 1 \in 1..fetches'
        BY <1>2, <1>3
    <2>. QED  BY <2>1, <2>2, <2>3 DEF WithSample
<1>6. BreakerTypeOK'
    <2>1. fetches' \in 0..MaxFetches
        BY <1>0, <1>2, BreakerFacts DEF BreakerTypeOK
    <2>2. \A f \in DOMAIN llmSamples' : llmSamples'[f] \in Sample
        BY <1>0, <1>4, <1>5 DEF BreakerTypeOK
    <2>. QED  BY <1>0, <1>2, <1>5, <2>1, <2>2 DEF BreakerTypeOK
<1>7. ASSUME NEW f \in DOMAIN llmSamples'
      PROVE  Truthful(f)'
    <2>1. CASE f \in DOMAIN llmSamples /\ llmSamples'[f] = llmSamples[f]
        <3>1. Truthful(f)
            BY <2>1 DEF BreakerInv
        <3>. QED  BY <1>2, <2>1, <3>1 DEF Truthful, SampleOf, TailUpTo
    <2>2. CASE llmSamples'[f] = SampleOf(n) /\ LlmLines(TailUpTo(n)) # {}
        <3>1. llmSamples'[f].upto = n
            BY <2>2, <1>4
        <3>2. n <= Len(log)
            BY <1>3
        <3>. QED  BY <1>2, <2>2, <3>1, <3>2 DEF Truthful, SampleOf, TailUpTo
    <2>. QED  BY <1>5, <2>1, <2>2
<1>8. breaker' = "open" => Trips(llmSamples)'
    BY <1>2 DEF Trips, Errors, Lines, Total
<1>. QED  BY <1>6, <1>7, <1>8 DEF BreakerInv

LEMMA BreakerInductive == BreakerSpec => []BreakerInv
PROOF
<1>1. BreakerInv /\ UNCHANGED breakerVars => BreakerInv'
    BY DEF breakerVars, BreakerInv, BreakerTypeOK, Truthful, SampleOf, TailUpTo, Trips, Errors, Lines, Total
<1>2. BreakerInv /\ [BreakerNext]_breakerVars => BreakerInv'
    BY <1>1, PodLogsStep, FetchStep DEF BreakerNext
<1>. QED  BY BreakerInitInv, <1>2, PTL DEF BreakerSpec

\* The fetches still held are numbered, and each sample counts lines of one tail.
THEOREM BreakerTypeTheorem == BreakerSpec => []BreakerTypeOK
PROOF
<1>1. BreakerInv => BreakerTypeOK
    BY DEF BreakerInv
<1>. QED  BY BreakerInductive, <1>1, PTL

\* An open breaker still holds a sample whose own tail the errors dominated: a sum
\* is not above another by a rate that none of its terms is above.
THEOREM DominatedTailTheorem == BreakerSpec => []DominatedTail
PROOF
<1>1. ASSUME BreakerInv, breaker = "open",
             \A f \in DOMAIN llmSamples : ~(llmSamples[f].errors * 100 > llmSamples[f].lines * ErrorRate)
      PROVE  FALSE
    <2>. DEFINE E == [f \in DOMAIN llmSamples |-> llmSamples[f].errors]
                L == [f \in DOMAIN llmSamples |-> llmSamples[f].lines]
                s == [n \in 1..MaxFetches |-> Term(E, n)]
                t == [n \in 1..MaxFetches |-> Term(L, n)]
    <2>1. \A f \in DOMAIN llmSamples : /\ llmSamples[f].errors \in Nat
                                       /\ llmSamples[f].lines \in Nat
        BY <1>1, BreakerFacts DEF BreakerInv, BreakerTypeOK, Sample
    <2>2. /\ \A f \in DOMAIN E : E[f] \in Nat
          /\ \A f \in DOMAIN L : L[f] \in Nat
        BY <2>1
    <2>3. s \in [1..MaxFetches -> Nat] /\ t \in [1..MaxFetches -> Nat]
        BY <2>1 DEF Term
    <2>4. \A n \in 1..MaxFetches : s[n] * 100 <= t[n] * ErrorRate
        <3>. SUFFICES ASSUME NEW n \in 1..MaxFetches
                      PROVE  s[n] * 100 <= t[n] * ErrorRate
            OBVIOUS
        <3>1. CASE n \in DOMAIN llmSamples
            <4>1. s[n] = llmSamples[n].errors /\ t[n] = llmSamples[n].lines
                BY <3>1 DEF Term
            <4>2. llmSamples[n].errors * 100 <= llmSamples[n].lines * ErrorRate
                BY <1>1, <2>1, <3>1, BreakerFacts
            <4>. QED  BY <4>1, <4>2, Zenon
        <3>2. CASE n \notin DOMAIN llmSamples
            BY <3>2, BreakerFacts DEF Term
        <3>. QED  BY <3>1, <3>2
    <2>5. PICK u : Sums(u, s, MaxFetches) /\ Total(E) = u[MaxFetches]
        <3>. HIDE DEF E
        <3>. QED  BY <2>2, TotalSums
    <2>6. PICK v : Sums(v, t, MaxFetches) /\ Total(L) = v[MaxFetches]
        <3>. HIDE DEF L
        <3>. QED  BY <2>2, TotalSums
    <2>7. MaxFetches \in Nat /\ 100 \in Nat /\ ErrorRate \in Nat
        BY BreakerFacts
    <2>8. Total(E) * 100 <= Total(L) * ErrorRate
        <3>. HIDE DEF s, t, E, L
        <3>1. Sums(u, s, MaxFetches) /\ Sums(v, t, MaxFetches)
            BY <2>5, <2>6
        <3>2. AllAtMost(s, 100, t, ErrorRate, MaxFetches)
            BY <2>4 DEF AllAtMost, AtMost
        <3>3. AtMost(u[MaxFetches], 100, v[MaxFetches], ErrorRate)
            BY <2>3, <2>7, <3>1, <3>2, SumsCompare
        <3>4. u[MaxFetches] = Total(E) /\ v[MaxFetches] = Total(L)
            BY <2>5, <2>6
        <3>. QED  BY <3>3, <3>4, Zenon DEF AtMost
    <2>9. Total(E) \in Nat /\ Total(L) \in Nat
        BY <2>5, <2>6, <2>7 DEF Sums
    <2>10. Total(E) * 100 > Total(L) * ErrorRate
        BY <1>1 DEF BreakerInv, Trips, Errors, Lines
    <2>. HIDE DEF E, L
    <2>. QED  BY <2>7, <2>8, <2>9, <2>10
<1>2. ASSUME BreakerInv, breaker = "open"
      PROVE  \E f \in DOMAIN llmSamples :
                LET tail == TailUpTo(llmSamples[f].upto)
                IN  Cardinality(ErrorLines(tail)) * 100 > Cardinality(LlmLines(tail)) * ErrorRate
    <2>1. PICK f \in DOMAIN llmSamples : llmSamples[f].errors * 100 > llmSamples[f].lines * ErrorRate
        BY <1>1, <1>2
    <2>2. llmSamples[f] = SampleOf(llmSamples[f].upto)
        BY <1>2 DEF BreakerInv, Truthful
    <2>3. /\ llmSamples[f].errors = Cardinality(ErrorLines(TailUpTo(llmSamples[f].upto)))
          /\ llmSamples[f].lines = Cardinality(LlmLines(TailUpTo(llmSamples[f].upto)))
        BY <2>2 DEF SampleOf
    <2>. QED  BY <2>1, <2>3
<1>3. BreakerInv => DominatedTail
    BY <1>2 DEF DominatedTail
<1>. QED  BY BreakerInductive, <1>3, PTL

=============================================================================
