---------------------------- MODULE PollWatchdog ----------------------------
(***************************************************************************)
(* The round watchdog and the slow-pod detector inside poll_until_complete,*)
(* next to the pod they judge.  They see the pod's rounds only through the *)
(* last twenty lines of its log, fetched on every second poll and judged   *)
(* by the time at which that poll's /status was answered; the clock goes   *)
(* on through every request and when polls are lost.                       *)
(*                                                                         *)
(* Module SubmitPoll has the rest of the loop.                             *)
(***************************************************************************)
EXTENDS Naturals

CONSTANTS NoRound,      \* no round line in the tail, or no tail
          Stuck,        \* stuck_threshold_s
          Window,       \* SLOW_POD_WINDOW_S
          MinDelta,     \* SLOW_POD_MIN_ROUND_DELTA
          RoundBudget,  \* time for one round at min_rounds_per_min
          MaxFailures,  \* MAX_CONSECUTIVE_POLL_FAILURES
          Interval,     \* poll_interval
          LogTakes,     \* from the answer of /status until the pod answers
                        \* /logs: callbacks and request, at most
          TurnTakes,    \* from there, or from a poll that needs no log or is
                        \* lost, until the next /status is answered or given
                        \* up: chat, database, sleep and request, at most
          MaxLost,      \* bound: polls lost in all
          MaxBlind,     \* bound: fetches that show no round in all
          MinPace,      \* a round takes at least this long
          Rounds,       \* bound: rounds of the simulation
          MaxTime       \* bound: the clock stops here

ASSUME WatchdogAssumption ==
    /\ {Stuck, Window, MinDelta, RoundBudget, LogTakes, TurnTakes,
        MaxLost, MaxBlind, Rounds, MaxTime} \subseteq Nat
    /\ {MaxFailures, Interval, MinPace} \subseteq Nat \ {0}
    /\ Interval <= TurnTakes
    /\ NoRound \notin Nat

VARIABLES
    now, wait,           \* the clock; time until the loop's next answer
    round, roundAt, job, \* the pod: its round, since when, its status
    lastRound, progressAt, samples, fetch, failures,
                         \* the locals of poll_until_complete; fetch: the next
                         \* poll is an even one
    polled, answer,      \* now_mono and job_status of a poll that fetches logs
    at,                  \* "poll" or "logs", or how the loop ended
    lost, blind,         \* counts for the bounds
    seen, seenAt,        \* history: the highest round shown so far, and by the
                         \* poll of what time
    slowest              \* history: the longest the pod has been at one round

history == <<seen, seenAt, slowest>>
pod == <<round, roundAt, job>>
locals == <<lastRound, progressAt, samples, fetch, failures, polled, answer>>
vars == <<now, wait, pod, locals, at, lost, blind, history>>

Watching == {"poll", "logs"}
Outcome == {"stuck", "slow", "unreachable", "completed"}
Status == {"running", "completed"}

TypeOK ==
    /\ now \in 0..MaxTime /\ wait \in 0..LogTakes \cup 0..TurnTakes
    /\ round \in 0..Rounds /\ roundAt \in 0..now /\ job \in Status
    /\ lastRound \in 1..Rounds \cup {NoRound} /\ progressAt \in 0..now
    /\ samples \subseteq (0..now) \X (1..Rounds)
    /\ fetch \in BOOLEAN /\ failures \in 0..MaxFailures
    /\ polled \in 0..now /\ answer \in Status
    /\ at \in Watching \cup Outcome
    /\ lost \in 0..MaxLost /\ blind \in 0..MaxBlind
    /\ seen \in 0..Rounds /\ seenAt \in 0..now /\ slowest \in 0..now

Init ==
    /\ now = 0 /\ wait = Interval
    /\ round = 0 /\ roundAt = 0 /\ job = "running"
    /\ lastRound = NoRound /\ progressAt = 0 /\ samples = {}
    /\ fetch = TRUE /\ failures = 0 /\ polled = 0 /\ answer = "running"
    /\ at = "poll" /\ lost = 0 /\ blind = 0
    /\ seen = 0 /\ seenAt = 0 /\ slowest = 0

-----------------------------------------------------------------------------
(* The pod.  Getting ready for the first round may take any time; after that *)
(* a round, and what follows the last one, takes MinPace or longer.          *)

PodAdvances ==
    /\ at \in Watching /\ job = "running" /\ now - roundAt >= MinPace
    /\ IF round < Rounds
       THEN round' = round + 1 /\ roundAt' = now /\ UNCHANGED job
       ELSE job' = "completed" /\ UNCHANGED <<round, roundAt>>
    /\ UNCHANGED <<now, wait, locals, at, lost, blind, history>>

\* A pod whose end no poll has seen counts as still at its last round.
AtOneRound == IF round = 0 THEN 0 ELSE now' - roundAt

Tick ==
    /\ at \in Watching /\ wait > 0 /\ now < MaxTime
    /\ now' = now + 1 /\ wait' = wait - 1
    /\ slowest' = IF AtOneRound > slowest THEN AtOneRound ELSE slowest
    /\ UNCHANGED <<pod, locals, at, lost, blind, seen, seenAt>>

-----------------------------------------------------------------------------
(* A poll.                                                                   *)

Polls == at = "poll" /\ wait = 0

NextTurn == wait' \in Interval..TurnTakes

\* /status does not answer: the rest of the iteration is skipped.
PollLost ==
    /\ Polls /\ lost < MaxLost
    /\ lost' = lost + 1
    /\ failures' = failures + 1
    /\ at' = IF failures' >= MaxFailures THEN "unreachable" ELSE "poll"
    /\ fetch' = ~fetch
    /\ NextTurn
    /\ UNCHANGED <<now, pod, lastRound, progressAt, samples, polled, answer, blind, history>>

\* The watchdog looks at what the polls before this one have shown.
Stalled == lastRound # NoRound /\ now - progressAt > Stuck

PollStuck ==
    /\ Polls /\ Stalled
    /\ at' = "stuck"
    /\ UNCHANGED <<now, wait, pod, locals, lost, blind, history>>

AfterStatus(status) == IF status = "completed" THEN "completed" ELSE "poll"

\* An odd poll fetches no log.
PollStatusOnly ==
    /\ Polls /\ ~Stalled /\ ~fetch
    /\ at' = AfterStatus(job)
    /\ failures' = 0 /\ fetch' = TRUE /\ NextTurn
    /\ UNCHANGED <<now, pod, lastRound, progressAt, samples, polled, answer, lost, blind, history>>

\* The time and the status are those of the answer, whenever the log comes.
AskLogs ==
    /\ Polls /\ ~Stalled /\ fetch
    /\ at' = "logs" /\ polled' = now /\ answer' = job
    /\ failures' = 0 /\ fetch' = FALSE /\ wait' \in 0..LogTakes
    /\ UNCHANGED <<now, pod, lastRound, progressAt, samples, lost, blind, history>>

\* Mutant: the first round shown is no progress.
ProgressFromSecond(shown) ==
    shown # NoRound /\ lastRound # NoRound /\ shown > lastRound

\* Mutant: a repeated line is progress.
ProgressByRepeat(shown) ==
    shown # NoRound /\ (lastRound = NoRound \/ shown >= lastRound)

\* After a fetch that showed nothing, every round is.
Progress(shown) ==
    shown # NoRound /\ (lastRound = NoRound \/ shown > lastRound)

\* The deque drops from its old end: of samples in order of time, every one that
\* is too old.
Sampled(shown) == {s \in samples \cup {<<polled, shown>>} : s[1] + Window >= polled}

\* Mutant: two samples are enough, however few rounds there are between them.
TooSlowUngated(s, shown) ==
    \E oldest \in s :
        /\ \A x \in s : oldest[1] <= x[1]
        /\ polled > oldest[1] /\ shown > oldest[2]
        /\ (shown - oldest[2]) * RoundBudget < polled - oldest[1]

\* The newest sample, of this poll, against the oldest one left.
TooSlow(s, shown) ==
    \E oldest \in s :
        /\ \A x \in s : oldest[1] <= x[1]
        /\ polled > oldest[1] /\ shown >= oldest[2] + MinDelta
        /\ (shown - oldest[2]) * RoundBudget < polled - oldest[1]

\* The pod answers with the tail it has by then, or the fetch fails; the way back
\* is part of the next turn.
LogsCome ==
    /\ at = "logs" /\ wait = 0
    /\ \E shown \in {NoRound} \cup ({round} \ {0}) :
          /\ blind' = IF shown = NoRound /\ round > 0 THEN blind + 1 ELSE blind
          /\ blind' <= MaxBlind
          /\ seen' = IF shown # NoRound /\ shown > seen THEN shown ELSE seen
          /\ seenAt' = IF seen' # seen THEN polled ELSE seenAt
          /\ progressAt' = IF Progress(shown) THEN polled ELSE progressAt
          /\ samples' = IF Progress(shown) THEN Sampled(shown) ELSE samples
          /\ IF Progress(shown) /\ TooSlow(samples', shown)
             THEN at' = "slow" /\ UNCHANGED lastRound
             ELSE at' = AfterStatus(answer) /\ lastRound' = shown
    /\ NextTurn
    /\ UNCHANGED <<now, pod, fetch, failures, polled, answer, lost, slowest>>

Next ==
    \/ PodAdvances \/ Tick
    \/ PollLost \/ PollStuck \/ PollStatusOnly \/ AskLogs \/ LogsCome

Spec == Init /\ [][Next]_vars

-----------------------------------------------------------------------------
(* Properties.                                                               *)

\* So long at one round that the detector may call the pod slow: at MinDelta
\* rounds from its oldest sample, with the newest round not over and the oldest
\* sample as late as a log fetch makes it.
TooLong(d) == (MinDelta + 1) * d + LogTakes > MinDelta * RoundBudget

\* A pod that has never been as long as that at one round is not called slow,
\* whatever log fetches show nothing or come late, and whatever polls are lost.
SlowMeansSlow == at = "slow" => TooLong(slowest)

\* Time before the first round, and time in which rounds rise, does not count
\* as being stuck.
StuckMeansStalled == at = "stuck" => now - seenAt > Stuck

\* "Sees no advance in the max observed round=N value for this long": the loop
\* does not go on after that, but for an outage it can sit out.  Without the
\* condition on blind fetches this is false: one of them makes the watchdog
\* start over.
StuckIsNoticed ==
    (at \in Watching /\ seen > 0 /\ blind = 0) =>
        now - seenAt <= Stuck + LogTakes + MaxFailures * TurnTakes

=============================================================================
