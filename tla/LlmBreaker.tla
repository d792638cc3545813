----------------------------- MODULE LlmBreaker -----------------------------
(***************************************************************************)
(* The LLM error-rate circuit breaker inside poll_until_complete, next to  *)
(* the pipeline whose log it reads.  Each fetch returns the last lines of  *)
(* the log, so fetches overlap; and of the pipeline's LLM calls only those *)
(* that hit an error leave a line: the client logs "llm.chat transient     *)
(* error" and nothing for a call that succeeds.                            *)
(***************************************************************************)
EXTENDS Naturals, FiniteSets, Sequences, Functions

CONSTANTS TailLen,      \* lines in a fetch
          InWindow,     \* fetches that lie within LLM_CIRCUIT_BREAKER_WINDOW_S
          MinSamples,   \* LLM_CIRCUIT_BREAKER_MIN_SAMPLES
          ErrorRate,    \* LLM_CIRCUIT_BREAKER_ERROR_RATE, in percent
          MaxLines, MaxFetches   \* bounds

ASSUME BreakerAssumption ==
    /\ TailLen \in Nat \ {0} /\ InWindow \in Nat \ {0} /\ MinSamples \in Nat \ {0}
    /\ ErrorRate \in 0..100 /\ {MaxLines, MaxFetches} \subseteq Nat

VARIABLES
    log,         \* the pipeline's log
    llmSamples,  \* _llm_samples: a function from the fetches it still holds
    fetches,
    breaker      \* "closed" or "open"

breakerVars == <<log, llmSamples, fetches, breaker>>

Line == {"error", "round", "other"}

LlmLines(s) == {i \in DOMAIN s : s[i] \in {"error", "round"}}
ErrorLines(s) == {i \in DOMAIN s : s[i] = "error"}

\* A sample: its two counts, and (for the properties) the tail it was taken from,
\* which ends at line `upto' of the log.
Sample == [errors : 0..TailLen, lines : 1..TailLen, upto : 0..MaxLines]

BreakerTypeOK ==
    /\ log \in Seq(Line) /\ Len(log) <= MaxLines
    /\ fetches \in 0..MaxFetches
    /\ DOMAIN llmSamples \subseteq 1..fetches
    /\ \A f \in DOMAIN llmSamples : llmSamples[f] \in Sample
    /\ breaker \in {"closed", "open"}

BreakerInit ==
    log = <<>> /\ llmSamples = [f \in {} |-> {}] /\ fetches = 0 /\ breaker = "closed"

-----------------------------------------------------------------------------
\* A failed attempt, the end of a round, or anything else the pipeline prints.
PodLogs ==
    /\ Len(log) < MaxLines
    /\ \E line \in Line : log' = Append(log, line)
    /\ UNCHANGED <<llmSamples, fetches, breaker>>

TailUpTo(n) == SubSeq(log, IF n > TailLen THEN n - TailLen + 1 ELSE 1, n)

SampleOf(n) == [errors |-> Cardinality(ErrorLines(TailUpTo(n))),
                lines |-> Cardinality(LlmLines(TailUpTo(n))), upto |-> n]

WithSample(s, n) ==
    IF LlmLines(TailUpTo(n)) = {} THEN s
    ELSE [f \in DOMAIN s \cup {fetches + 1} |-> IF f \in DOMAIN s THEN s[f] ELSE SampleOf(n)]

Recent(s) == Restrict(s, {f \in DOMAIN s : f + InWindow > fetches + 1})

\* The sum of a count over the fetches it is there for, oldest first.
Total(count) ==
    LET upTo[n \in 0..MaxFetches] ==
            IF n = 0 THEN 0
            ELSE upTo[n - 1] + (IF n \in DOMAIN count THEN count[n] ELSE 0)
    IN  upTo[MaxFetches]

Errors(s) == Total([f \in DOMAIN s |-> s[f].errors])
Lines(s) == Total([f \in DOMAIN s |-> s[f].lines])

\* Mutant: the rate is taken of the newest sample's lines.
TripsOnNewest(s) ==
    /\ Lines(s) >= MinSamples
    /\ \E f \in DOMAIN s : /\ \A g \in DOMAIN s : g <= f
                           /\ Errors(s) * 100 > s[f].lines * ErrorRate

Trips(s) ==
    Lines(s) >= MinSamples /\ Errors(s) * 100 > Lines(s) * ErrorRate

\* A fetch that fails returns no lines: time goes by and samples age out.
Fetch ==
    /\ breaker = "closed" /\ fetches < MaxFetches
    /\ \E n \in {0, Len(log)} : llmSamples' = Recent(WithSample(llmSamples, n))
    /\ breaker' = IF Trips(llmSamples') THEN "open" ELSE "closed"
    /\ fetches' = fetches + 1
    /\ UNCHANGED log

BreakerNext == PodLogs \/ Fetch

BreakerSpec == BreakerInit /\ [][BreakerNext]_breakerVars

-----------------------------------------------------------------------------
(* Properties.                                                               *)

\* However the fetches overlap, age out or fail: the breaker trips only if one
\* of the tails it still counts was itself dominated by errors.
DominatedTail ==
    breaker = "open" => \E f \in DOMAIN llmSamples :
        LET tail == TailUpTo(llmSamples[f].upto)
        IN  Cardinality(ErrorLines(tail)) * 100 > Cardinality(LlmLines(tail)) * ErrorRate

=============================================================================
