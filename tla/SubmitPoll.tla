----------------------------- MODULE SubmitPoll -----------------------------
(***************************************************************************)
(* submit_and_poll and poll_until_complete against the worker API of one   *)
(* pod, over an HTTP proxy that loses requests and replies, and the        *)
(* workflow's inner loop that runs the activity again on the same pod when *)
(* the pod could not be reached.                                           *)
(*                                                                         *)
(* Detectors that look at the pod's log (stuck, slow pod, LLM errors) end  *)
(* a poll with an error of their own; module PollWatchdog has them.        *)
(***************************************************************************)
EXTENDS PodWorker

CONSTANTS MaxPolls,        \* max_polls, the tier's timeout in polls
          MaxFailures,     \* MAX_CONSECUTIVE_POLL_FAILURES
          MaxUnreachable   \* POD_UNREACHABLE_MAX_RETRIES

ASSUME PollAssumption ==
    /\ MaxPolls \in Nat \ {0} /\ MaxFailures \in Nat \ {0}
    /\ MaxUnreachable \in Nat

VARIABLES
    at,        \* where the activity is, or how it ended
    copy,      \* is a copy of its last POST still on the way
    polls, failures,
    entries,   \* the workflow's unreachable_attempt
    answer,    \* what the poll that found the job completed brought
    saved,     \* what _save_job_results and finalization have written
    outage     \* history: calls in a row that got no answer

clientVars == <<at, copy, polls, failures, entries, answer, saved, outage>>
vars == <<podVars, clientVars>>

Ended == {"returned", "unreachable", "timeout", "worker_failed",
          "detector", "error"}

TypeOK ==
    /\ PodTypeOK
    /\ at \in {"entry", "post", "poll", "save"} \cup Ended
    /\ copy \in BOOLEAN
    /\ polls \in 0..MaxPolls /\ failures \in 0..MaxFailures
    /\ entries \in 0..MaxUnreachable
    /\ {answer, saved} \subseteq [chat : Nat, simdata : BOOLEAN]
    /\ outage \in Nat

Init ==
    /\ PodInit
    /\ at = "entry" /\ copy = FALSE
    /\ polls = 0 /\ failures = 0 /\ entries = 0
    /\ answer = NoResult /\ saved = NoResult /\ outage = 0

-----------------------------------------------------------------------------
(* Entry: look at the pod first, so that running the activity again does no  *)
(* harm.                                                                     *)

Answered   == outage' = 0
Unanswered == outage' = outage + 1

\* Mutant: a completed pod is given the job again.
ResumesOnlyRunning == {"running"}

Resumes == {"running", "completed"}

EntryAnswered ==
    /\ at = "entry" /\ Answered
    /\ at' = IF worker \in Resumes THEN "poll" ELSE "post"
    /\ UNCHANGED <<podVars, copy, polls, failures, entries, answer, saved>>

\* "unknown" counts as running.
EntryUnanswered ==
    /\ at = "entry" /\ Unanswered
    /\ at' = "poll"
    /\ UNCHANGED <<podVars, copy, polls, failures, entries, answer, saved>>

PostAnswered ==
    /\ at = "post" /\ Answered
    /\ Accepts \/ Conflict
    /\ copy' \in BOOLEAN
    /\ at' = "poll"
    /\ UNCHANGED <<polls, failures, entries, answer, saved>>

\* An error reply with an empty body, from the proxy: taken for "already
\* running".
PostBlankReply ==
    /\ at = "post" /\ Answered
    /\ Accepts \/ UNCHANGED podVars
    /\ copy' \in BOOLEAN
    /\ at' = "poll"
    /\ UNCHANGED <<polls, failures, entries, answer, saved>>

\* No reply, or a reply that is an error: the activity raises, although the
\* request may have arrived.
PostFails ==
    /\ at = "post" /\ outage' \in {0, outage + 1}
    /\ Accepts \/ AcceptsInVain \/ UNCHANGED podVars
    /\ at' = "error"
    /\ UNCHANGED <<copy, polls, failures, entries, answer, saved>>

\* The proxy sends the POST again: long before a pipeline can have come to its
\* end, before it has answered another call, and not after an outage.
CopyArrives ==
    /\ copy /\ at = "poll" /\ worker # "completed"
    /\ Accepts \/ Conflict
    /\ copy' = FALSE
    /\ UNCHANGED <<at, polls, failures, entries, answer, saved, outage>>

-----------------------------------------------------------------------------
(* The poll loop: a for loop over max_polls whose else branch is the timeout.*)

\* Mutant: a success does not clear the count.
KeepsCounting == failures

AfterAnswer == 0

LastPoll == polls + 1 = MaxPolls

PollAnswered ==
    /\ at = "poll" /\ Answered
    /\ copy' = FALSE
    /\ polls' = polls + 1
    /\ failures' = AfterAnswer
    /\ at' = CASE worker = "completed" -> "save"
               [] worker = "failed" -> "worker_failed"
               [] OTHER -> IF LastPoll THEN "timeout" ELSE "poll"
    /\ answer' = result
    /\ UNCHANGED <<podVars, entries, saved>>

\* A detector raises before the status of the pod is looked at.
PollTrips ==
    /\ at = "poll" /\ Answered /\ starts
    /\ copy' = FALSE
    /\ polls' = polls + 1 /\ failures' = 0
    /\ at' = "detector"
    /\ UNCHANGED <<podVars, entries, answer, saved>>

\* Mutant: failed polls do not use up the loop.
PollUnansweredForever ==
    /\ at = "poll" /\ outage' = IF outage = 1 THEN 2 ELSE 1
    /\ at' = "poll"
    /\ UNCHANGED <<podVars, copy, polls, failures, entries, answer, saved>>

PollUnanswered ==
    /\ at = "poll" /\ Unanswered
    /\ polls' = polls + 1
    /\ failures' = failures + 1
    /\ at' = CASE failures' >= MaxFailures -> "unreachable"
               [] OTHER -> IF LastPoll THEN "timeout" ELSE "poll"
    /\ UNCHANGED <<podVars, copy, entries, answer, saved>>

\* _save_job_results, then the return through Temporal.
SaveResults ==
    /\ at = "save"
    /\ saved' = answer
    /\ at' = "returned"
    /\ UNCHANGED <<podVars, copy, polls, failures, entries, answer, outage>>

\* Mutant: one re-entry too many.
ReenterOffByOne ==
    /\ at = "unreachable" /\ entries <= MaxUnreachable
    /\ entries' = entries + 1 /\ copy' = FALSE
    /\ at' = "entry" /\ polls' = 0 /\ failures' = 0
    /\ UNCHANGED <<podVars, answer, saved, outage>>

\* The workflow runs the activity again on the same pod.
Reenter ==
    /\ at = "unreachable" /\ entries < MaxUnreachable
    /\ entries' = entries + 1 /\ copy' = FALSE
    /\ at' = "entry" /\ polls' = 0 /\ failures' = 0
    /\ UNCHANGED <<podVars, answer, saved, outage>>

-----------------------------------------------------------------------------
Client ==
    \/ EntryAnswered \/ EntryUnanswered
    \/ PostAnswered \/ PostBlankReply \/ PostFails
    \/ PollAnswered \/ PollTrips \/ PollUnanswered
    \/ SaveResults \/ Reenter

Pod == (PipelineStep \/ PodRestarts) /\ UNCHANGED clientVars

Next == Client \/ CopyArrives \/ Pod

\* Every call of the client has a timeout.  Nothing is assumed about the pod.
Spec == Init /\ [][Next]_vars /\ WF_vars(Client)

GaveUp == \/ at \in Ended \ {"returned", "unreachable"}
          \/ at = "unreachable" /\ entries = MaxUnreachable

-----------------------------------------------------------------------------
(* Properties.                                                               *)

\* Running the activity again is harmless: a POST starts a pipeline only on a
\* pod that has none running and no finished results to lose.
ResultsNotDiscarded ==
    [][PostAnswered \/ PostBlankReply \/ PostFails =>
          worker # "completed" \/ worker' = "completed"]_vars

\* The pod is given up as unreachable only after an outage: all of the last
\* MaxFailures calls were lost, with no answer between them.
GivesUpOnOutageOnly == at = "unreachable" => outage >= MaxFailures

\* The activity and its re-entries come to an end whatever the pod does.
Termination == <>(GaveUp \/ at = "returned")

\* What the client saves: the chat log of one run, and if the upload is said to
\* be done, MinIO has every file of the very same run, and nothing else.
SavedIsWhole ==
    saved.simdata =>
        /\ saved.chat # 0
        /\ \A f \in FileNames : stored[f] \in {0, saved.chat}
        /\ \A i \in DOMAIN Files, j \in DOMAIN Written :
              Files[i] = Written[j] => stored[Files[i]] = saved.chat

\* A completed job has the files of its own run, all of them, whatever an
\* earlier run has left behind.
CompletedIsWhole ==
    worker = "completed" =>
        /\ result.chat = run
        /\ \A i \in DOMAIN Written : files[Written[i]] = run

\* A pipeline is started only when none is left running.
OnePipeline == [][run' # run => stage = "none"]_vars

\* "On failure we keep the interaction-only graph rather than failing the
\* whole job" (see the findings).
RelationsFailSoft == why \notin {"relations", "repair"}

=============================================================================
