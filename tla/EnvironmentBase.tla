-------------------------- MODULE EnvironmentBase --------------------------
(***************************************************************************)
(* What the environments of simswarm/environments share: the agents, the   *)
(* shape of a handler's outcome (types.ActionResult and the environment it *)
(* leaves behind) and of the data that reaches the chat log.  A tool call  *)
(* is a record with its name and the arguments its schema names.           *)
(***************************************************************************)
EXTENDS Integers, Sequences, FiniteSets, SequencesExt, FiniteSetsExt

CONSTANTS Agents,        \* the ids of the simulation's agents
          Handles,       \* what the model may give for an agent that is no id:
                         \* a name, an id nobody has, the empty string
          NoHandle,      \* the empty string, which a missing argument is read as
          Texts,         \* what a post can say
          NoText,        \* the empty text, one of them
          MaxCalls       \* bound: tool calls in one answer

ASSUME BaseAssumption ==
  /\ IsFiniteSet(Agents) /\ NoText \in Texts /\ MaxCalls \in Nat
  /\ NoHandle \in Handles /\ Handles \cap Agents = {}

Targets == Agents \cup Handles

NoPost == 0

NoData == [post |-> NoPost, cost |-> 0, shares |-> 0]
Done(env, data) == [env |-> env, success |-> TRUE, data |-> data]
Refused(env) == [env |-> env, success |-> FALSE, data |-> NoData]

(* An event an environment publishes, or a scheduled one.  A list of events*)
(* is a set here: no two are alike, and their order tells nobody anything. *)
Event(source, type, about, round) ==
  [source |-> source, type |-> type, about |-> about, round |-> round]

Sum(v) == MapThenSumSet(LAMBDA x : v[x], DOMAIN v)

Distance(x, y) == IF x >= y THEN x - y ELSE y - x
=============================================================================
