------------------------------- MODULE Engine -------------------------------
(***************************************************************************)
(* simswarm/engine.py and bridge.py: a simulation run.  Every round shows  *)
(* each agent its environments, asks the model for tool calls, an agent at *)
(* a time or several at once as the semaphore allows, lets each agent's    *)
(* calls act on the environments when its answer arrives, and when all     *)
(* have acted extends the chat log, moves the beliefs and ticks the        *)
(* environments.                                                           *)
(***************************************************************************)
EXTENDS SocialEnvironment, MarketEnvironment, EconomicEnvironment, Beliefs, Extraction

CONSTANTS AgentOrder,      \* the agents in the order of the entities
          EnvironmentLists,\* the environments a run may be configured with, in order
          Rounds,          \* config.rounds
          Concurrencies,   \* what config.concurrency may be
          Scheduled,       \* config.scheduled_events: records [round, about]
          MaxMemory,       \* max_memory_rounds (20)
          MaxAttempts,     \* _CHAT_MAX_ATTEMPTS (3)
          Budget,          \* bound: tool calls and dropped connections in a run,
                           \*        by its environments and concurrency
          ReplyTexts,      \* bound: the texts a reply may have
          TradeAmounts,    \* money or shares the model asks to trade
          Quantities       \* prices, workers and capital it names

ASSUME EngineAssumption ==
  /\ AgentOrder \in Seq(Agents) /\ ToSet(AgentOrder) = Agents
  /\ \A i, j \in DOMAIN AgentOrder : i # j => AgentOrder[i] # AgentOrder[j]
  /\ \A list \in EnvironmentLists : list # <<>> /\ list \in Seq({"social", "market", "economic"})
  /\ ReplyTexts \subseteq Texts /\ TradeAmounts \cup Quantities \subseteq Int
  /\ Concurrencies \cup {Rounds, MaxMemory, MaxAttempts} \subseteq Nat \ {0}

VARIABLES envs,      \* the environments of this run, in order
          concurrency,
          round, phase,
          social, market, economy,
          pending,   \* Bridge.pending_events
          seen,      \* the posts each agent's observations of the round show
          acted,     \* the agents whose answer has been carried out this round
          attempts,  \* failed attempts of each agent's current call to the model
          records,   \* the records of each agent that acted this round
          log, memory, beliefs,
          spent,     \* how much of the budget is used
          heard, published  \* ghosts: digests each agent got, events published

world == <<social, market, economy>>
vars == <<envs, concurrency, round, phase, world, pending, seen, acted, attempts, records, log,
          memory, beliefs, spent, heard, published>>

Environments == ToSet(envs)

TypeOK ==
  /\ envs \in EnvironmentLists /\ concurrency \in Concurrencies
  /\ round \in 1 .. Rounds + 1
  /\ phase \in {"observe", "act", "done", "failed"}
  /\ SocialTypeOK(social) /\ MarketTypeOK(market) /\ EconomyTypeOK(economy)
  /\ \A a \in Agents :
       /\ seen[a] \subseteq DOMAIN social.posts
       /\ BeliefTypeOK(beliefs[a])
       /\ Len(memory[a]) <= MaxMemory
       /\ attempts[a] \in 0 .. MaxAttempts
       /\ a \notin acted => records[a] = <<>>
  /\ acted \subseteq Agents

Init ==
  /\ envs \in EnvironmentLists /\ concurrency \in Concurrencies
  /\ phase = "observe"
  /\ round = 1
  /\ social = NewSocial /\ market = NewMarket /\ economy = NewEconomy
  /\ pending = {} /\ acted = {} /\ log = <<>> /\ published = {}
  /\ seen = [a \in Agents |-> {}]
  /\ attempts = [a \in Agents |-> 0]
  /\ records = [a \in Agents |-> <<>>]
  /\ memory = [a \in Agents |-> <<>>]
  /\ beliefs = [a \in Agents |-> NewBelief(Agents)]
  /\ spent = 0
  /\ heard = [a \in Agents |-> <<>>]

----------------------------------------------------------------------------
(* The start of a round: due events are injected, then every agent         *)
(* observes every environment, which enrols it there, and gets a digest of *)
(* the pending events that come from none of its own environments.         *)

\* Mutant: an event is due from its round on.
DueEver(r) == {Event("scheduled", "policy_change", s.about, r) :
                 s \in {e \in Scheduled : e.round <= r}}

Due(r) == {Event("scheduled", "policy_change", s.about, r) :
             s \in {e \in Scheduled : e.round = r}}

InjectScheduled == pending \cup Due(round)

Digest(events) == {e \in events : e.source \notin Environments}

ObserveRound ==
  /\ phase = "observe" /\ round <= Rounds
  /\ phase' = "act"
  /\ pending' = InjectScheduled
  /\ heard' = [a \in Agents |-> Append(heard[a], Digest(InjectScheduled))]
  /\ seen' \in [Agents -> IF "social" \in Environments THEN Feeds(social) ELSE {{}}]
  /\ market' = IF "market" \in Environments THEN Registered(market, Agents) ELSE market
  /\ economy' = IF "economic" \in Environments THEN Enrolled(economy, Agents) ELSE economy
  /\ UNCHANGED <<envs, concurrency, round, social, acted, attempts, records, log, memory, beliefs,
                 spent, published>>

----------------------------------------------------------------------------
(* An agent's turn.                                                        *)

Tools(env) == CASE env = "social" -> SocialTools
                [] env = "market" -> MarketTools
                [] env = "economic" -> EconomicTools

(* The first environment with such a tool, or the first of all.            *)
FindEnvForAction(name) ==
  LET having == {i \in DOMAIN envs : name \in Tools(envs[i])}
  IN IF having = {} THEN envs[1] ELSE envs[CHOOSE i \in having : \A j \in having : i <= j]

Record(a, name, env, args, success, data) ==
  [round |-> round, agent |-> a, type |-> name, platform |-> env, args |-> args,
   success |-> success, data |-> data]

(* One tool call, on what the calls before it left.                        *)
Execute(st, a, call) ==
  LET env == FindEnvForAction(call.name)
      out == CASE env = "social"   -> SocialExecute(st.social, a, call)
               [] env = "market"   -> MarketExecute(st.market, a, call)
               [] env = "economic" -> EconomicExecute(st.economy, a, call)
      next == CASE env = "social"   -> [st EXCEPT !.social = out.env]
                [] env = "market"   -> [st EXCEPT !.market = out.env]
                [] env = "economic" -> [st EXCEPT !.economy = out.env]
  IN [next EXCEPT !.records = Append(@, Record(a, call.name, env, call, out.success, out.data))]

Remember(mem, answer) ==
  LET all == mem \o [i \in DOMAIN answer |-> <<round, answer[i]>>]
  IN IF Len(all) > MaxMemory THEN SubSeq(all, Len(all) - MaxMemory + 1, Len(all)) ELSE all

(* The calls an answer may hold: with the ids the agent was shown, or with *)
(* one that no post has; any string for an agent; amounts no trade rounds; *)
(* a tool that an environment the run lacks has, or that is not one at all.*)
(* The arguments are those of the tool's schema.                           *)
SocialCalls(a) ==
  {[name |-> "create_post", text |-> t] : t \in Texts}
    \cup {[name |-> "reply", post |-> p, text |-> t] : p \in seen[a] \cup {NoPost}, t \in ReplyTexts}
    \cup {[name |-> "vote", post |-> p, value |-> v] : p \in seen[a], v \in {1, -1}}
    \cup {[name |-> "vote", post |-> p] : p \in seen[a] \cup {NoPost}}
    \cup {[name |-> "repost", post |-> p] : p \in seen[a] \cup {NoPost}}
    \cup {[name |-> "follow", agent |-> b] : b \in Targets}

TradeCalls ==
  {[name |-> n, market |-> m, outcome |-> o, amount |-> q] :
     n \in {"buy_shares", "sell_shares"}, m \in Markets, o \in Outcomes, q \in TradeAmounts}

IsExact(call) ==
  \/ call.amount <= 0
  \/ Exact(market.markets[call.market],
           IF call.name = "buy_shares" THEN Opposite(call.outcome) ELSE call.outcome,
           call.amount)

MarketCalls ==
  {c \in TradeCalls : IsExact(c)}
    \cup {[name |-> "buy_shares", market |-> m, outcome |-> "maybe", amount |-> 1] : m \in Markets}
    \cup {[name |-> "comment_on_market", market |-> m] : m \in Markets}

EconomicCalls ==
  {[name |-> n, amount |-> q] : n \in {"set_price", "hire", "fire", "invest"}, q \in Quantities}
    \cup {[name |-> "apply_policy"], [name |-> "allocate"]}

StrayCalls ==
  IF "social" \notin Environments THEN {[name |-> "create_post", text |-> t] : t \in ReplyTexts}
  ELSE IF "market" \notin Environments
       THEN {[name |-> "sell_shares", market |-> m, outcome |-> "yes", amount |-> 1] : m \in Markets}
       ELSE {[name |-> "dance"]}

Calls(a) ==
  {[name |-> "do_nothing"]} \cup StrayCalls
    \cup (IF "social" \in Environments THEN SocialCalls(a) ELSE {})
    \cup (IF "market" \in Environments THEN MarketCalls ELSE {})
    \cup (IF "economic" \in Environments THEN EconomicCalls ELSE {})

(* The semaphore lets the tasks in in order, a new one for each that ends. *)
Position(a) == CHOOSE i \in DOMAIN AgentOrder : AgentOrder[i] = a
InFlight(a) ==
  phase = "act" /\ a \notin acted /\ Position(a) <= concurrency + Cardinality(acted)

(* The answer arrives; its calls are carried out without another await.    *)
(* No call at all is logged as do_nothing, and not remembered.             *)
StepAgent(a, answer) ==
  /\ InFlight(a)
  /\ LET start == [social |-> social, market |-> market, economy |-> economy, records |-> <<>>]
         after[n \in 0 .. Len(answer)] ==
           IF n = 0 THEN start ELSE Execute(after[n - 1], a, answer[n])
         end == after[Len(answer)]
     IN /\ social' = end.social /\ market' = end.market /\ economy' = end.economy
        /\ records' = [records EXCEPT ![a] =
             IF answer # <<>> THEN end.records
             ELSE << Record(a, "do_nothing", envs[1], <<>>, TRUE, NoData) >>]
  /\ memory' = [memory EXCEPT ![a] = Remember(@, answer)]
  /\ acted' = acted \cup {a}
  /\ attempts' = [attempts EXCEPT ![a] = 0]
  /\ spent' = spent + Len(answer)
  /\ UNCHANGED <<envs, concurrency, round, phase, pending, seen, log, beliefs, heard, published>>

Left == Budget[envs, concurrency] - spent
Answers(a) == UNION {[1 .. n -> Calls(a)] : n \in {k \in 0 .. MaxCalls : k <= Left}}

(* An exception that leaves a task leaves gather and run() with it: what   *)
(* the run had gathered is lost, and there is no result.                   *)
RunFails ==
  /\ phase' = "failed"
  /\ round' = 1
  /\ social' = NewSocial /\ market' = NewMarket /\ economy' = NewEconomy
  /\ pending' = {} /\ acted' = {} /\ log' = <<>> /\ published' = {}
  /\ seen' = [a \in Agents |-> {}]
  /\ attempts' = [a \in Agents |-> 0]
  /\ records' = [a \in Agents |-> <<>>]
  /\ memory' = [a \in Agents |-> <<>>]
  /\ beliefs' = [a \in Agents |-> NewBelief(Agents)]
  /\ spent' = 0
  /\ heard' = [a \in Agents |-> <<>>]

(* A dropped connection is tried again, MaxAttempts times in all.          *)
ChatDrops(a) ==
  /\ InFlight(a) /\ Left > 0
  /\ IF attempts[a] + 1 = MaxAttempts THEN RunFails
     ELSE /\ attempts' = [attempts EXCEPT ![a] = @ + 1]
          /\ spent' = spent + 1
          /\ UNCHANGED <<round, phase, world, pending, seen, acted, records, log, memory,
                         beliefs, heard, published>>
  /\ UNCHANGED <<envs, concurrency>>

(* Arguments of a type the handler cannot take raise in the handler.       *)
ToolRaises(a) ==
  /\ InFlight(a) /\ Left > 0
  /\ RunFails
  /\ UNCHANGED <<envs, concurrency>>

(* Environments only tick and publish when the run has them.               *)
TickAll ==
  /\ social' = IF "social" \in Environments THEN SocialPublished(SocialTick(social)) ELSE social
  /\ market' = IF "market" \in Environments THEN MarketPublished(MarketTick(market)) ELSE market
  /\ economy' = IF "economic" \in Environments
                THEN EconomicPublished(EconomicTick(economy)) ELSE economy

EventsOf(env) == CASE env = "social"   -> SocialTick(social).events
                   [] env = "market"   -> MarketTick(market).events
                   [] env = "economic" -> EconomicTick(economy).events

NewEvents == UNION {EventsOf(env) : env \in Environments}

----------------------------------------------------------------------------
(* The end of a round, when all answers are in.                            *)

RoundRecords == FlattenSeq([i \in DOMAIN AgentOrder |-> records[AgentOrder[i]]])

(* apply_belief_updates(): the posts of the others, and the reception of   *)
(* one's own posts of this round; an agent with neither is left alone.     *)
AuthoredThisRound == Authored(records, CurrentEngagement(social))

OthersPosts(a) == Restrict(AuthoredThisRound, {k \in DOMAIN AuthoredThisRound : k[1] # a})
OwnPosts(a) == Restrict(AuthoredThisRound, {k \in DOMAIN AuthoredThisRound : k[1] = a})
Reception(a, field) == Sum([k \in DOMAIN OwnPosts(a) |-> OwnPosts(a)[k][field]])

HashesAfter(a) == beliefs[a].exposed \cup {OthersPosts(a)[k].hash : k \in DOMAIN OthersPosts(a)}

Untouched(a) ==
  /\ DOMAIN OthersPosts(a) = {}
  /\ Reception(a, "likes") = 0 /\ Reception(a, "dislikes") = 0

ApplyBeliefUpdates(kept) ==
  [a \in Agents |->
     IF Untouched(a) THEN beliefs[a]
     ELSE UpdateBeliefs(beliefs[a], OthersPosts(a), Reception(a, "likes"),
                        Reception(a, "dislikes"), kept[a])]

(* The log grows, the beliefs move, the environments tick and publish, the *)
(* bridge receives the events and is cleared.                              *)
EndRound ==
  /\ phase = "act" /\ acted = Agents
  /\ log' = log \o RoundRecords
  /\ \E kept \in [Agents -> UNION {Capped(HashesAfter(a)) : a \in Agents}] :
       /\ \A a \in Agents : kept[a] \in Capped(HashesAfter(a))
       /\ beliefs' = ApplyBeliefUpdates(kept)
  /\ TickAll
  /\ published' = published \cup NewEvents
  /\ pending' = {}
  /\ acted' = {}
  /\ records' = [a \in Agents |-> <<>>]
  /\ seen' = [a \in Agents |-> {}]
  /\ round' = round + 1
  /\ phase' = IF round = Rounds THEN "done" ELSE "observe"
  /\ UNCHANGED <<envs, concurrency, attempts, memory, spent, heard>>

Next ==
  \/ ObserveRound
  \/ \E a \in Agents : \/ \E answer \in Answers(a) : StepAgent(a, answer)
                       \/ ChatDrops(a)
                       \/ ToolRaises(a)
  \/ EndRound

Spec == Init /\ [][Next]_vars

----------------------------------------------------------------------------
(* Properties.                                                             *)

Between == phase \in {"observe", "done"}

(* A scheduled event (engine.py:62, bridge.py inject_scheduled) is in      *)
(* every agent's digest of its own round, in no other's, and exactly once. *)
ScheduledHeardOnce ==
  \A a \in Agents :
    /\ Len(heard[a]) = IF phase = "act" THEN round ELSE round - 1
    /\ \A n \in DOMAIN heard[a] :
         heard[a][n] = {Event("scheduled", "policy_change", s.about, n) :
                          s \in {e \in Scheduled : e.round = n}}

(* The graph built from the log tells what the social environment did: as  *)
(* many vote edges to an author as others voted on that author's posts, a  *)
(* follow edge to whom a follow, by id or by name, stands for and to nobody*)
(* else, a reply edge for each reply to another.                           *)
GraphAgrees ==
  Between /\ "social" \in Environments =>
    LET edges == BuildEdges(log)
        posts == social.posts
        written(b) == {p \in DOMAIN posts : posts[p].author = b}
    IN \A a, b \in Agents : a # b =>
         /\ Weight(edges, a, b, "like") + Weight(edges, a, b, "dislike")
              = Cardinality({p \in written(b) : a \in posts[p].voters})
         /\ Weight(edges, a, b, "follow") > 0 <=> \E t \in social.follows[a] : b \in StandsFor(t)
         /\ Weight(edges, a, b, "reply")
              = Cardinality({p \in written(a) : posts[p].parent \in written(b)})

(* The data tab agrees with the environment: the feed shows posts of the   *)
(* platform, as many as its limit lets it, each with all its reposts and   *)
(* replies and no vote missing, and leaves none out that was reposted and  *)
(* replied to more often than a post it shows has likes and shares; the    *)
(* summary of a round has the posts written in it, and two agents are      *)
(* mutual followers exactly when each follows the other by id.  Cards,     *)
(* trajectories and nodes of the same log count the same actions, and none *)
(* is lost.                                                                *)
FeedAgrees ==
  LET feed == TopPosts(log)
      summary == EngagementSummary(log)
      mutual == {e \in Agents \X Agents : /\ e[2] \in social.follows[e[1]]
                                          /\ e[1] \in social.follows[e[2]]}
      shared(p) == social.posts[p].reposts + Cardinality(Replies(social, p))
      written == Cardinality(TopLevel(social))
  IN /\ DOMAIN feed \subseteq TopLevel(social)
     /\ Cardinality(DOMAIN feed) = IF written <= TopLimit THEN written ELSE TopLimit
     /\ \A p \in DOMAIN feed, q \in TopLevel(social) \ DOMAIN feed :
          shared(q) <= feed[p].likes + feed[p].shares
     /\ \A p \in DOMAIN feed :
          /\ feed[p].shares = shared(p)
          /\ feed[p].likes + feed[p].dislikes >= Cardinality(social.posts[p].voters)
     /\ \A n \in DOMAIN summary :
          summary[n].posts = Cardinality({p \in TopLevel(social) : social.posts[p].created = n - 1})
     /\ MutualFollows(log) = {{e[1], e[2]} : e \in mutual}

ActivityAddsUp ==
  LET cards == Profiles(log)
      paths == Trajectories(log)
      nodes == BuildNodes(log)
  IN /\ Sum([a \in DOMAIN cards |-> cards[a].actions]) = Len(log)
     /\ \A a \in DOMAIN cards :
          /\ cards[a].rounds = Cardinality(DOMAIN paths[a])
          /\ cards[a].posts = Sum([n \in DOMAIN paths[a] |-> paths[a][n].posts])
          /\ nodes[a] = [actions |-> cards[a].actions, posts |-> cards[a].posts,
                                   rounds |-> cards[a].rounds]

TablesAgree ==
  Between => ActivityAddsUp /\ ("social" \in Environments => FeedAgrees)

(* A post is published as viral at most once, and exactly when it is known *)
(* to have reached the threshold (social.py tick).                         *)
ViralOnce ==
  \A p \in DOMAIN social.posts :
    Cardinality({e \in published : e.source = "social" /\ e.about = p})
      = IF p \in social.viral THEN 1 ELSE 0

(* Trading moves value between the pool, the cash and the shares and makes *)
(* none (market_amm.py), nobody trades on credit, and money invested is    *)
(* output, in total and per actor (economic.py _handle_invest).            *)
WorthConserved ==
  LET enrolled == Cardinality(DOMAIN market.portfolios)
  IN /\ Worth(market) = Worth(NewMarket) + enrolled * InitialBalance
     /\ \A a \in DOMAIN market.portfolios :
          /\ market.portfolios[a].balance >= 0
          /\ \A m \in Markets, o \in Outcomes : market.portfolios[a].shares[m][o] >= 0
     /\ economy.invested = SumOver(economy, "output")
     /\ \A a \in DOMAIN economy.actors :
          economy.actors[a].balance + economy.actors[a].output = 0

(* The trades the data tab shows explain every agent's cash and shares,    *)
(* and the story reports market stress unless no pool has ever moved.      *)
TradesExplainPortfolios ==
  Between =>
   /\ SimScale(log).stress \/ market.markets = NewMarket.markets
   /\ LET trades == MarketData(log)
          of(a, s) == {i \in DOMAIN trades : /\ trades[i].agent = a /\ trades[i].success
                                            /\ trades[i].side = s}
          total(S, f) == Sum([i \in S |-> trades[i][f]])
      IN \A a \in DOMAIN market.portfolios :
           /\ market.portfolios[a].balance = InitialBalance
                - total(of(a, "buy"), "cost") + total(of(a, "sell"), "cost")
           /\ \A m \in Markets, o \in Outcomes :
                LET here(s) == {i \in of(a, s) : trades[i].market = m /\ trades[i].outcome = o}
                IN market.portfolios[a].shares[m][o]
                     = total(here("buy"), "shares") - total(here("sell"), "shares")

(* The story's blocs hold every agent that posted, once; the phases are    *)
(* the rounds, each in one; nobody is quoted twice, and nobody for a stance*)
(* or a phase they did not post in.                                        *)
StoryIsConsistent ==
  Between =>
    LET blocs == StakeholderPositions(log)
        phases == PhaseBoundaries(LastRound(log))
        quotes == QuotablePosts(log)
        posts == Matching(log, LAMBDA r : r.type = "create_post")
    IN /\ UNION {blocs[s] : s \in DOMAIN blocs} = {log[i].agent : i \in posts}
       /\ \A s, t \in DOMAIN blocs : s # t => blocs[s] \cap blocs[t] = {}
       /\ \A n \in RoundsIn(log) :
            Cardinality({i \in DOMAIN phases : n \in phases[i].from .. phases[i].to}) = 1
       /\ \A i, j \in DOMAIN quotes : i # j => quotes[i].agent # quotes[j].agent
       /\ \A i \in DOMAIN quotes : \E k \in posts :
            /\ log[k].agent = quotes[i].agent /\ Class[log[k].args.text] = quotes[i].class
            /\ log[k].round \in phases[quotes[i].phase].from .. phases[quotes[i].phase].to

(* An agent's position moves only in a round in which another agent wrote  *)
(* something, and never away from all that was written (belief.py).        *)
PeersPull ==
  [][\A a \in Agents : beliefs'[a].position # beliefs[a].position /\ EndRound =>
       LET peers == OthersPosts(a)
       IN /\ beliefs'[a].position > beliefs[a].position
               => \E k \in DOMAIN peers : peers[k].stance > beliefs[a].position
          /\ beliefs'[a].position < beliefs[a].position
               => \E k \in DOMAIN peers : peers[k].stance < beliefs[a].position]_vars
=============================================================================
