----------------------------- MODULE Extraction -----------------------------
(***************************************************************************)
(* What is computed from a simulation's chat log: the interaction graph    *)
(* (simswarm/graph.py), the tables of the data tab (extractor_*.py) and    *)
(* the story signals (story_signals*.py).  A record of the log has the     *)
(* round, the agent, the type of the call, its arguments, whether the      *)
(* environment accepted it, and the data it answered.  Only the types of   *)
(* action the engine writes are modelled; the aliases of older logs (like, *)
(* comment, retweet...) never occur in them.                               *)
(***************************************************************************)
EXTENDS EnvironmentBase

CONSTANTS Mentions,      \* the agents a text refers to by handle or name
          Class,         \* its stance by keywords: opposed, supports, split or neutral
          IdByName,      \* whose name or id a handle is, blanks round it aside
          TopLimit       \* posts shown in the top-posts feed (20)

ASSUME ExtractionAssumption ==
  /\ DOMAIN IdByName \subseteq Handles \ {NoHandle}
  /\ \A h \in DOMAIN IdByName : IdByName[h] \in Agents
  /\ TopLimit \in Nat

Matching(log, Test(_)) == {i \in DOMAIN log : Test(log[i])}
Count(log, Test(_)) == Cardinality(Matching(log, Test))
Largest(S) == CHOOSE x \in S : \A y \in S : y <= x

RoundsIn(log) == {log[i].round : i \in DOMAIN log}
LastRound(log) == IF log = <<>> THEN 0 ELSE Largest(RoundsIn(log))

----------------------------------------------------------------------------
(* The graph: a node per entity with its activity, an edge per pair of     *)
(* agents and kind of interaction, weighted by how often it happened.      *)

BuildNodes(log) ==
  [a \in Agents |->
     [actions |-> Count(log, LAMBDA r : r.agent = a),
      posts   |-> Count(log, LAMBDA r : r.agent = a /\ r.type = "create_post"),
      rounds  |-> Cardinality({log[i].round : i \in Matching(log, LAMBDA r : r.agent = a)})]]

(* post_id -> author, from every accepted post and reply of the log.       *)
PostAuthor(log) ==
  LET written == Matching(log, LAMBDA r : r.success /\ r.type \in {"create_post", "reply"})
  IN [p \in {log[i].data.post : i \in written} |->
        log[CHOOSE i \in written : log[i].data.post = p].agent]

(* The agent a target stands for: an id for itself, a name for its bearer, *)
(* anything else for nobody.                                               *)
StandsFor(target) ==
  IF target \in Agents THEN {target}
  ELSE IF target \in DOMAIN IdByName THEN {IdByName[target]} ELSE {}

(* Whom an interaction is with: the agent it names, or else the author of  *)
(* the post it names; {} when neither is known.  The other arguments the   *)
(* code looks into (target_id, to...) are in no tool's schema.             *)
ResolveTarget(authors, r) ==
  IF "agent" \in DOMAIN r.args /\ StandsFor(r.args.agent) # {} THEN StandsFor(r.args.agent)
  ELSE IF "post" \in DOMAIN r.args /\ r.args.post \in DOMAIN authors
       THEN {authors[r.args.post]}
       ELSE {}

EdgeKind(r) ==
  CASE r.type = "vote" -> IF "value" \notin DOMAIN r.args \/ r.args.value >= 0
                          THEN "like" ELSE "dislike"
    [] r.type \in {"follow", "reply", "repost"} -> r.type
    [] r.type = "create_post" -> "mention"
    [] OTHER -> "none"

\* Mutant: failed calls make edges too.
EdgesOfAny(authors, r) ==
  IF EdgeKind(r) = "mention"
  THEN {<<r.agent, t, "mention">> : t \in Mentions[r.args.text] \ {r.agent}}
  ELSE {<<r.agent, t, EdgeKind(r)>> : t \in ResolveTarget(authors, r) \ {r.agent}}

(* The edges one record adds to: the targets of an interaction, or those   *)
(* a new post mentions; nobody interacts with themselves, and a refused    *)
(* call with nobody.  (A reply is an interaction: its text is not scanned.)*)
EdgesOf(authors, r) ==
  IF ~r.success \/ EdgeKind(r) = "none" THEN {}
  ELSE EdgesOfAny(authors, r)

BuildEdges(log) ==
  LET authors == PostAuthor(log)
      found == UNION {EdgesOf(authors, log[i]) : i \in DOMAIN log}
  IN [e \in found |-> Count(log, LAMBDA r : e \in EdgesOf(authors, r))]

Weight(edges, a, b, kind) == IF <<a, b, kind>> \in DOMAIN edges THEN edges[<<a, b, kind>>] ELSE 0

----------------------------------------------------------------------------
(* The tables.                                                             *)

Liked(r) == r.type = "vote" /\ "value" \in DOMAIN r.args /\ r.args.value > 0
Aims(r, post) == "post" \in DOMAIN r.args /\ r.args.post = post

(* extract_top_posts(): the posts, with what the log says was done to each,*)
(* the refused calls included.  Those with the most likes and shares come  *)
(* first, and among equals the earlier of the log; the first TopLimit are  *)
(* shown.                                                                  *)
Created(log) == Matching(log, LAMBDA r : r.type = "create_post")
CreatedPosts(log) == {log[i].data.post : i \in Created(log)}
Place(log, p) == CHOOSE i \in Created(log) : log[i].data.post = p

Likes(log, p)    == Count(log, LAMBDA r : Aims(r, p) /\ Liked(r))
Dislikes(log, p) == Count(log, LAMBDA r : Aims(r, p) /\ r.type = "vote" /\ ~Liked(r))
Shares(log, p)   == Count(log, LAMBDA r : Aims(r, p) /\ r.type \in {"repost", "reply"})
Engagement(log, p) == Likes(log, p) + Shares(log, p)

\* Mutant: the posts are cut to the limit before they are ranked.
AheadInLog(log, q, p) == Place(log, q) < Place(log, p)

Ahead(log, q, p) ==
  \/ Engagement(log, q) > Engagement(log, p)
  \/ Engagement(log, q) = Engagement(log, p) /\ Place(log, q) < Place(log, p)

TopPosts(log) ==
  LET posts == CreatedPosts(log)
  IN [p \in {s \in posts : Cardinality({q \in posts : Ahead(log, q, s)}) < TopLimit} |->
        [likes |-> Likes(log, p), dislikes |-> Dislikes(log, p), shares |-> Shares(log, p)]]

EngagementSummary(log) ==
  [n \in RoundsIn(log) |->
     LET of(Test(_)) == Count(log, LAMBDA r : r.round = n /\ Test(r))
     IN [posts    |-> of(LAMBDA r : r.type = "create_post"),
         likes    |-> of(Liked),
         comments |-> of(LAMBDA r : r.type = "reply"),
         active   |-> Cardinality({log[i].agent : i \in Matching(log, LAMBDA r : r.round = n)})]]

(* Per agent and round of activity; agents and rounds without a record are *)
(* left out.                                                               *)
Trajectories(log) ==
  [a \in {log[i].agent : i \in DOMAIN log} |->
     [n \in {log[i].round : i \in Matching(log, LAMBDA r : r.agent = a)} |->
        [actions |-> Count(log, LAMBDA r : r.agent = a /\ r.round = n),
         posts   |-> Count(log, LAMBDA r : r.agent = a /\ r.round = n
                                                       /\ r.type = "create_post")]]]

Profiles(log) ==
  [a \in {log[i].agent : i \in DOMAIN log} |->
     [posts     |-> Count(log, LAMBDA r : r.agent = a /\ r.type = "create_post"),
      actions   |-> Count(log, LAMBDA r : r.agent = a),
      rounds    |-> Cardinality({log[i].round : i \in Matching(log, LAMBDA r : r.agent = a)}),
      platforms |-> {log[i].platform : i \in Matching(log, LAMBDA r : r.agent = a)}]]

(* extract_social_graph(): the follows the environment accepted, as they   *)
(* were given, those of nobody left out, and the pairs that follow each    *)
(* other (someone who follows themselves is one).                          *)
Follows(log) ==
  {<<log[i].agent, log[i].args.agent>> :
     i \in Matching(log, LAMBDA r : r.type = "follow" /\ r.success /\ r.args.agent # NoHandle)}
MutualFollows(log) == {{f[1], f[2]} : f \in {g \in Follows(log) : <<g[2], g[1]>> \in Follows(log)}}

Trades(log) == Matching(log, LAMBDA r : r.type \in {"buy_shares", "sell_shares"})

\* Mutant: the amounts asked for.
MarketDataAsked(log) ==
  [i \in Trades(log) |->
     [agent |-> log[i].agent, market |-> log[i].args.market, outcome |-> log[i].args.outcome,
      side |-> IF log[i].type = "buy_shares" THEN "buy" ELSE "sell",
      cost |-> log[i].args.amount, shares |-> log[i].args.amount, success |-> log[i].success]]

(* extract_market_data(): one entry per trade call, with the executed      *)
(* values; of a refused one, what was asked for (0 where the entry has     *)
(* none).  The entries are in the order of the log, each at its record's   *)
(* place in it.                                                            *)
MarketData(log) ==
  [i \in Trades(log) |->
        LET r == log[i]
        IN [agent |-> r.agent, market |-> r.args.market, outcome |-> r.args.outcome,
            side |-> IF r.type = "buy_shares" THEN "buy" ELSE "sell",
            cost |-> IF r.success THEN r.data.cost
                     ELSE IF r.type = "buy_shares" THEN r.args.amount ELSE 0,
            shares |-> IF r.success THEN r.data.shares
                       ELSE IF r.type = "sell_shares" THEN r.args.amount ELSE 0,
            success |-> r.success]]

----------------------------------------------------------------------------
(* Story signals.                                                          *)

(* The stance most of the texts have, neutral ones aside; a tie is split.  *)
DominantStance(classes) ==
  LET directional == SelectSeq(classes, LAMBDA c : c # "neutral")
      votes(c) == Cardinality({i \in DOMAIN directional : directional[i] = c})
      top == {c \in ToSet(directional) : \A d \in ToSet(directional) : votes(d) <= votes(c)}
  IN IF directional = <<>> THEN "neutral"
     ELSE IF Cardinality(top) > 1 THEN "split"
     ELSE CHOOSE c \in top : TRUE

ClassesOf(log, a) ==
  LET posts == SelectSeq(log, LAMBDA r : r.agent = a /\ r.type = "create_post")
  IN [i \in DOMAIN posts |-> Class[posts[i].args.text]]

(* The agents that posted, gathered by their stance: no empty bloc.        *)
StakeholderPositions(log) ==
  LET posters == {log[i].agent : i \in Matching(log, LAMBDA r : r.type = "create_post")}
      stance(a) == DominantStance(ClassesOf(log, a))
  IN [s \in {stance(a) : a \in posters} |-> {a \in posters : stance(a) = s}]

NamedCoalitions(positions) == {s \in DOMAIN positions : Cardinality(positions[s]) >= 2}

\* Mutant: phases overlap by a round.
PhasesToTheEnd(lastRound) ==
  IF lastRound < 3 THEN << [from |-> 1, to |-> IF lastRound < 1 THEN 1 ELSE lastRound] >>
  ELSE [i \in 1 .. 3 |-> [from |-> ((i - 1) * lastRound) \div 3, to |-> (i * lastRound) \div 3]]

(* The rounds in thirds, or one phase when there are fewer than three.     *)
PhaseBoundaries(lastRound) ==
  IF lastRound < 3 THEN << [from |-> 1, to |-> IF lastRound < 1 THEN 1 ELSE lastRound] >>
  ELSE [i \in 1 .. 3 |->
          [from |-> ((i - 1) * lastRound) \div 3 + 1,
           to   |-> IF i < 3 THEN (i * lastRound) \div 3 ELSE lastRound]]

(* The first phase that holds the round, or the first of all.              *)
PhaseForRound(round, phases) ==
  LET holding == {i \in DOMAIN phases : round \in phases[i].from .. phases[i].to}
  IN IF holding = {} THEN 1 ELSE CHOOSE i \in holding : \A j \in holding : i <= j

(* Likes and reposts that name the post in a target_post argument.         *)
EngagementForPost(log, post) ==
  Count(log, LAMBDA r : /\ r.type \in {"like_post", "repost"}
                        /\ "target_post" \in DOMAIN r.args
                        /\ r.args.target_post = <<post.agent, post.round>>)

(* The posts that say something, and the phase and stance of each.         *)
Quotable(log) == Matching(log, LAMBDA r : r.type = "create_post" /\ r.args.text # NoText)

Group(log, i) ==
  <<PhaseForRound(log[i].round, PhaseBoundaries(LastRound(log))), Class[log[i].args.text]>>

(* Adds to the quotes the most engaged post of a group (the earliest of    *)
(* those) by an agent that is not quoted yet.                              *)
Pick(log, quotes, g) ==
  LET free == {i \in Quotable(log) : /\ Group(log, i) = g
                                     /\ \A q \in ToSet(quotes) : q.agent # log[i].agent}
      engagement(i) == EngagementForPost(log, log[i])
      best == CHOOSE i \in free : \A j \in free \ {i} :
                IF i < j THEN engagement(j) <= engagement(i) ELSE engagement(j) < engagement(i)
  IN IF free = {} THEN quotes
     ELSE Append(quotes, [agent |-> log[best].agent, phase |-> g[1], class |-> g[2]])

(* The groups have their turns in the order of their first posts.          *)
QuotablePosts(log) ==
  LET opens == {i \in Quotable(log) : \A j \in Quotable(log) : Group(log, j) = Group(log, i) => i <= j}
      upto[n \in 0 .. Len(log)] ==
        IF n = 0 THEN <<>>
        ELSE IF n \in opens THEN Pick(log, upto[n - 1], Group(log, n)) ELSE upto[n - 1]
  IN upto[Len(log)]

(* compute_sim_scale(): trades count as market stress only when accepted.  *)
SimScale(log) ==
  [participants |-> Cardinality({log[i].agent : i \in DOMAIN log}),
   blocs |-> Cardinality(NamedCoalitions(StakeholderPositions(log))),
   stress |-> \E i \in DOMAIN log : log[i].type \in {"buy_shares", "sell_shares"}
                                      /\ log[i].success]
=============================================================================
