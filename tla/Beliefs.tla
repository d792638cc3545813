------------------------------ MODULE Beliefs ------------------------------
(***************************************************************************)
(* simswarm/belief.py: how a round's posts move the agents' beliefs on the *)
(* simulation's one topic.  Fractions are in thousandths: stances and      *)
(* positions in -1000 .. 1000, trust and confidence in 0 .. 1000; where a  *)
(* quotient is not whole it is rounded down, as floats round elsewhere.    *)
(***************************************************************************)
EXTENDS EnvironmentBase

Unit == 0 .. 1000            \* a fraction
Signed == -1000 .. 1000      \* a stance

CONSTANTS Stance,       \* score_stance() of each text; 0 for the empty one
          ExposureCap   \* EXPOSURE_CAP (2000)

ASSUME BeliefAssumption ==
  Stance \in [Texts -> Signed] /\ ExposureCap \in Nat

DefaultTrust == 500
DefaultConfidence == 500

NewBelief(agents) ==
  [position |-> 0, confidence |-> DefaultConfidence, exposed |-> {},
   trust |-> [a \in agents |-> DefaultTrust]]

Clamp(value, lo, hi) == IF value < lo THEN lo ELSE IF value > hi THEN hi ELSE value

BeliefTypeOK(b) ==
  /\ b.position \in Signed
  /\ b.confidence \in Unit
  /\ \A a \in DOMAIN b.trust : b.trust[a] \in Unit
  /\ Cardinality(b.exposed) <= ExposureCap

----------------------------------------------------------------------------
(* A post of the round as the beliefs see it, from its record in the log   *)
(* and the engagement it has when the round ends.  A refused call and an   *)
(* empty text are no exposure.                                             *)
PostActions == {"create_post", "reply"}

IsAuthored(r) ==
  r.success /\ r.type \in PostActions /\ r.args.text # NoText

(* A post is known by its author and its place among the author's calls of *)
(* the round.                                                              *)
Authored(records, engagement) ==
  [k \in {x \in Agents \X (1 .. MaxCalls) :
            x[2] \in DOMAIN records[x[1]] /\ IsAuthored(records[x[1]][x[2]])} |->
     LET r == records[k[1]][k[2]]
     IN [hash |-> <<r.round, r.agent, r.args.text>>,
         stance |-> Stance[r.args.text],
         likes |-> engagement[r.data.post].likes,
         dislikes |-> engagement[r.data.post].dislikes]]

(* Only the first exposure to a text in a round counts as new.             *)
Seen(b, posts, k) ==
  \/ posts[k].hash \in b.exposed
  \/ \E j \in DOMAIN posts : j[1] = k[1] /\ j[2] < k[2] /\ posts[j].hash = posts[k].hash

Influence(b, posts, k) ==
  LET proof == 300 + 70 * posts[k].likes
      novelty == IF Seen(b, posts, k) THEN 5 ELSE 15
      resistance == 300 + (700 * b.confidence) \div 1000
  IN ((((b.trust[k[1]] * proof) \div 1000) * novelty) * 100) \div resistance

\* Mutant: the gap is taken the wrong way round.
ShiftAway(b, posts) ==
  Sum([k \in DOMAIN posts |->
         ((b.position - posts[k].stance) * Influence(b, posts, k)) \div 10000])

Shift(b, posts) ==
  Sum([k \in DOMAIN posts |->
         ((posts[k].stance - b.position) * Influence(b, posts, k)) \div 10000])

(* Authors near the settled position gain trust, the others lose it, post  *)
(* by post.                                                                *)
TrustAfter(trust, stance, position) ==
  LET alignment == 1000 - Distance(stance, position) \div 2
  IN Clamp(trust + ((alignment - 500) * 5) \div 100, 0, 1000)

Aligned(trust, posts, position) ==
  [a \in DOMAIN trust |->
     LET after[n \in 0 .. MaxCalls] ==
           IF n = 0 THEN trust[a]
           ELSE IF <<a, n>> \in DOMAIN posts
                THEN TrustAfter(after[n - 1], posts[<<a, n>>].stance, position)
                ELSE after[n - 1]
     IN after[MaxCalls]]

ConfidenceAfter(confidence, likes, dislikes) ==
  Clamp(confidence + 5 * likes - 8 * dislikes, 0, 1000)

(* The set of texts seen is cut to the cap; a set has no oldest member, so *)
(* any of them may be the ones that go.                                    *)
Capped(hashes) ==
  IF Cardinality(hashes) <= ExposureCap THEN {hashes}
  ELSE {kept \in SUBSET hashes : Cardinality(kept) = ExposureCap}

UpdateBeliefs(b, posts, likes, dislikes, kept) ==
  LET position == Clamp(b.position + Shift(b, posts), -1000, 1000)
  IN [position |-> position,
      confidence |-> ConfidenceAfter(b.confidence, likes, dislikes),
      trust |-> Aligned(b.trust, posts, position),
      exposed |-> kept]
=============================================================================
