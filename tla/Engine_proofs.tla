---------------------------- MODULE Engine_proofs ----------------------------
(***************************************************************************)
(* What holds in every run of the engine, for any agents, texts, markets,  *)
(* environments, number of rounds and schedule of events: the types, that  *)
(* a scheduled event is heard once and a viral post published once, that   *)
(* no trade and no investment makes money, that only the posts of others   *)
(* move a belief, and that what is computed from the log (portfolios,      *)
(* graph, tables, story) is what the environments hold.                    *)
(*                                                                         *)
(* Control (ControlInv) is inductive alone; with it what the agents heard  *)
(* (HeardInv) and the environments (WorldInv); with those the published    *)
(* events (ViralInv), the beliefs (BeliefInv), the memory (MemoryInv) and  *)
(* the trades (LedgerInv: the log and the records of the round explain the *)
(* portfolios, in the middle of a round too).  ReportInv says the same of  *)
(* the social platform: an accepted call is a deed, and log and records    *)
(* tell of every deed exactly as often as it was done.                     *)
(* A turn is a recursion over the calls of an answer, so what holds of the *)
(* world after it is an induction over the calls, made here as a descent:  *)
(* a set of counterexamples of which each has a smaller one is empty.      *)
(***************************************************************************)
EXTENDS Engine, FiniteSetTheorems, SequenceTheorems, WellFoundedInduction, TLAPS

-----------------------------------------------------------------------------
(* Induction by descent, over numbers and over finite sets.                  *)

Less == {ss \in Nat \X Nat : ss[1] < ss[2]}

\* A set of numbers that is not empty has a least one.
LEMMA LeastOf ==
    ASSUME NEW S \in SUBSET Nat, S # {}
    PROVE  \E n \in S : \A m \in S : n <= m
PROOF
<1>1. IsWellFoundedOn(Less, Nat)
    BY NatLessThanWellFounded DEF OpToRel, Less
<1>2. PICK n \in S : \A m \in S : ~ (<<m, n>> \in Less)
    BY <1>1, WFMin
<1>3. ASSUME NEW m \in S
      PROVE  n <= m
    <2>1. n \in Nat /\ m \in Nat /\ <<m, n>> \in Nat \X Nat
        OBVIOUS
    <2>2. ~ (m < n)
        BY <1>2, <2>1 DEF Less
    <2>. QED  BY <2>1, <2>2
<1>. QED  BY <1>3

\* Induction over numbers, by descent.
LEMMA Descent ==
    ASSUME NEW S \in SUBSET Nat, \A m \in S : \E k \in S : k < m
    PROVE  S = {}
PROOF
<1>1. ASSUME S # {} PROVE FALSE
    <2>1. PICK n \in S : \A m \in S : n <= m
        BY <1>1, LeastOf
    <2>2. PICK k \in S : k < n
        OBVIOUS
    <2>. QED  BY <2>1, <2>2
<1>. QED  BY <1>1

LEMMA SmallerSet ==
    ASSUME NEW D, IsFiniteSet(D), NEW s \in SUBSET D
    PROVE  /\ IsFiniteSet(s) /\ Cardinality(s) \in Nat
           /\ s = {} <=> Cardinality(s) = 0
           /\ \A x \in s : s \ {x} \in SUBSET D /\ Cardinality(s \ {x}) = Cardinality(s) - 1
PROOF
<1>1. IsFiniteSet(s)
    BY FS_Subset
<1>. QED  BY <1>1, FS_CardinalityType, FS_EmptySet, FS_RemoveElement

\* ... and over the subsets of a finite set.
LEMMA SetDescent ==
    ASSUME NEW D, IsFiniteSet(D), NEW Bad \in SUBSET (SUBSET D),
           \A s \in Bad : \E x \in s : s \ {x} \in Bad
    PROVE  Bad = {}
PROOF
<1>1. IsWellFoundedOn(StrictSubsetOrdering(D), SUBSET D)
    BY FS_StrictSubsetOrderingWellFounded, FS_FiniteSubsetsOfFinite
<1>2. ASSUME Bad # {} PROVE FALSE
    <2>1. PICK s \in Bad : \A y \in Bad : ~(<<y, s>> \in StrictSubsetOrdering(D))
        BY <1>1, <1>2, WFMin
    <2>2. PICK x \in s : s \ {x} \in Bad
        OBVIOUS
    <2>3. <<s \ {x}, s>> \in StrictSubsetOrdering(D)
        BY <2>2 DEF StrictSubsetOrdering
    <2>. QED  BY <2>1, <2>2, <2>3
<1>. QED  BY <1>2

-----------------------------------------------------------------------------
(* Sums. MapThenSumSet takes out the members of a set in an order it         *)
(* chooses; the total does not depend on it.                                 *)

Numbers(v) == IsFiniteSet(DOMAIN v) /\ \A x \in DOMAIN v : v[x] \in Int

Some(s) == CHOOSE x \in s : TRUE

UpToSize(v, n) == {s \in SUBSET DOMAIN v : Cardinality(s) <= n}

\* The recursion behind a sum, on the subsets of at most n members.
Partial(u, v, n) ==
    /\ u \in [UpToSize(v, n) -> Int]
    /\ \A s \in UpToSize(v, n) :
          u[s] = IF s = {} THEN 0 ELSE v[Some(s)] + u[s \ {Some(s)}]

LEMMA PartialSums ==
    ASSUME NEW v, Numbers(v), NEW n \in Nat
    PROVE  \E u : Partial(u, v, n)
PROOF
<1>. DEFINE Bad == {m \in Nat : ~ \E u : Partial(u, v, m)}
<1>0. IsFiniteSet(DOMAIN v) /\ \A x \in DOMAIN v : v[x] \in Int
    BY DEF Numbers
<1>1. \E u : Partial(u, v, 0)
    <2>. DEFINE u == [s \in UpToSize(v, 0) |-> 0]
    <2>1. \A s \in UpToSize(v, 0) : s = {}
        BY <1>0, SmallerSet DEF UpToSize
    <2>2. Partial(u, v, 0)
        BY <2>1 DEF Partial
    <2>. QED  BY <2>2
<1>2. ASSUME NEW m \in Nat, \E u : Partial(u, v, m)
      PROVE  \E u : Partial(u, v, m + 1)
    <2>1. PICK g : Partial(g, v, m)
        BY <1>2
    <2>. DEFINE u == [s \in UpToSize(v, m + 1) |->
                        IF Cardinality(s) <= m THEN g[s] ELSE v[Some(s)] + g[s \ {Some(s)}]]
    <2>2. ASSUME NEW s \in UpToSize(v, m + 1), s # {}
          PROVE  /\ Some(s) \in s /\ v[Some(s)] \in Int
                 /\ s \ {Some(s)} \in UpToSize(v, m) /\ s \ {Some(s)} \in UpToSize(v, m + 1)
                 /\ g[s \ {Some(s)}] \in Int
                 /\ u[s \ {Some(s)}] = g[s \ {Some(s)}]
        <3>1. Some(s) \in s /\ s \in SUBSET DOMAIN v
            BY <2>2 DEF Some, UpToSize
        <3>2. /\ Cardinality(s) \in Nat /\ Cardinality(s) <= m + 1
              /\ s \ {Some(s)} \in SUBSET DOMAIN v
              /\ Cardinality(s \ {Some(s)}) = Cardinality(s) - 1
            BY <1>0, <3>1, SmallerSet DEF UpToSize
        <3>3. Cardinality(s \ {Some(s)}) <= m /\ Cardinality(s \ {Some(s)}) <= m + 1
            BY <3>2
        <3>4. s \ {Some(s)} \in UpToSize(v, m) /\ s \ {Some(s)} \in UpToSize(v, m + 1)
            BY <3>2, <3>3 DEF UpToSize
        <3>5. g[s \ {Some(s)}] \in Int
            BY <2>1, <3>4 DEF Partial
        <3>. QED  BY <1>0, <3>1, <3>3, <3>4, <3>5
    <2>3. ASSUME NEW s \in UpToSize(v, m + 1)
          PROVE  u[s] \in Int /\ u[s] = IF s = {} THEN 0 ELSE v[Some(s)] + u[s \ {Some(s)}]
        <3>1. CASE Cardinality(s) <= m
            <4>1. s \in UpToSize(v, m) /\ u[s] = g[s]
                BY <3>1 DEF UpToSize
            <4>2. g[s] \in Int /\ g[s] = IF s = {} THEN 0 ELSE v[Some(s)] + g[s \ {Some(s)}]
                BY <2>1, <4>1 DEF Partial
            <4>. HIDE DEF u
            <4>. QED  BY <2>2, <4>1, <4>2
        <3>2. CASE ~(Cardinality(s) <= m)
            <4>1. s # {}
                BY <3>2, SmallerSet, <1>0 DEF UpToSize
            <4>2. u[s] = v[Some(s)] + g[s \ {Some(s)}]
                BY <3>2
            <4>. HIDE DEF u
            <4>. QED  BY <2>2, <4>1, <4>2
        <3>. QED  BY <3>1, <3>2
    <2>4. u \in [UpToSize(v, m + 1) -> Int]
        BY <2>3
    <2>. HIDE DEF u
    <2>5. Partial(u, v, m + 1)
        BY <2>3, <2>4 DEF Partial
    <2>. QED  BY <2>5
<1>3. ASSUME NEW m \in Bad PROVE \E k \in Bad : k < m
    <2>1. m # 0 /\ m - 1 \in Nat /\ m - 1 < m /\ (m - 1) + 1 = m
        BY <1>1
    <2>2. ~ \E u : Partial(u, v, m - 1)
        BY <1>2, <2>1
    <2>. QED  BY <2>1, <2>2
<1>4. Bad = {}
    <2>1. Bad \in SUBSET Nat
        OBVIOUS
    <2>. HIDE DEF Bad
    <2>. QED  BY <2>1, <1>3, Descent
<1>. QED  BY <1>4

\* u[s] is the sum over s, whichever member is taken out first.
Additive(u, v) ==
    /\ u[{}] = 0
    /\ \A s \in SUBSET DOMAIN v :
          u[s] \in Int /\ \A x \in s : u[s] = v[x] + u[s \ {x}]

LEMMA SumIsAdditive ==
    ASSUME NEW v, Numbers(v)
    PROVE  \E u : Additive(u, v) /\ Sum(v) = u[DOMAIN v]
PROOF
<1>. DEFINE D == DOMAIN v
            Unfolds(u) == u = [s \in SUBSET DOMAIN v |->
                IF s = {} THEN 0
                ELSE v[CHOOSE x \in s : TRUE] + u[s \ {CHOOSE x \in s : TRUE}]]
            iter == CHOOSE u : Unfolds(u)
<1>0. IsFiniteSet(D) /\ \A x \in D : v[x] \in Int
    BY DEF Numbers
<1>1. Sum(v) = iter[DOMAIN v]
    BY DEF Sum, MapThenSumSet, MapThenFoldSet
<1>2. PICK g : Partial(g, v, Cardinality(D))
    BY <1>0, PartialSums, FS_CardinalityType
<1>3. UpToSize(v, Cardinality(D)) = SUBSET D
    BY <1>0, FS_Subset DEF UpToSize
<1>4. Unfolds(g)
    BY <1>2, <1>3 DEF Partial, Some
<1>5. Unfolds(iter)
    <2>. HIDE DEF Unfolds
    <2>. QED  BY <1>4
<1>. HIDE DEF iter
<1>6. \A s \in SUBSET D : iter[s] = IF s = {} THEN 0 ELSE v[Some(s)] + iter[s \ {Some(s)}]
    BY <1>5 DEF Some
<1>. HIDE DEF Unfolds
<1>7. \A s \in SUBSET D : s # {} => Some(s) \in s /\ s \ {Some(s)} \in SUBSET D /\ v[Some(s)] \in Int
    BY <1>0 DEF Some
<1>. HIDE DEF D
<1>8. \A s \in SUBSET D : iter[s] \in Int
    <2>. DEFINE Bad == {s \in SUBSET D : iter[s] \notin Int}
    <2>1. ASSUME NEW s \in Bad PROVE \E x \in s : s \ {x} \in Bad
        <3>1. s \in SUBSET D /\ iter[s] \notin Int
            OBVIOUS
        <3>2. s # {} /\ iter[s] = v[Some(s)] + iter[s \ {Some(s)}]
            BY <1>6, <3>1
        <3>3. Some(s) \in s /\ s \ {Some(s)} \in SUBSET D /\ v[Some(s)] \in Int
            BY <1>7, <3>1, <3>2
        <3>4. iter[s \ {Some(s)}] \notin Int
            BY <3>1, <3>2, <3>3
        <3>. QED  BY <3>3, <3>4
    <2>2. Bad = {}
        <3>1. Bad \in SUBSET (SUBSET D)
            OBVIOUS
        <3>. HIDE DEF Bad
        <3>. QED  BY <1>0, <2>1, <3>1, SetDescent
    <2>. QED  BY <2>2
<1>9. \A s \in SUBSET D : \A x \in s : iter[s] = v[x] + iter[s \ {x}]
    <2>. DEFINE Bad == {s \in SUBSET D : \E x \in s : iter[s] # v[x] + iter[s \ {x}]}
    <2>1. ASSUME NEW s \in Bad PROVE \E x \in s : s \ {x} \in Bad
        <3>1. PICK x \in s : iter[s] # v[x] + iter[s \ {x}]
            OBVIOUS
        <3>. DEFINE c == Some(s)
        <3>2. s \in SUBSET D /\ c \in s /\ v[c] \in Int /\ v[x] \in Int /\ iter[s] = v[c] + iter[s \ {c}]
            BY <1>0, <1>6, <1>7, <3>1
        <3>. HIDE DEF c
        <3>3. /\ s \ {c} \in SUBSET D /\ s \ {x} \in SUBSET D /\ x # c
              /\ x \in s \ {c} /\ c \in s \ {x} /\ (s \ {c}) \ {x} = (s \ {x}) \ {c}
              /\ (s \ {c}) \ {x} \in SUBSET D
            BY <3>1, <3>2
        <3>4. iter[(s \ {c}) \ {x}] \in Int
            BY <1>8, <3>3
        <3>5. s \ {c} \in Bad \/ s \ {x} \in Bad
            <4>1. s \ {c} \notin Bad => iter[s \ {c}] = v[x] + iter[(s \ {c}) \ {x}]
                BY <3>3
            <4>2. s \ {x} \notin Bad => iter[s \ {x}] = v[c] + iter[(s \ {x}) \ {c}]
                BY <3>3
            <4>. HIDE DEF Bad
            <4>. DEFINE t == iter[(s \ {c}) \ {x}]
            <4>3. iter[(s \ {x}) \ {c}] = t /\ t \in Int
                BY <3>3, <3>4
            <4>. HIDE DEF t
            <4>4. s \ {c} \notin Bad => iter[s] = v[c] + (v[x] + t)
                BY <3>2, <4>1 DEF t
            <4>5. s \ {x} \notin Bad => v[x] + iter[s \ {x}] = v[x] + (v[c] + t)
                BY <4>2, <4>3
            <4>6. v[c] + (v[x] + t) = v[x] + (v[c] + t)
                BY <3>2, <4>3
            <4>. QED  BY <3>1, <4>4, <4>5, <4>6
        <3>. QED  BY <3>1, <3>2, <3>5
    <2>2. Bad = {}
        <3>1. Bad \in SUBSET (SUBSET D)
            OBVIOUS
        <3>. HIDE DEF Bad
        <3>. QED  BY <1>0, <2>1, <3>1, SetDescent
    <2>. QED  BY <2>2
<1>10. iter[{}] = 0
    BY <1>6
<1>11. Additive(iter, v) /\ Sum(v) = iter[DOMAIN v]
    BY <1>1, <1>8, <1>9, <1>10 DEF Additive, D
<1>. QED  BY <1>11

LEMMA SumFacts ==
    ASSUME NEW v, Numbers(v)
    PROVE  /\ Sum(v) \in Int
           /\ DOMAIN v = {} => Sum(v) = 0
           /\ (\A x \in DOMAIN v : v[x] >= 0) => Sum(v) >= 0
           /\ (\A x \in DOMAIN v : v[x] <= 0) => Sum(v) <= 0
PROOF
<1>. DEFINE D == DOMAIN v
<1>0. IsFiniteSet(D) /\ \A x \in D : v[x] \in Int
    BY DEF Numbers
<1>1. PICK u : Additive(u, v) /\ Sum(v) = u[D]
    BY SumIsAdditive
<1>. HIDE DEF D
<1>2. /\ u[{}] = 0
      /\ \A s \in SUBSET D : u[s] \in Int
      /\ \A s \in SUBSET D : \A x \in s : u[s] = v[x] + u[s \ {x}]
    BY <1>1 DEF Additive, D
<1>3. ASSUME NEW sign \in {1, -1}, \A x \in D : sign * v[x] >= 0
      PROVE  sign * u[D] >= 0
    <2>. DEFINE Bad == {s \in SUBSET D : ~(sign * u[s] >= 0)}
    <2>1. ASSUME NEW s \in Bad PROVE \E x \in s : s \ {x} \in Bad
        <3>1. s \in SUBSET D /\ ~(sign * u[s] >= 0)
            OBVIOUS
        <3>2. PICK x \in s : TRUE
            <4>1. sign * 0 >= 0
                OBVIOUS
            <4>2. s # {}
                BY <1>2, <3>1, <4>1
            <4>. QED  BY <4>2
        <3>3. /\ v[x] \in Int /\ sign * v[x] >= 0 /\ s \ {x} \in SUBSET D
              /\ u[s \ {x}] \in Int /\ u[s] = v[x] + u[s \ {x}]
            BY <1>0, <1>2, <1>3, <3>1
        <3>4. ~(sign * u[s \ {x}] >= 0)
            BY <3>1, <3>3
        <3>. QED  BY <3>3, <3>4
    <2>2. Bad = {}
        <3>1. Bad \in SUBSET (SUBSET D)
            OBVIOUS
        <3>. HIDE DEF Bad
        <3>. QED  BY <1>0, <2>1, <3>1, SetDescent
    <2>. QED  BY <2>2
<1>4. (\A x \in D : v[x] >= 0) => Sum(v) >= 0
    <2>. SUFFICES ASSUME \A x \in D : v[x] >= 0 PROVE u[D] >= 0
        BY <1>1
    <2>1. \A x \in D : 1 * v[x] >= 0
        BY <1>0
    <2>2. 1 * u[D] >= 0
        BY <1>3, <2>1
    <2>. QED  BY <1>2, <2>2
<1>5. (\A x \in D : v[x] <= 0) => Sum(v) <= 0
    <2>. SUFFICES ASSUME \A x \in D : v[x] <= 0 PROVE u[D] <= 0
        BY <1>1
    <2>1. \A x \in D : (-1) * v[x] >= 0
        BY <1>0
    <2>2. (-1) * u[D] >= 0
        BY <1>3, <2>1
    <2>. QED  BY <1>2, <2>2
<1>. QED  BY <1>1, <1>2, <1>4, <1>5 DEF D

\* A term of a sum changes.
LEMMA SumChange ==
    ASSUME NEW D, IsFiniteSet(D), NEW v \in [D -> Int], NEW w \in [D -> Int], NEW x \in D,
           \A y \in D : y # x => w[y] = v[y]
    PROVE  Sum(w) = Sum(v) - v[x] + w[x]
PROOF
<1>0. Numbers(v) /\ Numbers(w) /\ DOMAIN v = D /\ DOMAIN w = D
    BY DEF Numbers
<1>1. PICK u : Additive(u, v) /\ Sum(v) = u[D]
    BY <1>0, SumIsAdditive
<1>2. PICK t : Additive(t, w) /\ Sum(w) = t[D]
    BY <1>0, SumIsAdditive
<1>3. /\ u[{}] = 0 /\ t[{}] = 0
      /\ \A s \in SUBSET D : u[s] \in Int /\ t[s] \in Int
      /\ \A s \in SUBSET D : \A y \in s : u[s] = v[y] + u[s \ {y}] /\ t[s] = w[y] + t[s \ {y}]
    BY <1>0, <1>1, <1>2 DEF Additive
<1>4. u[D \ {x}] = t[D \ {x}]
    <2>. DEFINE Bad == {s \in SUBSET (D \ {x}) : u[s] # t[s]}
    <2>1. ASSUME NEW s \in Bad PROVE \E y \in s : s \ {y} \in Bad
        <3>1. s \in SUBSET D /\ x \notin s /\ u[s] # t[s]
            OBVIOUS
        <3>2. PICK y \in s : TRUE
            BY <1>3, <3>1
        <3>3. /\ v[y] = w[y] /\ s \ {y} \in SUBSET (D \ {x})
              /\ u[s] = v[y] + u[s \ {y}] /\ t[s] = w[y] + t[s \ {y}]
            BY <1>3, <3>1
        <3>4. u[s \ {y}] # t[s \ {y}]
            BY <3>1, <3>3
        <3>. QED  BY <3>3, <3>4
    <2>2. Bad = {}
        <3>1. Bad \in SUBSET (SUBSET D) /\ Bad \in SUBSET (SUBSET (D \ {x}))
            OBVIOUS
        <3>. HIDE DEF Bad
        <3>. QED  BY <2>1, <3>1, SetDescent
    <2>. QED  BY <2>2
<1>5. /\ u[D] = v[x] + u[D \ {x}] /\ t[D] = w[x] + t[D \ {x}]
      /\ v[x] \in Int /\ w[x] \in Int /\ u[D \ {x}] \in Int
    BY <1>3
<1>. QED  BY <1>1, <1>2, <1>4, <1>5

LEMMA Times ==
    ASSUME NEW n \in Int, NEW c \in Int
    PROVE  n * c \in Int /\ (n + 1) * c = n * c + c /\ 0 * c = 0
PROOF
    OBVIOUS

LEMMA SumConstant ==
    ASSUME NEW D, IsFiniteSet(D), NEW c \in Int
    PROVE  Sum([x \in D |-> c]) = Cardinality(D) * c
PROOF
<1>. DEFINE v == [x \in D |-> c]
<1>0. Numbers(v) /\ DOMAIN v = D
    BY DEF Numbers
<1>1. PICK u : Additive(u, v) /\ Sum(v) = u[D]
    BY <1>0, SumIsAdditive
<1>2. /\ u[{}] = 0 /\ \A s \in SUBSET D : u[s] \in Int
      /\ \A s \in SUBSET D : \A y \in s : u[s] = c + u[s \ {y}]
    BY <1>1 DEF Additive
<1>. DEFINE Bad == {s \in SUBSET D : u[s] # Cardinality(s) * c}
<1>3. ASSUME NEW s \in Bad PROVE \E y \in s : s \ {y} \in Bad
    <2>1. s \in SUBSET D /\ u[s] # Cardinality(s) * c
        OBVIOUS
    <2>2. s # {}
        BY <1>2, <2>1, FS_EmptySet, Times
    <2>3. PICK y \in s : TRUE
        BY <2>2
    <2>. DEFINE n == Cardinality(s \ {y})
    <2>4. n \in Nat /\ Cardinality(s) = n + 1 /\ s \ {y} \in SUBSET D
        BY <2>1, <2>3, SmallerSet
    <2>5. u[s] = c + u[s \ {y}] /\ u[s \ {y}] \in Int
        BY <1>2, <2>1, <2>4
    <2>. HIDE DEF n
    <2>6. n * c \in Int /\ (n + 1) * c = n * c + c
        BY <2>4, Times
    <2>7. Cardinality(s) * c = n * c + c
        BY <2>4, <2>6, Zenon
    <2>8. u[s \ {y}] # n * c
        BY <2>1, <2>5, <2>6, <2>7
    <2>. QED  BY <2>3, <2>4, <2>8 DEF n
<1>4. Bad = {}
    <2>1. Bad \in SUBSET (SUBSET D)
        OBVIOUS
    <2>. HIDE DEF Bad
    <2>. QED  BY <1>3, <2>1, SetDescent
<1>. QED  BY <1>1, <1>4

-----------------------------------------------------------------------------
(* The types the handlers keep, and the social platform.                     *)

Post == [author : Agents, text : Texts, parent : Nat, likes : Nat, dislikes : Nat,
         reposts : Nat, created : Nat, voters : SUBSET Agents]

SocialState == [round : Nat, posts : Seq(Post), follows : [Agents -> SUBSET Targets],
                viral : SUBSET Nat, events : {{}}]

SocialOK(s) ==
    /\ s \in SocialState
    /\ s.viral \subseteq DOMAIN s.posts
    /\ \A p \in DOMAIN s.posts : s.posts[p].parent < p /\ s.posts[p].created <= s.round

Reserves == [Outcomes -> Nat]
Portfolio == [balance : Nat, shares : [Markets -> [Outcomes -> Nat]]]
MarketState == [round : Nat, markets : [Markets -> Reserves], last : [Markets -> Reserves],
                comments : Nat, portfolios : [{} -> Portfolio] \cup [Agents -> Portfolio],
                events : {{}}]

Actor == [balance : Int, workforce : Int, price : Int, output : Int]
Metrics == [employed : Int, prices : Int, sellers : Int, output : Int, invested : Int]
EconomyState == [round : Nat, actors : [{} -> Actor] \cup [Agents -> Actor],
                 policies : Seq([by : Agents, round : Nat]), invested : Int,
                 metrics : Metrics, last : Metrics, events : {{}}]

\* What the calls of an answer are like.
CallOK(c) ==
    /\ c.name \in {"create_post", "reply"} => c.text \in Texts
    /\ c.name = "follow" => c.agent \in Targets
    /\ c.name \in {"buy_shares", "sell_shares", "set_price", "hire", "fire", "invest"}
          => c.amount \in Int

LEMMA CallFacts ==
    ASSUME NEW a \in Agents, NEW c \in Calls(a)
    PROVE  CallOK(c)
PROOF
<1>0. ReplyTexts \subseteq Texts /\ TradeAmounts \subseteq Int /\ Quantities \subseteq Int
    BY EngineAssumption
<1>1. CASE c \in {[name |-> "do_nothing"]} \cup StrayCalls
    BY <1>0, <1>1 DEF StrayCalls, CallOK
<1>2. CASE c \in SocialCalls(a)
    BY <1>0, <1>2 DEF SocialCalls, CallOK
<1>3. CASE c \in MarketCalls
    BY <1>0, <1>3 DEF MarketCalls, TradeCalls, CallOK
<1>4. CASE c \in EconomicCalls
    BY <1>0, <1>4 DEF EconomicCalls, CallOK
<1>. QED  BY <1>1, <1>2, <1>3, <1>4 DEF Calls

LEMMA VoteKept ==
    ASSUME NEW q \in Post, NEW a \in Agents, NEW liked
    PROVE  /\ WithVote(q, a, liked) \in Post
           /\ WithVote(q, a, liked).parent = q.parent /\ WithVote(q, a, liked).created = q.created
PROOF
<1>. DEFINE up == IF liked THEN 1 ELSE 0
            down == IF liked THEN 0 ELSE 1
<1>1. up \in Nat /\ down \in Nat
    OBVIOUS
<1>2. WithVote(q, a, liked)
        = [q EXCEPT !.voters = @ \cup {a}, !.likes = @ + up, !.dislikes = @ + down]
    BY DEF WithVote
<1>. HIDE DEF up, down
<1>. DEFINE v == q.voters \cup {a}
            l == q.likes + up
            d == q.dislikes + down
<1>3. v \in SUBSET Agents /\ l \in Nat /\ d \in Nat
    BY <1>1 DEF Post
<1>4. WithVote(q, a, liked) = [q EXCEPT !.voters = v, !.likes = l, !.dislikes = d]
    BY <1>2 DEF Post
<1>. HIDE DEF v, l, d
<1>5. [q EXCEPT !.voters = v, !.likes = l, !.dislikes = d] \in Post
    BY <1>3 DEF Post
<1>. QED  BY <1>4, <1>5 DEF Post

\* A handler of the social platform: what it leaves, and the result.
LEMMA SocialHandler ==
    ASSUME NEW s, SocialOK(s), NEW a \in Agents, NEW c, CallOK(c),
           NEW out, out = SocialExecute(s, a, c)
    PROVE  /\ SocialOK(out.env)
           /\ DOMAIN s.posts \subseteq DOMAIN out.env.posts
           /\ out.env.viral = s.viral /\ out.env.round = s.round
           /\ out.success /\ c.name \in PostActions => out.data.post \in DOMAIN out.env.posts
PROOF
<1>0. /\ s \in SocialState /\ s.posts \in Seq(Post) /\ s.round \in Nat
      /\ s.viral \subseteq DOMAIN s.posts
      /\ \A p \in DOMAIN s.posts : s.posts[p].parent < p /\ s.posts[p].created <= s.round
    BY DEF SocialOK, SocialState
<1>1. ASSUME NEW text \in Texts, NEW parent \in Nat, parent <= Len(s.posts),
             out = Written(s, a, text, parent)
      PROVE  /\ SocialOK(out.env)
             /\ DOMAIN s.posts \subseteq DOMAIN out.env.posts
             /\ out.env.viral = s.viral /\ out.env.round = s.round
             /\ out.data.post \in DOMAIN out.env.posts
    <2>. DEFINE new == NewPost(a, text, parent, s.round)
                posts == Append(s.posts, new)
    <2>1. new \in Post /\ new.parent = parent /\ new.created = s.round
        BY <1>0 DEF NewPost, Post
    <2>. HIDE DEF new
    <2>2. /\ posts \in Seq(Post) /\ Len(posts) = Len(s.posts) + 1 /\ Len(s.posts) \in Nat
          /\ DOMAIN posts = 1..Len(s.posts) + 1 /\ DOMAIN s.posts = 1..Len(s.posts)
          /\ \A p \in DOMAIN s.posts : posts[p] = s.posts[p]
          /\ posts[Len(s.posts) + 1] = new
        BY <1>0, <2>1
    <2>3. out.env = [s EXCEPT !.posts = posts] /\ out.data.post = Len(s.posts) + 1
        BY <1>1 DEF Written, Done, NoData, new
    <2>. HIDE DEF posts
    <2>4. /\ out.env \in SocialState /\ out.env.posts = posts /\ out.env.viral = s.viral
          /\ out.env.round = s.round
        BY <1>0, <2>2, <2>3 DEF SocialState
    <2>5. ASSUME NEW p \in DOMAIN posts
          PROVE  posts[p].parent < p /\ posts[p].created <= s.round
        <3>1. CASE p \in DOMAIN s.posts
            BY <1>0, <2>2, <3>1
        <3>2. CASE p = Len(s.posts) + 1
            <4>1. posts[p] = new
                BY <2>2, <3>2
            <4>2. posts[p].parent = parent /\ posts[p].created = s.round
                BY <2>1, <4>1
            <4>. QED  BY <1>0, <1>1, <2>2, <3>2, <4>2
        <3>. QED  BY <2>2, <3>1, <3>2
    <2>. QED  BY <1>0, <2>2, <2>3, <2>4, <2>5 DEF SocialOK
<1>2. ASSUME NEW post \in DOMAIN s.posts, NEW p \in Post,
             p.parent = s.posts[post].parent, p.created = s.posts[post].created,
             out.env = [s EXCEPT !.posts = [@ EXCEPT ![post] = p]]
      PROVE  /\ SocialOK(out.env)
             /\ DOMAIN s.posts \subseteq DOMAIN out.env.posts
             /\ out.env.viral = s.viral /\ out.env.round = s.round
    <2>. DEFINE posts == [s.posts EXCEPT ![post] = p]
    <2>1. /\ posts \in Seq(Post) /\ DOMAIN posts = DOMAIN s.posts
          /\ \A q \in DOMAIN s.posts : posts[q] = IF q = post THEN p ELSE s.posts[q]
        BY <1>0
    <2>2. out.env = [s EXCEPT !.posts = posts]
        BY <1>2
    <2>. HIDE DEF posts
    <2>3. /\ out.env \in SocialState /\ out.env.posts = posts /\ out.env.viral = s.viral
          /\ out.env.round = s.round
        BY <1>0, <2>1, <2>2 DEF SocialState
    <2>. QED  BY <1>0, <1>2, <2>1, <2>3 DEF SocialOK
<1>3. CASE c.name = "create_post"
    <2>1. out = Written(s, a, c.text, NoPost) /\ c.text \in Texts
        BY <1>3 DEF SocialExecute, CreatePost, CallOK
    <2>. QED  BY <1>0, <1>1, <2>1 DEF NoPost
<1>4. CASE c.name = "reply" /\ Exists(s, c.post)
    <2>1. out = Written(s, a, c.text, c.post) /\ c.text \in Texts
        BY <1>4 DEF SocialExecute, Reply, CallOK
    <2>2. c.post \in Nat /\ c.post <= Len(s.posts)
        BY <1>0, <1>4 DEF Exists
    <2>. QED  BY <1>1, <2>1, <2>2
<1>5. CASE c.name = "vote" /\ Exists(s, c.post) /\ a \notin s.posts[c.post].voters
    <2>. DEFINE p == WithVote(s.posts[c.post], a, VoteValue(c) > 0)
    <2>1. s.posts[c.post] \in Post /\ c.post \in DOMAIN s.posts
        BY <1>0, <1>5 DEF Exists
    <2>2. p \in Post /\ p.parent = s.posts[c.post].parent /\ p.created = s.posts[c.post].created
        BY <2>1, VoteKept
    <2>3. out.env = [s EXCEPT !.posts[c.post] = p]
        BY <1>5 DEF SocialExecute, Vote, Voted, Done
    <2>. HIDE DEF p
    <2>4. out.env = [s EXCEPT !.posts = [@ EXCEPT ![c.post] = p]]
        BY <1>0, <2>1, <2>3 DEF SocialState
    <2>. QED  BY <1>2, <1>5, <2>1, <2>2, <2>4 DEF PostActions
<1>6. CASE c.name = "repost" /\ Exists(s, c.post)
    <2>. DEFINE p == [s.posts[c.post] EXCEPT !.reposts = @ + 1]
    <2>1. s.posts[c.post] \in Post /\ c.post \in DOMAIN s.posts
        BY <1>0, <1>6 DEF Exists
    <2>2. p \in Post /\ p.parent = s.posts[c.post].parent /\ p.created = s.posts[c.post].created
        BY <2>1 DEF Post
    <2>3. out.env = [s EXCEPT !.posts = [@ EXCEPT ![c.post] = p]]
        BY <1>0, <1>6, <2>1 DEF SocialExecute, Repost, Done, SocialState, Post
    <2>. QED  BY <1>2, <1>6, <2>1, <2>2, <2>3 DEF PostActions
<1>7. CASE c.name = "follow"
    <2>1. out.env = [s EXCEPT !.follows[a] = @ \cup {c.agent}] /\ c.agent \in Targets
        BY <1>7 DEF SocialExecute, Follow, Done, CallOK
    <2>. DEFINE follows == [s.follows EXCEPT ![a] = @ \cup {c.agent}]
    <2>3. follows \in [Agents -> SUBSET Targets]
        BY <1>0, <2>1 DEF SocialState
    <2>4. out.env = [s EXCEPT !.follows = follows]
        BY <1>0, <2>1 DEF SocialState
    <2>. HIDE DEF follows
    <2>2. /\ out.env \in SocialState /\ out.env.posts = s.posts /\ out.env.viral = s.viral
          /\ out.env.round = s.round
        BY <1>0, <2>3, <2>4 DEF SocialState
    <2>. QED  BY <1>0, <1>7, <2>2 DEF SocialOK, PostActions
<1>8. CASE \/ c.name \notin {"create_post", "reply", "vote", "repost", "follow"}
           \/ c.name \in {"reply", "repost"} /\ ~Exists(s, c.post)
           \/ c.name = "vote" /\ ~(Exists(s, c.post) /\ a \notin s.posts[c.post].voters)
    <2>1. out.env = s /\ (c.name \in PostActions => ~out.success)
        BY <1>8 DEF SocialExecute, Reply, Vote, Repost, Done, Refused, PostActions
    <2>. QED  BY <1>0, <2>1
<1>. QED  BY <1>3, <1>4, <1>5, <1>6, <1>7, <1>8

-----------------------------------------------------------------------------
(* Markets: what a trade adds to the pool, the cash and the shares adds up   *)
(* to nothing, whatever the quotient is rounded to.                          *)

LEMMA Quotient ==
    ASSUME NEW x \in Nat, NEW y \in Nat, NEW g \in Nat, g > 0, x <= g
    PROVE  (x * y) \div g \in Nat /\ (x * y) \div g <= y
PROOF
<1>. DEFINE p == x * y
            q == p \div g
<1>1. p \in Nat /\ p <= g * y
    OBVIOUS
<1>. HIDE DEF p
<1>2. q \in Nat /\ g * q <= p
    BY <1>1
<1>. HIDE DEF q
<1>3. ASSUME q > y PROVE FALSE
    <2>1. g * q = g * y + g * (q - y)
        BY <1>2
    <2>2. g * (q - y) > 0
        BY <1>2, <1>3
    <2>. QED  BY <1>1, <1>2, <2>1, <2>2
<1>. QED  BY <1>2, <1>3 DEF p, q

LEMMA SettledKept ==
    ASSUME NEW q \in Portfolio, NEW slug \in Markets, NEW outcome \in Outcomes,
           NEW cash \in Int, NEW shares \in Int,
           q.balance + cash >= 0, q.shares[slug][outcome] + shares >= 0
    PROVE  /\ Settled(q, slug, outcome, cash, shares) \in Portfolio
           /\ Held(q) \in Int
           /\ Held(Settled(q, slug, outcome, cash, shares)) = Held(q) + cash + shares
PROOF
<1>. DEFINE b == q.balance + cash
            n == q.shares[slug][outcome] + shares
            h == [q.shares EXCEPT ![slug][outcome] = n]
            p == Settled(q, slug, outcome, cash, shares)
            v == [m \in Markets |-> q.shares[m].yes + q.shares[m].no]
            w == [m \in Markets |-> h[m].yes + h[m].no]
<1>0. q.balance \in Nat /\ q.shares \in [Markets -> [Outcomes -> Nat]]
    BY DEF Portfolio
<1>1. b \in Nat /\ n \in Nat
    BY <1>0
<1>2. p = [balance |-> b, shares |-> h]
    BY <1>0 DEF Settled
<1>3. h \in [Markets -> [Outcomes -> Nat]]
    BY <1>0, <1>1
<1>4. p \in Portfolio
    BY <1>1, <1>2, <1>3 DEF Portfolio
<1>5. v \in [Markets -> Int] /\ w \in [Markets -> Int]
    BY <1>0, <1>3 DEF Outcomes
<1>6. \A m \in Markets : m # slug => w[m] = v[m]
    BY <1>0
<1>7. w[slug] = v[slug] + shares
    BY <1>0 DEF Outcomes
<1>8. Held(q) = q.balance + Sum(v) /\ Held(p) = b + Sum(w)
    BY <1>2 DEF Held
<1>. HIDE DEF v, w, h, p, n
<1>9. Sum(w) = Sum(v) - v[slug] + w[slug]
    BY <1>5, <1>6, SumChange, MarketAssumption
<1>10. Sum(v) \in Int
    BY <1>5, SumFacts, MarketAssumption DEF Numbers
<1>11. v[slug] \in Int
    BY <1>5
<1>. QED  BY <1>0, <1>4, <1>7, <1>8, <1>9, <1>10, <1>11 DEF p

(* A trade the trader can pay for, and that makes nothing.                 *)
Fair(s, a, c, m, cash, shares) ==
    /\ c.market \in Markets /\ c.outcome \in Outcomes
    /\ m \in Reserves /\ cash \in Int /\ shares \in Int
    /\ s.portfolios[a].balance + cash >= 0
    /\ s.portfolios[a].shares[c.market][c.outcome] + shares >= 0
    /\ Pool(m) + cash + shares = Pool(s.markets[c.market])

LEMMA FairTrade ==
    ASSUME NEW s \in MarketState, DOMAIN s.portfolios = Agents, NEW a \in Agents, NEW c,
           NEW m, NEW cash, NEW shares, NEW data, Fair(s, a, c, m, cash, shares),
           NEW out, out = Traded(s, a, c, m, cash, shares, data)
    PROVE  /\ out.env \in MarketState /\ DOMAIN out.env.portfolios = Agents
           /\ Worth(out.env) = Worth(s) /\ out.env.events = s.events
           /\ \A b \in Agents \ {a} : out.env.portfolios[b] = s.portfolios[b]
           /\ out.env.portfolios[a]
                = Settled(s.portfolios[a], c.market, c.outcome, cash, shares)
           /\ out.success /\ out.data = data
PROOF
<1>. USE DEF Fair
<1>. DEFINE q == Settled(s.portfolios[a], c.market, c.outcome, cash, shares)
            ms == [s.markets EXCEPT ![c.market] = m]
            ps == [s.portfolios EXCEPT ![a] = q]
<1>0. /\ s.markets \in [Markets -> Reserves] /\ s.portfolios \in [Agents -> Portfolio]
      /\ IsFiniteSet(Agents) /\ IsFiniteSet(Markets)
    BY BaseAssumption, MarketAssumption DEF MarketState
<1>1. /\ q \in Portfolio /\ Held(q) = Held(s.portfolios[a]) + cash + shares
    BY <1>0, SettledKept
<1>2. out.env = [s EXCEPT !.markets = ms, !.portfolios = ps]
    BY <1>0 DEF Traded, Done, MarketState
<1>3. ms \in [Markets -> Reserves] /\ ps \in [Agents -> Portfolio]
    BY <1>0, <1>1
<1>. DEFINE v == [x \in Markets |-> Pool(s.markets[x])]
            w == [x \in Markets |-> Pool(ms[x])]
            t == [x \in Agents |-> Held(s.portfolios[x])]
            u == [x \in Agents |-> Held(ps[x])]
<1>4. v \in [Markets -> Int] /\ w \in [Markets -> Int] /\ \A x \in Markets : x # c.market => w[x] = v[x]
    BY <1>0, <1>3 DEF Reserves, Outcomes, Pool
<1>5. \A p \in Portfolio : Held(p) \in Int
    <2>. SUFFICES ASSUME NEW p \in Portfolio PROVE Held(p) \in Int
        OBVIOUS
    <2>. DEFINE z == [x \in Markets |-> p.shares[x].yes + p.shares[x].no]
    <2>1. z \in [Markets -> Int] /\ p.balance \in Int
        BY DEF Portfolio, Outcomes
    <2>2. Held(p) = p.balance + Sum(z)
        BY DEF Held
    <2>. HIDE DEF z
    <2>3. Sum(z) \in Int
        BY <1>0, <2>1, SumFacts DEF Numbers
    <2>. QED  BY <2>1, <2>2, <2>3
<1>. HIDE DEF q, ms, ps
<1>6. t \in [Agents -> Int] /\ u \in [Agents -> Int]
    BY <1>0, <1>3, <1>5
<1>7. \A x \in Agents : x # a => u[x] = t[x]
    BY <1>0 DEF ps
<1>8. w[c.market] = Pool(m) /\ v[c.market] = Pool(s.markets[c.market])
      /\ u[a] = Held(q) /\ t[a] = Held(s.portfolios[a])
    BY <1>0 DEF ms, ps
<1>9. out.env \in MarketState /\ out.env.markets = ms /\ out.env.portfolios = ps /\ out.env.events = s.events
    BY <1>2, <1>3 DEF MarketState
<1>10. Worth(s) = Sum(v) + Sum(t) /\ Worth(out.env) = Sum(w) + Sum(u)
    BY <1>0, <1>3, <1>9 DEF Worth
<1>. HIDE DEF v, w, t, u
<1>11. Sum(w) = Sum(v) - v[c.market] + w[c.market] /\ Sum(u) = Sum(t) - t[a] + u[a]
    BY <1>0, <1>4, <1>6, <1>7, SumChange
<1>12. Sum(v) \in Int /\ Sum(t) \in Int /\ v[c.market] \in Int /\ w[c.market] \in Int /\ t[a] \in Int
    BY <1>0, <1>4, <1>6, SumFacts DEF Numbers
<1>13. Worth(out.env) = Worth(s)
    BY <1>1, <1>8, <1>10, <1>11, <1>12
<1>14. ps[a] = q /\ \A b \in Agents \ {a} : ps[b] = s.portfolios[b]
    BY <1>0 DEF ps
<1>15. out.success /\ out.data = data
    BY DEF Traded, Done
<1>. QED  BY <1>3, <1>9, <1>13, <1>14, <1>15 DEF q
LEMMA PushedFacts ==
    ASSUME NEW m \in Reserves, NEW o \in Outcomes, NEW n \in Nat, n > 0,
           NEW opp, opp = Opposite(o), NEW p, p = Pushed(m, o, n)
    PROVE  /\ p \in Reserves /\ opp \in Outcomes /\ o = Opposite(opp)
           /\ p[o] = m[o] + n /\ p[opp] <= m[opp]
           /\ Pool(m) = m[o] + m[opp] /\ Pool(p) = p[o] + p[opp]
PROOF
<1>. DEFINE g == m[o] + n
            z == Product(m) \div g
<1>1. /\ m[o] \in Nat /\ m[opp] \in Nat /\ opp \in Outcomes /\ o # opp /\ o = Opposite(opp)
      /\ Outcomes = {o, opp} /\ g \in Nat /\ g > 0 /\ m[o] <= g
    BY DEF Reserves, Outcomes, Opposite
<1>2. Product(m) = m[o] * m[opp]
    BY <1>1 DEF Product, Outcomes, Reserves
<1>3. z \in Nat /\ z <= m[opp]
    BY <1>1, <1>2, Quotient
<1>4. p = [m EXCEPT ![o] = g, ![opp] = z]
    BY DEF Pushed
<1>. HIDE DEF g, z
<1>5. p \in Reserves /\ p[o] = g /\ p[opp] = z
    BY <1>1, <1>3, <1>4 DEF Reserves
<1>6. \A r \in Reserves : Pool(r) = r[o] + r[opp]
    BY <1>1 DEF Pool, Reserves, Outcomes
<1>. QED  BY <1>1, <1>3, <1>5, <1>6 DEF g

Trade(c) == c.name \in {"buy_shares", "sell_shares"}

CashOf(c, d) == IF c.name = "buy_shares" THEN -d.cost ELSE d.cost
SharesOf(c, d) == IF c.name = "buy_shares" THEN d.shares ELSE -d.shares

\* What an accepted trade does to the trader is what its record says of it.
Flow(s, a, c, out) ==
    /\ \A b \in Agents \ {a} : out.env.portfolios[b] = s.portfolios[b]
    /\ ~(out.success /\ Trade(c)) =>
          out.env.portfolios = s.portfolios /\ out.env.markets = s.markets
    /\ out.success /\ Trade(c) =>
          /\ c.market \in Markets /\ c.outcome \in Outcomes
          /\ out.data.cost \in Int /\ out.data.shares \in Int
          /\ out.env.portfolios[a] = Settled(s.portfolios[a], c.market, c.outcome,
                                             CashOf(c, out.data), SharesOf(c, out.data))

LEMMA MarketHandler ==
    ASSUME NEW s \in MarketState, DOMAIN s.portfolios = Agents, NEW a \in Agents,
           NEW c, CallOK(c), NEW out, out = MarketExecute(s, a, c)
    PROVE  /\ out.env \in MarketState /\ DOMAIN out.env.portfolios = Agents
           /\ Worth(out.env) = Worth(s) /\ out.env.events = s.events
           /\ Flow(s, a, c, out)
PROOF
<1>0. /\ s.markets \in [Markets -> Reserves] /\ s.portfolios \in [Agents -> Portfolio]
    BY DEF MarketState
<1>1. Registered(s, {a}) = s
    <2>1. [x \in Agents \cup {a} |-> IF x \in Agents THEN s.portfolios[x] ELSE NewPortfolio]
            = s.portfolios
        BY <1>0
    <2>2. Registered(s, {a}) = [s EXCEPT !.portfolios = s.portfolios]
        BY <2>1 DEF Registered
    <2>. QED  BY <2>2 DEF MarketState
<1>2. CASE c.name = "buy_shares" /\ ~(InvalidTrade(c) \/ s.portfolios[a].balance < c.amount)
    <2>. DEFINE m == s.markets[c.market]
                p == Bought(m, c.outcome, c.amount)
                n == SharesBought(m, c.outcome, c.amount)
    <2>1. c.outcome \in Outcomes /\ c.market \in Markets /\ c.amount \in Int /\ c.amount > 0
        BY <1>2 DEF InvalidTrade, CallOK
    <2>2. m \in Reserves /\ s.portfolios[a] \in Portfolio
        BY <1>0, <2>1
    <2>3. s.portfolios[a].balance \in Nat /\ s.portfolios[a].shares[c.market][c.outcome] \in Nat
          /\ s.portfolios[a].balance >= c.amount
        BY <1>2, <2>1, <2>2 DEF Portfolio
    <2>4. Opposite(c.outcome) \in Outcomes /\ Opposite(Opposite(c.outcome)) = c.outcome
        BY <2>1 DEF Opposite, Outcomes
    <2>5. /\ p \in Reserves /\ p[c.outcome] <= m[c.outcome]
          /\ Pool(m) = m[c.outcome] + m[Opposite(c.outcome)]
          /\ Pool(p) = p[c.outcome] + m[Opposite(c.outcome)] + c.amount
        <3>. DEFINE o == Opposite(c.outcome)
        <3>1. p = Pushed(m, o, c.amount) /\ o \in Outcomes /\ c.outcome = Opposite(o)
            BY <2>4 DEF Bought
        <3>. HIDE DEF m, p
        <3>2. /\ p \in Reserves /\ p[o] = m[o] + c.amount /\ p[c.outcome] <= m[c.outcome]
              /\ Pool(m) = m[o] + m[c.outcome] /\ Pool(p) = p[o] + p[c.outcome]
            BY <2>1, <2>2, <3>1, PushedFacts
        <3>3. m[o] \in Nat /\ m[c.outcome] \in Nat /\ p[c.outcome] \in Nat
            BY <2>1, <2>2, <3>1, <3>2 DEF Reserves
        <3>. QED  BY <2>1, <3>2, <3>3
    <2>6. m[c.outcome] \in Nat /\ p[c.outcome] \in Nat /\ m[Opposite(c.outcome)] \in Nat
        BY <2>1, <2>2, <2>4, <2>5 DEF Reserves
    <2>7. n = m[c.outcome] - p[c.outcome]
        BY DEF SharesBought
    <2>. DEFINE data == [NoData EXCEPT !.cost = c.amount, !.shares = n]
                cash == -c.amount
    <2>0. data.cost = c.amount /\ data.shares = n
        BY DEF NoData
    <2>8. out = Traded(s, a, c, p, cash, n, data)
        BY <1>1, <1>2 DEF MarketExecute, BuyShares, Purchase
    <2>. HIDE DEF p, n, data, m
    <2>9. n \in Int /\ n >= 0 /\ cash \in Int
        BY <2>1, <2>5, <2>6, <2>7
    <2>10. s.portfolios[a].balance + cash >= 0
        BY <2>1, <2>3
    <2>11. s.portfolios[a].shares[c.market][c.outcome] + n >= 0
        BY <2>3, <2>9
    <2>12. Pool(p) + cash + n = Pool(m)
        BY <2>1, <2>5, <2>6, <2>7
    <2>13. m = s.markets[c.market]
        BY DEF m
    <2>14. cash = CashOf(c, data) /\ n = SharesOf(c, data) /\ data.cost \in Int /\ data.shares \in Int
        BY <1>2, <2>0, <2>1, <2>9 DEF CashOf, SharesOf
    <2>. HIDE DEF cash
    <2>15. Fair(s, a, c, p, cash, n)
        BY <2>1, <2>5, <2>9, <2>10, <2>11, <2>12, <2>13 DEF Fair
    <2>16. /\ out.env \in MarketState /\ DOMAIN out.env.portfolios = Agents
           /\ Worth(out.env) = Worth(s) /\ out.env.events = s.events
           /\ \A b \in Agents \ {a} : out.env.portfolios[b] = s.portfolios[b]
           /\ out.env.portfolios[a] = Settled(s.portfolios[a], c.market, c.outcome, cash, n)
           /\ out.success /\ out.data = data
        BY <2>8, <2>15, FairTrade
    <2>17. Trade(c)
        BY <1>2 DEF Trade
    <2>. QED  BY <2>1, <2>14, <2>16, <2>17 DEF Flow
<1>3. CASE c.name = "sell_shares"
           /\ ~(InvalidTrade(c) \/ s.portfolios[a].shares[c.market][c.outcome] < c.amount)
    <2>. DEFINE m == s.markets[c.market]
                o == Opposite(c.outcome)
                p == Sold(m, c.outcome, c.amount)
                n == Proceeds(m, c.outcome, c.amount)
    <2>1. c.outcome \in Outcomes /\ c.market \in Markets /\ c.amount \in Int /\ c.amount > 0
        BY <1>3 DEF InvalidTrade, CallOK
    <2>2. m \in Reserves /\ s.portfolios[a] \in Portfolio
        BY <1>0, <2>1
    <2>3. s.portfolios[a].balance \in Nat /\ s.portfolios[a].shares[c.market][c.outcome] \in Nat
          /\ s.portfolios[a].shares[c.market][c.outcome] >= c.amount
        BY <1>3, <2>1, <2>2 DEF Portfolio
    <2>4. n = m[o] - p[o]
        BY DEF Proceeds
    <2>. DEFINE data == [NoData EXCEPT !.cost = n, !.shares = c.amount]
                shares == -c.amount
    <2>0. data.cost = n /\ data.shares = c.amount
        BY DEF NoData
    <2>5. out = Traded(s, a, c, p, n, shares, data)
        BY <1>1, <1>3 DEF MarketExecute, SellShares, Sale
    <2>6. p = Pushed(m, c.outcome, c.amount)
        BY DEF Sold
    <2>. HIDE DEF m, p, n, data, o
    <2>. USE DEF o
    <2>7. /\ p \in Reserves /\ o \in Outcomes
          /\ p[c.outcome] = m[c.outcome] + c.amount /\ p[o] <= m[o]
          /\ Pool(m) = m[c.outcome] + m[o] /\ Pool(p) = p[c.outcome] + p[o]
        BY <2>1, <2>2, <2>6, PushedFacts
    <2>8. m[c.outcome] \in Nat /\ m[o] \in Nat /\ p[c.outcome] \in Nat /\ p[o] \in Nat
        BY <2>1, <2>2, <2>7 DEF Reserves
    <2>. HIDE DEF o
    <2>9. n \in Int /\ n >= 0 /\ shares \in Int
        BY <2>1, <2>4, <2>7, <2>8
    <2>10. s.portfolios[a].balance + n >= 0
        BY <2>3, <2>9
    <2>11. s.portfolios[a].shares[c.market][c.outcome] + shares >= 0
        BY <2>1, <2>3
    <2>12. Pool(p) + n + shares = Pool(m)
        BY <2>1, <2>4, <2>7, <2>8
    <2>13. m = s.markets[c.market]
        BY DEF m
    <2>14. n = CashOf(c, data) /\ shares = SharesOf(c, data) /\ data.cost \in Int /\ data.shares \in Int
        BY <1>3, <2>0, <2>1, <2>9 DEF CashOf, SharesOf
    <2>. HIDE DEF shares
    <2>15. Fair(s, a, c, p, n, shares)
        BY <2>1, <2>7, <2>9, <2>10, <2>11, <2>12, <2>13 DEF Fair
    <2>16. /\ out.env \in MarketState /\ DOMAIN out.env.portfolios = Agents
           /\ Worth(out.env) = Worth(s) /\ out.env.events = s.events
           /\ \A b \in Agents \ {a} : out.env.portfolios[b] = s.portfolios[b]
           /\ out.env.portfolios[a] = Settled(s.portfolios[a], c.market, c.outcome, n, shares)
           /\ out.success /\ out.data = data
        BY <2>5, <2>15, FairTrade
    <2>17. Trade(c)
        BY <1>3 DEF Trade
    <2>. QED  BY <2>1, <2>14, <2>16, <2>17 DEF Flow
<1>4. CASE c.name = "comment_on_market"
    <2>1. out.env = [s EXCEPT !.comments = @ + 1]
        BY <1>1, <1>4 DEF MarketExecute, Comment, Done
    <2>2. s.comments + 1 \in Nat
        BY DEF MarketState
    <2>3. /\ out.env \in MarketState /\ out.env.markets = s.markets
          /\ out.env.portfolios = s.portfolios /\ out.env.events = s.events
        BY <2>1, <2>2 DEF MarketState
    <2>4. ~Trade(c)
        BY <1>4 DEF Trade
    <2>. QED  BY <2>3, <2>4 DEF Worth, Flow
<1>5. CASE \/ c.name \notin {"buy_shares", "sell_shares", "comment_on_market"}
           \/ c.name = "buy_shares" /\ (InvalidTrade(c) \/ s.portfolios[a].balance < c.amount)
           \/ c.name = "sell_shares"
              /\ (InvalidTrade(c) \/ s.portfolios[a].shares[c.market][c.outcome] < c.amount)
    <2>1. out.env = s
        BY <1>1, <1>5 DEF MarketExecute, BuyShares, SellShares, Done, Refused
    <2>2. Trade(c) => ~out.success
        BY <1>1, <1>5 DEF MarketExecute, BuyShares, SellShares, Refused, Trade
    <2>. QED  BY <2>1, <2>2 DEF Flow
<1>. QED  BY <1>2, <1>3, <1>4, <1>5

-----------------------------------------------------------------------------
(* The economy: money invested is output.                                    *)

EconomyOK(s) ==
    /\ s \in EconomyState
    /\ s.invested = SumOver(s, "output")
    /\ \A a \in DOMAIN s.actors : s.actors[a].balance + s.actors[a].output = 0

LEMMA ActorChange ==
    ASSUME NEW s, EconomyOK(s), DOMAIN s.actors = Agents, NEW a \in Agents,
           NEW t \in EconomyState, DOMAIN t.actors = Agents,
           \A x \in Agents : x # a => t.actors[x] = s.actors[x],
           t.actors[a].balance + t.actors[a].output = 0,
           t.invested = s.invested + (t.actors[a].output - s.actors[a].output)
    PROVE  EconomyOK(t)
PROOF
<1>. DEFINE v == [x \in DOMAIN s.actors |-> s.actors[x]["output"]]
            w == [x \in DOMAIN t.actors |-> t.actors[x]["output"]]
<1>0. /\ s \in EconomyState /\ s.actors \in [Agents -> Actor] /\ s.invested \in Int
      /\ t.actors \in [Agents -> Actor] /\ IsFiniteSet(Agents)
    BY BaseAssumption DEF EconomyOK, EconomyState
<1>1. v \in [Agents -> Int] /\ w \in [Agents -> Int]
    BY <1>0 DEF Actor
<1>2. \A x \in Agents : x # a => w[x] = v[x]
    OBVIOUS
<1>3. w[a] = t.actors[a].output /\ v[a] = s.actors[a].output
    OBVIOUS
<1>4. SumOver(s, "output") = Sum(v) /\ SumOver(t, "output") = Sum(w)
    BY DEF SumOver
<1>. HIDE DEF v, w
<1>5. /\ Sum(w) = Sum(v) - v[a] + w[a]
      /\ Sum(v) \in Int /\ v[a] \in Int /\ w[a] \in Int
    <2>1. Sum(w) = Sum(v) - v[a] + w[a]
        BY <1>0, <1>1, <1>2, SumChange
    <2>2. Numbers(v)
        BY <1>0, <1>1 DEF Numbers
    <2>. QED  BY <1>1, <2>1, <2>2, SumFacts
<1>6. s.invested = Sum(v)
    BY <1>4 DEF EconomyOK
<1>7. t.invested = SumOver(t, "output")
    BY <1>3, <1>4, <1>5, <1>6
<1>8. \A x \in Agents : t.actors[x].balance + t.actors[x].output = 0
    BY DEF EconomyOK
<1>. QED  BY <1>7, <1>8 DEF EconomyOK

LEMMA CapitalKept ==
    ASSUME NEW b \in Actor, NEW n \in Int
    PROVE  /\ WithCapital(b, n) \in Actor
           /\ WithCapital(b, n).balance = b.balance - n
           /\ WithCapital(b, n).output = b.output + n
PROOF
<1>. DEFINE x == b.balance - n
            y == b.output + n
<1>1. x \in Int /\ y \in Int
    BY DEF Actor
<1>2. WithCapital(b, n) = [b EXCEPT !.balance = x, !.output = y]
    BY DEF WithCapital, Actor
<1>. HIDE DEF x, y
<1>3. /\ [b EXCEPT !.balance = x, !.output = y] \in Actor
      /\ [b EXCEPT !.balance = x, !.output = y].balance = x
      /\ [b EXCEPT !.balance = x, !.output = y].output = y
    BY <1>1 DEF Actor
<1>. QED  BY <1>2, <1>3 DEF x, y

LEMMA EconomyHandler ==
    ASSUME NEW s, EconomyOK(s), DOMAIN s.actors = Agents, NEW a \in Agents,
           NEW c, CallOK(c), NEW out, out = EconomicExecute(s, a, c)
    PROVE  EconomyOK(out.env) /\ DOMAIN out.env.actors = Agents /\ out.env.events = s.events
PROOF
<1>0. /\ s \in EconomyState /\ s.actors \in [Agents -> Actor] /\ s.invested \in Int
      /\ s.actors[a].balance + s.actors[a].output = 0 /\ s.actors[a] \in Actor
    BY DEF EconomyOK, EconomyState
<1>1. Enrolled(s, {a}) = s
    <2>1. [x \in Agents \cup {a} |-> IF x \in Agents THEN s.actors[x] ELSE NewActor] = s.actors
        BY <1>0
    <2>2. Enrolled(s, {a}) = [s EXCEPT !.actors = s.actors]
        BY <2>1 DEF Enrolled
    <2>. QED  BY <2>2 DEF EconomyOK, EconomyState
<1>. DEFINE b == s.actors[a]
<1>2. ASSUME NEW d \in Actor, d.balance = b.balance, d.output = b.output,
             out.env = [s EXCEPT !.actors = [@ EXCEPT ![a] = d]]
      PROVE  EconomyOK(out.env) /\ DOMAIN out.env.actors = Agents /\ out.env.events = s.events
    <2>. DEFINE as == [s.actors EXCEPT ![a] = d]
    <2>1. as \in [Agents -> Actor] /\ as[a] = d /\ \A x \in Agents : x # a => as[x] = s.actors[x]
        BY <1>0, <1>2
    <2>. HIDE DEF as
    <2>2. out.env = [s EXCEPT !.actors = as]
        BY <1>2 DEF as
    <2>3. /\ out.env \in EconomyState /\ out.env.actors = as /\ DOMAIN as = Agents
          /\ out.env.invested = s.invested /\ out.env.events = s.events
        BY <1>0, <2>1, <2>2 DEF EconomyState
    <2>4. /\ out.env.actors[a].balance + out.env.actors[a].output = 0
          /\ out.env.invested = s.invested + (out.env.actors[a].output - s.actors[a].output)
        BY <1>0, <1>2, <2>1, <2>3 DEF Actor
    <2>5. /\ DOMAIN out.env.actors = Agents
          /\ \A x \in Agents : x # a => out.env.actors[x] = s.actors[x]
        BY <2>1, <2>3
    <2>. DEFINE t == out.env
    <2>. HIDE DEF t
    <2>6. /\ t \in EconomyState /\ DOMAIN t.actors = Agents
          /\ \A x \in Agents : x # a => t.actors[x] = s.actors[x]
          /\ t.actors[a].balance + t.actors[a].output = 0
          /\ t.invested = s.invested + (t.actors[a].output - s.actors[a].output)
        BY <2>3, <2>4, <2>5 DEF t
    <2>7. EconomyOK(t)
        BY <2>6, ActorChange
    <2>. QED  BY <2>3, <2>5, <2>7 DEF t
<1>3. ASSUME NEW e \in {"price", "workforce"}, NEW n \in Int,
             out.env = [s EXCEPT !.actors[a] = [b EXCEPT ![e] = n]]
      PROVE  EconomyOK(out.env) /\ DOMAIN out.env.actors = Agents /\ out.env.events = s.events
    <2>. DEFINE d == [b EXCEPT ![e] = n]
    <2>1. d \in Actor /\ d.balance = b.balance /\ d.output = b.output
        <3>1. b \in Actor
            BY <1>0
        <3>. HIDE DEF b
        <3>. QED  BY <1>3, <3>1 DEF Actor
    <2>. HIDE DEF d, b
    <2>2. out.env = [s EXCEPT !.actors = [@ EXCEPT ![a] = d]]
        BY <1>0, <1>3 DEF EconomyState, d
    <2>. QED  BY <1>2, <2>1, <2>2
<1>4. CASE c.name = "set_price"
    <2>1. out.env = [s EXCEPT !.actors[a].price = c.amount] /\ c.amount \in Int
        BY <1>1, <1>4 DEF EconomicExecute, SetPrice, Done, CallOK
    <2>2. out.env = [s EXCEPT !.actors[a] = [b EXCEPT !["price"] = c.amount]]
        BY <1>0, <2>1 DEF Actor, EconomyState
    <2>. QED  BY <1>3, <2>1, <2>2
<1>5. CASE c.name = "hire"
    <2>1. out.env = [s EXCEPT !.actors[a].workforce = @ + c.amount] /\ c.amount \in Int
        BY <1>1, <1>5 DEF EconomicExecute, Hire, Done, CallOK
    <2>2. out.env = [s EXCEPT !.actors[a] = [b EXCEPT !["workforce"] = b.workforce + c.amount]]
        BY <1>0, <2>1 DEF Actor, EconomyState
    <2>3. b.workforce + c.amount \in Int
        BY <1>0, <2>1 DEF Actor
    <2>. QED  BY <1>3, <2>2, <2>3
<1>6. CASE c.name = "fire" /\ ~(c.amount > s.actors[a].workforce)
    <2>1. out.env = [s EXCEPT !.actors[a].workforce = @ - c.amount] /\ c.amount \in Int
        BY <1>1, <1>6 DEF EconomicExecute, Fire, Done, CallOK
    <2>2. out.env = [s EXCEPT !.actors[a] = [b EXCEPT !["workforce"] = b.workforce - c.amount]]
        BY <1>0, <2>1 DEF Actor, EconomyState
    <2>3. b.workforce - c.amount \in Int
        BY <1>0, <2>1 DEF Actor
    <2>. QED  BY <1>3, <2>2, <2>3
<1>7. CASE c.name = "invest" /\ ~(s.actors[a].balance < c.amount)
    <2>. DEFINE d == WithCapital(b, c.amount)
                total == s.invested + c.amount
    <2>0. c.amount \in Int /\ b.balance \in Int /\ b.output \in Int /\ b \in Actor
          /\ b.balance + b.output = 0
        BY <1>0, <1>7 DEF Actor, CallOK
    <2>1. out.env = [s EXCEPT !.actors[a] = d, !.invested = total]
        BY <1>1, <1>7 DEF EconomicExecute, Invest, Done
    <2>2. d \in Actor /\ d.balance = b.balance - c.amount /\ d.output = b.output + c.amount
        BY <2>0, CapitalKept
    <2>. HIDE DEF d
    <2>. DEFINE as == [s.actors EXCEPT ![a] = d]
    <2>3. as \in [Agents -> Actor] /\ as[a] = d /\ \A x \in Agents : x # a => as[x] = s.actors[x]
        BY <1>0, <2>2
    <2>4. out.env = [s EXCEPT !.actors = as, !.invested = total]
        BY <1>0, <2>1 DEF EconomyState
    <2>. HIDE DEF as, total
    <2>5. total \in Int /\ total = s.invested + c.amount
        BY <1>0, <2>0 DEF total
    <2>6. /\ out.env \in EconomyState /\ out.env.actors = as /\ DOMAIN as = Agents
          /\ out.env.invested = total /\ out.env.events = s.events
        BY <1>0, <2>3, <2>4, <2>5 DEF EconomyState
    <2>7. /\ out.env.actors[a].balance + out.env.actors[a].output = 0
          /\ out.env.invested = s.invested + (out.env.actors[a].output - s.actors[a].output)
        BY <1>0, <2>0, <2>2, <2>3, <2>5, <2>6
    <2>8. /\ DOMAIN out.env.actors = Agents
          /\ \A x \in Agents : x # a => out.env.actors[x] = s.actors[x]
        BY <2>3, <2>6
    <2>. DEFINE t == out.env
    <2>. HIDE DEF t
    <2>9. /\ t \in EconomyState /\ DOMAIN t.actors = Agents
          /\ \A x \in Agents : x # a => t.actors[x] = s.actors[x]
          /\ t.actors[a].balance + t.actors[a].output = 0
          /\ t.invested = s.invested + (t.actors[a].output - s.actors[a].output)
        BY <2>6, <2>7, <2>8 DEF t
    <2>10. EconomyOK(t)
        BY <2>9, ActorChange
    <2>. QED  BY <2>6, <2>8, <2>10 DEF t
<1>8. CASE c.name = "apply_policy"
    <2>. DEFINE ps == Append(s.policies, [by |-> a, round |-> s.round])
    <2>1. out.env = [s EXCEPT !.policies = ps]
        BY <1>1, <1>8 DEF EconomicExecute, ApplyPolicy, Done
    <2>2. ps \in Seq([by : Agents, round : Nat])
        BY <1>0 DEF EconomyState
    <2>. HIDE DEF ps
    <2>3. /\ out.env \in EconomyState /\ out.env.actors = s.actors
          /\ out.env.invested = s.invested /\ out.env.events = s.events
        BY <1>0, <2>1, <2>2 DEF EconomyState
    <2>. QED  BY <2>3 DEF EconomyOK, SumOver
<1>9. CASE \/ c.name \notin {"set_price", "hire", "fire", "invest", "apply_policy"}
           \/ c.name = "fire" /\ c.amount > s.actors[a].workforce
           \/ c.name = "invest" /\ s.actors[a].balance < c.amount
    <2>1. out.env = s
        BY <1>1, <1>9 DEF EconomicExecute, Fire, Invest, Done, Refused
    <2>. QED  BY <2>1
<1>. QED  BY <1>4, <1>5, <1>6, <1>7, <1>8, <1>9

-----------------------------------------------------------------------------
(* New environments, the enrolment of the agents, and the end of a round.    *)

MarketOK(s) ==
    /\ s \in MarketState
    /\ Worth(s) = Worth(NewMarket) + Cardinality(DOMAIN s.portfolios) * InitialBalance

LEMMA HeldByNew == NewPortfolio \in Portfolio /\ Held(NewPortfolio) = InitialBalance
PROOF
<1>. DEFINE v == [m \in Markets |-> NewPortfolio.shares[m].yes + NewPortfolio.shares[m].no]
<1>1. NewPortfolio \in Portfolio /\ NewPortfolio.balance = InitialBalance /\ InitialBalance \in Nat
    <2>1. InitialBalance \in Nat
        BY MarketAssumption
    <2>2. [m \in Markets |-> [o \in Outcomes |-> 0]] \in [Markets -> [Outcomes -> Nat]]
        OBVIOUS
    <2>. QED  BY <2>1, <2>2 DEF NewPortfolio, NoShares, Portfolio
<1>2. v \in [Markets -> Int] /\ \A m \in Markets : v[m] = 0
    <2>1. NewPortfolio.shares = [m \in Markets |-> [o \in Outcomes |-> 0]]
        BY DEF NewPortfolio, NoShares
    <2>2. \A m \in Markets : NewPortfolio.shares[m].yes = 0 /\ NewPortfolio.shares[m].no = 0
        BY <2>1 DEF Outcomes
    <2>. QED  BY <2>2
<1>3. Held(NewPortfolio) = InitialBalance + Sum(v)
    BY <1>1 DEF Held
<1>. HIDE DEF v
<1>4. Numbers(v)
    BY <1>2, MarketAssumption DEF Numbers
<1>5. Sum(v) \in Int /\ Sum(v) >= 0 /\ Sum(v) <= 0
    BY <1>2, <1>4, SumFacts
<1>. QED  BY <1>1, <1>3, <1>5

LEMMA PoolsInt ==
    ASSUME NEW s \in MarketState
    PROVE  Sum([m \in Markets |-> Pool(s.markets[m])]) \in Int
PROOF
<1>. DEFINE v == [m \in Markets |-> Pool(s.markets[m])]
<1>1. v \in [Markets -> Int]
    BY DEF MarketState, Reserves, Outcomes, Pool
<1>. HIDE DEF v
<1>2. Numbers(v)
    BY <1>1, MarketAssumption DEF Numbers
<1>3. Sum(v) \in Int
    BY <1>2, SumFacts
<1>. QED  BY <1>3 DEF v

LEMMA NewMarketOK ==
    /\ NewMarket \in MarketState /\ DOMAIN NewMarket.portfolios = {} /\ NewMarket.events = {}
    /\ Worth(NewMarket) = Sum([m \in Markets |-> Pool(NewMarket.markets[m])])
    /\ Worth(NewMarket) \in Int
    /\ MarketOK(NewMarket)
PROOF
<1>1. \A p \in 1..99 : ReservesFromPrice(p) \in Reserves
    <2>. SUFFICES ASSUME NEW p \in 1..99 PROVE ReservesFromPrice(p) \in Reserves
        OBVIOUS
    <2>. DEFINE l == 2 * Liquidity
                x == l * (100 - p)
                y == l * p
    <2>1. l \in Nat
        BY MarketAssumption
    <2>. HIDE DEF l
    <2>2. x \in Nat /\ y \in Nat
        BY <2>1
    <2>3. ReservesFromPrice(p) = [yes |-> x \div 100, no |-> y \div 100]
        BY DEF ReservesFromPrice, l
    <2>. HIDE DEF x, y
    <2>4. x \div 100 \in Nat /\ y \div 100 \in Nat
        BY <2>2
    <2>. DEFINE u == x \div 100
                w == y \div 100
    <2>. HIDE DEF u, w
    <2>5. [yes |-> u, no |-> w] \in Reserves
        BY <2>4 DEF Reserves, Outcomes, u, w
    <2>. QED  BY <2>3, <2>5 DEF u, w
<1>2. [m \in Markets |-> ReservesFromPrice(SeedPercent[m])] \in [Markets -> Reserves]
    BY <1>1, MarketAssumption
<1>3. /\ NewMarket \in MarketState /\ DOMAIN NewMarket.portfolios = {}
      /\ NewMarket.events = {}
    BY <1>2 DEF NewMarket, MarketState
<1>4. Worth(NewMarket) = Sum([m \in Markets |-> Pool(NewMarket.markets[m])])
    <2>. DEFINE v == [a \in DOMAIN NewMarket.portfolios |-> Held(NewMarket.portfolios[a])]
    <2>1. Numbers(v) /\ DOMAIN v = {}
        BY <1>3, FS_EmptySet DEF Numbers
    <2>2. Worth(NewMarket) = Sum([m \in Markets |-> Pool(NewMarket.markets[m])]) + Sum(v)
        BY DEF Worth
    <2>. HIDE DEF v
    <2>3. Sum(v) = 0
        BY <2>1, SumFacts
    <2>. QED  BY <1>3, <2>2, <2>3, PoolsInt
<1>5. Worth(NewMarket) \in Int
    BY <1>3, <1>4, PoolsInt
<1>6. Cardinality(DOMAIN NewMarket.portfolios) = 0 /\ 0 * InitialBalance = 0
    BY <1>3, FS_EmptySet, MarketAssumption, Times
<1>7. MarketOK(NewMarket)
    BY <1>3, <1>5, <1>6 DEF MarketOK
<1>. QED  BY <1>3, <1>4, <1>5, <1>7

LEMMA MarketRegisters ==
    ASSUME NEW s, MarketOK(s), NEW t, t = Registered(s, Agents)
    PROVE  MarketOK(t) /\ DOMAIN t.portfolios = Agents
PROOF
<1>. DEFINE ps == [a \in DOMAIN s.portfolios \cup Agents |->
                     IF a \in DOMAIN s.portfolios THEN s.portfolios[a] ELSE NewPortfolio]
<1>0. s \in MarketState /\ s.portfolios \in [{} -> Portfolio] \cup [Agents -> Portfolio]
    BY DEF MarketOK, MarketState
<1>1. t = [s EXCEPT !.portfolios = ps]
    BY DEF Registered
<1>2. ps \in [Agents -> Portfolio]
    BY <1>0, HeldByNew
<1>3. /\ DOMAIN s.portfolios = Agents => ps = s.portfolios
      /\ DOMAIN s.portfolios = {} => ps = [a \in Agents |-> NewPortfolio]
    BY <1>0
<1>. HIDE DEF ps
<1>4. t \in MarketState /\ t.portfolios = ps /\ t.markets = s.markets /\ DOMAIN ps = Agents
    BY <1>0, <1>1, <1>2 DEF MarketState
<1>5. CASE DOMAIN s.portfolios = Agents
    <2>1. t = s
        BY <1>0, <1>1, <1>3, <1>5 DEF MarketState
    <2>. QED  BY <1>5, <2>1
<1>6. CASE DOMAIN s.portfolios = {}
    <2>. DEFINE v == [a \in DOMAIN s.portfolios |-> Held(s.portfolios[a])]
                w == [a \in DOMAIN t.portfolios |-> Held(t.portfolios[a])]
                pools == Sum([m \in Markets |-> Pool(s.markets[m])])
    <2>1. Worth(s) = pools + Sum(v) /\ Worth(t) = pools + Sum(w)
        BY <1>4 DEF Worth
    <2>2. DOMAIN v = {} /\ Numbers(v)
        BY <1>6, FS_EmptySet DEF Numbers
    <2>3. w = [a \in Agents |-> InitialBalance]
        <3>1. DOMAIN t.portfolios = Agents /\ \A a \in Agents : t.portfolios[a] = NewPortfolio
            BY <1>3, <1>4, <1>6
        <3>. QED  BY <3>1, HeldByNew
    <2>4. pools \in Int
        BY <1>0, PoolsInt
    <2>. HIDE DEF v, w, pools
    <2>5. Sum(v) = 0
        BY <2>2, SumFacts
    <2>6. Sum(w) = Cardinality(Agents) * InitialBalance
        <3>1. Sum([a \in Agents |-> InitialBalance]) = Cardinality(Agents) * InitialBalance
            <4>1. IsFiniteSet(Agents) /\ InitialBalance \in Int
                BY BaseAssumption, MarketAssumption
            <4>. QED  BY <4>1, SumConstant
        <3>. QED  BY <2>3, <3>1, Zenon
    <2>7. Cardinality(DOMAIN s.portfolios) * InitialBalance = 0
        BY <1>6, FS_EmptySet, Times, MarketAssumption
    <2>8. pools = Worth(NewMarket)
        BY <2>1, <2>4, <2>5, <2>7, NewMarketOK DEF MarketOK
    <2>9. Worth(t) = Worth(NewMarket) + Cardinality(DOMAIN t.portfolios) * InitialBalance
        BY <1>4, <2>1, <2>6, <2>8
    <2>. QED  BY <1>4, <2>9 DEF MarketOK
<1>. QED  BY <1>0, <1>5, <1>6

LEMMA MarketTicks ==
    ASSUME NEW s, MarketOK(s), NEW t, t = MarketPublished(MarketTick(s))
    PROVE  /\ MarketOK(t) /\ DOMAIN t.portfolios = DOMAIN s.portfolios
           /\ \A e \in MarketTick(s).events : e.source = "market"
PROOF
<1>. DEFINE es == s.events \cup {PriceMove(m, s.round) : m \in Moved(s)}
<1>0. s \in MarketState /\ s.events = {}
    BY DEF MarketOK, MarketState
<1>1. MarketTick(s) = [s EXCEPT !.round = s.round + 1, !.last = s.markets, !.events = es]
    BY DEF MarketTick
<1>2. \A e \in es : e.source = "market"
    BY <1>0 DEF PriceMove, Event
<1>. HIDE DEF es
<1>3. MarketTick(s).events = es
    BY <1>0, <1>1 DEF MarketState
<1>4. /\ t \in MarketState /\ t.markets = s.markets /\ t.portfolios = s.portfolios
    <2>1. MarketPublished(MarketTick(s))
            = [s EXCEPT !.round = s.round + 1, !.last = s.markets, !.events = {}]
        BY <1>0, <1>1 DEF MarketState, MarketPublished
    <2>2. s.round + 1 \in Nat /\ s.markets \in [Markets -> Reserves]
        BY <1>0 DEF MarketState
    <2>. QED  BY <1>0, <2>1, <2>2 DEF MarketState
<1>5. Worth(t) = Worth(s)
    BY <1>4 DEF Worth
<1>. QED  BY <1>2, <1>3, <1>4, <1>5 DEF MarketOK

LEMMA NewEconomyOK == EconomyOK(NewEconomy) /\ NewEconomy.events = {} /\ DOMAIN NewEconomy.actors = {}
PROOF
<1>. DEFINE v == [a \in DOMAIN NewEconomy.actors |-> NewEconomy.actors[a]["output"]]
<1>1. NewEconomy \in EconomyState /\ DOMAIN NewEconomy.actors = {} /\ NewEconomy.events = {}
      /\ NewEconomy.invested = 0
    BY DEF NewEconomy, EconomyState, NoMetrics, Metrics
<1>2. Numbers(v) /\ DOMAIN v = {} /\ SumOver(NewEconomy, "output") = Sum(v)
    BY <1>1, FS_EmptySet DEF SumOver, Numbers
<1>. HIDE DEF v
<1>3. Sum(v) = 0
    BY <1>2, SumFacts
<1>. QED  BY <1>1, <1>2, <1>3 DEF EconomyOK

LEMMA EconomyEnrols ==
    ASSUME NEW s, EconomyOK(s), NEW t, t = Enrolled(s, Agents)
    PROVE  EconomyOK(t) /\ DOMAIN t.actors = Agents
PROOF
<1>. DEFINE as == [a \in DOMAIN s.actors \cup Agents |->
                     IF a \in DOMAIN s.actors THEN s.actors[a] ELSE NewActor]
<1>0. s \in EconomyState /\ s.actors \in [{} -> Actor] \cup [Agents -> Actor]
    BY DEF EconomyOK, EconomyState
<1>1. t = [s EXCEPT !.actors = as]
    BY DEF Enrolled
<1>2. as \in [Agents -> Actor]
    BY <1>0 DEF NewActor, Actor
<1>3. /\ DOMAIN s.actors = Agents => as = s.actors
      /\ DOMAIN s.actors = {} => as = [a \in Agents |-> NewActor]
    BY <1>0
<1>. HIDE DEF as
<1>4. t \in EconomyState /\ t.actors = as /\ t.invested = s.invested /\ DOMAIN as = Agents
    BY <1>0, <1>1, <1>2 DEF EconomyState
<1>5. CASE DOMAIN s.actors = Agents
    <2>1. t = s
        BY <1>0, <1>1, <1>3, <1>5 DEF EconomyState
    <2>. QED  BY <1>5, <2>1
<1>6. CASE DOMAIN s.actors = {}
    <2>. DEFINE v == [a \in DOMAIN s.actors |-> s.actors[a]["output"]]
                w == [a \in DOMAIN t.actors |-> t.actors[a]["output"]]
    <2>1. /\ DOMAIN v = {} /\ Numbers(v) /\ SumOver(s, "output") = Sum(v)
        BY <1>6, FS_EmptySet DEF Numbers, SumOver
    <2>2. /\ DOMAIN t.actors = Agents /\ \A a \in Agents : t.actors[a] = NewActor
          /\ \A a \in Agents : t.actors[a].output = 0 /\ t.actors[a].balance = 0
        <3>1. NewActor.output = 0 /\ NewActor.balance = 0
            BY DEF NewActor
        <3>2. t.actors = [a \in Agents |-> NewActor]
            BY <1>3, <1>4, <1>6
        <3>3. DOMAIN t.actors = Agents /\ \A a \in Agents : t.actors[a] = NewActor
            BY <3>2
        <3>. QED  BY <3>1, <3>3
    <2>3. /\ DOMAIN w = Agents /\ \A a \in Agents : w[a] = 0
          /\ SumOver(t, "output") = Sum(w)
        BY <2>2 DEF SumOver
    <2>. HIDE DEF v, w
    <2>4. Numbers(w)
        BY <2>3, BaseAssumption DEF Numbers
    <2>5. Sum(v) = 0
        BY <2>1, SumFacts
    <2>6. Sum(w) \in Int /\ Sum(w) >= 0 /\ Sum(w) <= 0
        BY <2>3, <2>4, SumFacts
    <2>7. t.invested = SumOver(t, "output")
        BY <1>4, <2>1, <2>3, <2>5, <2>6 DEF EconomyOK
    <2>8. \A a \in Agents : t.actors[a].balance + t.actors[a].output = 0
        BY <2>2
    <2>. QED  BY <1>4, <2>2, <2>7, <2>8 DEF EconomyOK
<1>. QED  BY <1>0, <1>5, <1>6

LEMMA EconomyTicks ==
    ASSUME NEW s, EconomyOK(s), NEW t, t = EconomicPublished(EconomicTick(s))
    PROVE  /\ EconomyOK(t) /\ DOMAIN t.actors = DOMAIN s.actors
           /\ \A e \in EconomicTick(s).events : e.source = "economic"
PROOF
<1>. DEFINE now == ComputeMetrics(s)
            es == s.events \cup {MetricChange(k, s.round + 1) : k \in Shifted(s.metrics, now)}
            D == DOMAIN s.actors
            sellers == {a \in D : s.actors[a].price > 0}
<1>0. s \in EconomyState /\ s.events = {} /\ s.invested \in Int
      /\ s.actors \in [{} -> Actor] \cup [Agents -> Actor]
    BY DEF EconomyOK, EconomyState
<1>1. EconomicTick(s) = [s EXCEPT !.round = s.round + 1, !.last = s.metrics, !.metrics = now,
                                  !.events = es]
    BY DEF EconomicTick
<1>2. \A e \in es : e.source = "economic"
    BY <1>0 DEF MetricChange, Event
<1>3. IsFiniteSet(D) /\ D \subseteq Agents
    BY <1>0, BaseAssumption, FS_EmptySet
<1>4. \A f \in {"workforce", "output"} : SumOver(s, f) \in Int
    <2>. SUFFICES ASSUME NEW f \in {"workforce", "output"} PROVE SumOver(s, f) \in Int
        OBVIOUS
    <2>. DEFINE v == [a \in D |-> s.actors[a][f]]
    <2>1. DOMAIN v = D /\ \A a \in D : v[a] \in Int
        BY <1>0 DEF Actor
    <2>2. SumOver(s, f) = Sum(v)
        BY DEF SumOver
    <2>. HIDE DEF v
    <2>3. Numbers(v)
        BY <1>3, <2>1 DEF Numbers
    <2>. QED  BY <2>2, <2>3, SumFacts
<1>5. Sum([a \in sellers |-> s.actors[a].price]) \in Int /\ Cardinality(sellers) \in Int
    <2>. DEFINE v == [a \in sellers |-> s.actors[a].price]
    <2>1. DOMAIN v = sellers /\ \A a \in sellers : v[a] \in Int
        BY <1>0 DEF Actor
    <2>2. IsFiniteSet(sellers) /\ Cardinality(sellers) \in Nat
        BY <1>3, SmallerSet
    <2>. HIDE DEF v, sellers
    <2>3. Numbers(v)
        BY <2>1, <2>2 DEF Numbers
    <2>4. Sum(v) \in Int
        BY <2>3, SumFacts
    <2>. QED  BY <2>2, <2>4 DEF v
<1>6. now \in Metrics
    <2>1. LaborForce \in Int
        BY EconomicAssumption
    <2>. QED  BY <1>0, <1>4, <1>5, <2>1 DEF ComputeMetrics, Metrics
<1>. HIDE DEF es, now
<1>7. EconomicTick(s).events = es
    BY <1>0, <1>1 DEF EconomyState
<1>8. /\ t \in EconomyState /\ t.actors = s.actors /\ t.invested = s.invested
    <2>1. EconomicPublished(EconomicTick(s))
            = [s EXCEPT !.round = s.round + 1, !.last = s.metrics, !.metrics = now, !.events = {}]
        BY <1>0, <1>1 DEF EconomyState, EconomicPublished
    <2>2. s.round + 1 \in Nat /\ s.metrics \in Metrics
        BY <1>0 DEF EconomyState
    <2>. QED  BY <1>0, <1>6, <2>1, <2>2 DEF EconomyState
<1>9. EconomyOK(t)
    BY <1>8 DEF EconomyOK, SumOver
<1>. QED  BY <1>2, <1>7, <1>8, <1>9

LEMMA NewSocialOK == SocialOK(NewSocial) /\ DOMAIN NewSocial.posts = {} /\ NewSocial.viral = {}
PROOF
<1>1. NewSocial \in SocialState /\ NewSocial.posts = <<>> /\ NewSocial.viral = {}
    BY DEF NewSocial, SocialState
<1>. QED  BY <1>1 DEF SocialOK

LEMMA SocialTicks ==
    ASSUME NEW s, SocialOK(s), NEW t, t = SocialPublished(SocialTick(s))
    PROVE  /\ SocialOK(t) /\ t.posts = s.posts
           /\ t.viral = s.viral \cup NewlyViral(s)
           /\ NewlyViral(s) \subseteq DOMAIN s.posts \ s.viral
           /\ SocialTick(s).events = {ViralEvent(p, s.round + 1) : p \in NewlyViral(s)}
PROOF
<1>. DEFINE es == s.events \cup {ViralEvent(p, s.round + 1) : p \in NewlyViral(s)}
            vs == s.viral \cup NewlyViral(s)
<1>0. /\ s \in SocialState /\ s.events = {} /\ s.round \in Nat /\ s.viral \subseteq DOMAIN s.posts
      /\ \A p \in DOMAIN s.posts : s.posts[p].parent < p /\ s.posts[p].created <= s.round
      /\ s.posts \in Seq(Post)
    BY DEF SocialOK, SocialState
<1>1. NewlyViral(s) \subseteq DOMAIN s.posts \ s.viral
    BY DEF NewlyViral
<1>2. SocialTick(s) = [s EXCEPT !.round = s.round + 1, !.viral = vs, !.events = es]
    BY DEF SocialTick
<1>3. es = {ViralEvent(p, s.round + 1) : p \in NewlyViral(s)}
    BY <1>0
<1>4. vs \subseteq DOMAIN s.posts /\ vs \in SUBSET Nat
    BY <1>0, <1>1
<1>. HIDE DEF es
<1>5. SocialTick(s).events = es
    BY <1>0, <1>2 DEF SocialState
<1>6. SocialPublished(SocialTick(s)) = [s EXCEPT !.round = s.round + 1, !.viral = vs, !.events = {}]
    BY <1>0, <1>2 DEF SocialPublished, SocialState
<1>. HIDE DEF vs
<1>7. t \in SocialState /\ t.posts = s.posts /\ t.viral = vs /\ t.round = s.round + 1
    <2>1. s.round + 1 \in Nat /\ {} \in {{}}
        BY <1>0
    <2>2. t = [s EXCEPT !.round = s.round + 1, !.viral = vs, !.events = {}]
        BY <1>6
    <2>. QED  BY <1>0, <1>4, <2>1, <2>2 DEF SocialState
<1>8. \A p \in DOMAIN t.posts : t.posts[p].parent < p /\ t.posts[p].created <= t.round
    <2>1. \A p \in DOMAIN s.posts : s.posts[p].created \in Nat
        <3>. SUFFICES ASSUME NEW p \in DOMAIN s.posts PROVE s.posts[p].created \in Nat
            OBVIOUS
        <3>1. s.posts[p] \in Post
            BY <1>0
        <3>. QED  BY <3>1 DEF Post
    <2>. QED  BY <1>0, <1>7, <2>1
<1>. QED  BY <1>1, <1>3, <1>4, <1>5, <1>7, <1>8 DEF SocialOK, vs

-----------------------------------------------------------------------------
(* A turn: each call keeps the world, so the answer does.                    *)

Named == {"social", "market", "economic"}
EnvsOK == envs # <<>> /\ envs \in Seq(Named)

Shape(st) == st = [social |-> st.social, market |-> st.market, economy |-> st.economy,
                   records |-> st.records]

WorldOK(s, m, e) ==
    /\ SocialOK(s) /\ MarketOK(m) /\ EconomyOK(e)

Enrolments(names, m, e) ==
    /\ "market" \in names => DOMAIN m.portfolios = Agents
    /\ "economic" \in names => DOMAIN e.actors = Agents

RecordOK(r, s) ==
    IsAuthored(r) => r.args.text \in Texts /\ r.data.post \in DOMAIN s.posts

IsList(l) == \E S : l \in Seq(S)

TurnOK(st) ==
    /\ Shape(st)
    /\ WorldOK(st.social, st.market, st.economy) /\ Enrolments(Environments, st.market, st.economy)
    /\ IsList(st.records)
    /\ \A i \in DOMAIN st.records : RecordOK(st.records[i], st.social)

LEMMA ListAppend ==
    ASSUME NEW l, IsList(l), NEW x
    PROVE  /\ IsList(Append(l, x)) /\ Len(l) \in Nat
           /\ Len(Append(l, x)) = Len(l) + 1
           /\ DOMAIN l = 1 .. Len(l) /\ DOMAIN Append(l, x) = 1 .. Len(l) + 1
           /\ \A i \in DOMAIN l : Append(l, x)[i] = l[i]
           /\ Append(l, x)[Len(l) + 1] = x
PROOF
<1>1. PICK S : l \in Seq(S)
    BY DEF IsList
<1>2. l \in Seq(S \cup {x}) /\ x \in S \cup {x}
    BY <1>1
<1>3. Append(l, x) \in Seq(S \cup {x})
    BY <1>2
<1>. QED  BY <1>2, <1>3 DEF IsList

LEMMA FoundEnv ==
    ASSUME EnvsOK, NEW name
    PROVE  FindEnvForAction(name) \in Environments /\ FindEnvForAction(name) \in Named
PROOF
<1>. DEFINE having == {i \in DOMAIN envs : name \in Tools(envs[i])}
<1>0. /\ \A i \in DOMAIN envs : envs[i] \in Environments /\ envs[i] \in Named
      /\ 1 \in DOMAIN envs /\ DOMAIN envs \subseteq Nat
    BY DEF EnvsOK, Environments, ToSet
<1>1. CASE having = {}
    <2>1. FindEnvForAction(name) = envs[1]
        BY <1>1 DEF FindEnvForAction
    <2>. QED  BY <1>0, <2>1
<1>2. CASE having # {}
    <2>. DEFINE i == CHOOSE k \in having : \A j \in having : k <= j
    <2>1. \E k \in having : \A j \in having : k <= j
        <3>1. having \in SUBSET Nat
            BY <1>0
        <3>. HIDE DEF having
        <3>. QED  BY <1>2, <3>1, LeastOf
    <2>2. i \in having
        <3>. HIDE DEF having
        <3>. QED  BY <2>1
    <2>3. FindEnvForAction(name) = envs[i]
        BY <1>2 DEF FindEnvForAction
    <2>4. i \in DOMAIN envs
        BY <2>2
    <2>. HIDE DEF i
    <2>. QED  BY <1>0, <2>3, <2>4
<1>. QED  BY <1>1, <1>2

LEMMA OthersRefuse ==
    ASSUME NEW s, NEW a, NEW c, c.name \in PostActions
    PROVE  ~MarketExecute(s, a, c).success /\ ~EconomicExecute(s, a, c).success
PROOF
<1>. QED  BY DEF PostActions, MarketExecute, EconomicExecute, Refused

LEMMA Executed ==
    ASSUME EnvsOK, NEW st, TurnOK(st), NEW a \in Agents, NEW c, CallOK(c),
           NEW next, next = Execute(st, a, c)
    PROVE  /\ TurnOK(next)
           /\ DOMAIN st.social.posts \subseteq DOMAIN next.social.posts
           /\ next.social.viral = st.social.viral
PROOF
<1>. DEFINE env == FindEnvForAction(c.name)
            out == CASE env = "social"   -> SocialExecute(st.social, a, c)
                     [] env = "market"   -> MarketExecute(st.market, a, c)
                     [] env = "economic" -> EconomicExecute(st.economy, a, c)
            then == CASE env = "social"   -> [st EXCEPT !.social = out.env]
                      [] env = "market"   -> [st EXCEPT !.market = out.env]
                      [] env = "economic" -> [st EXCEPT !.economy = out.env]
            r == Record(a, c.name, env, c, out.success, out.data)
            recs == Append(st.records, r)
<1>0. /\ Shape(st) /\ WorldOK(st.social, st.market, st.economy)
      /\ Enrolments(Environments, st.market, st.economy) /\ IsList(st.records)
      /\ \A i \in DOMAIN st.records : RecordOK(st.records[i], st.social)
    BY DEF TurnOK
<1>1. next = [then EXCEPT !.records = Append(@, r)]
    BY DEF Execute
<1>2. env \in Environments /\ env \in Named
    BY FoundEnv
<1>3. r.success = out.success /\ r.type = c.name /\ r.args = c /\ r.data = out.data
    BY DEF Record
<1>. HIDE DEF env, r
<1>. DEFINE Result(s, m, e) ==
       next = [social |-> s, market |-> m, economy |-> e, records |-> recs]
<1>4. ASSUME NEW s, NEW m, NEW e, WorldOK(s, m, e), Enrolments(Environments, m, e),
             DOMAIN st.social.posts \subseteq DOMAIN s.posts, s.viral = st.social.viral,
             c.name \in PostActions => ~out.success \/ out.data.post \in DOMAIN s.posts,
             then = [social |-> s, market |-> m, economy |-> e, records |-> st.records]
      PROVE  /\ TurnOK(next)
             /\ DOMAIN st.social.posts \subseteq DOMAIN next.social.posts
             /\ next.social.viral = st.social.viral
    <2>. HIDE DEF then, out
    <2>1. next = [social |-> s, market |-> m, economy |-> e, records |-> recs]
        BY <1>1, <1>4
    <2>2. RecordOK(r, s)
        <3>. SUFFICES ASSUME IsAuthored(r) PROVE r.args.text \in Texts /\ r.data.post \in DOMAIN s.posts
            BY DEF RecordOK
        <3>1. out.success /\ c.name \in PostActions
            BY <1>3 DEF IsAuthored
        <3>2. c.text \in Texts
            BY <3>1 DEF CallOK, PostActions
        <3>. QED  BY <1>3, <1>4, <3>1, <3>2
    <2>3. /\ IsList(recs) /\ DOMAIN recs = DOMAIN st.records \cup {Len(st.records) + 1}
          /\ \A i \in DOMAIN st.records : recs[i] = st.records[i]
          /\ recs[Len(st.records) + 1] = r
        BY <1>0, ListAppend, SMTT(30)
    <2>. HIDE DEF recs
    <2>4. \A i \in DOMAIN st.records : RecordOK(st.records[i], s)
        BY <1>0, <1>4 DEF RecordOK
    <2>5. \A i \in DOMAIN recs : RecordOK(recs[i], s)
        BY <2>2, <2>3, <2>4
    <2>6. /\ next.social = s /\ next.market = m /\ next.economy = e /\ next.records = recs
          /\ Shape(next)
        BY <2>1 DEF Shape
    <2>. QED  BY <1>4, <2>3, <2>5, <2>6 DEF TurnOK
<1>5. CASE env = "social"
    <2>1. out = SocialExecute(st.social, a, c) /\ then = [st EXCEPT !.social = out.env]
        BY <1>5
    <2>. HIDE DEF out, then
    <2>2. /\ SocialOK(out.env) /\ DOMAIN st.social.posts \subseteq DOMAIN out.env.posts
          /\ out.env.viral = st.social.viral
          /\ out.success /\ c.name \in PostActions => out.data.post \in DOMAIN out.env.posts
        BY <1>0, <2>1, SocialHandler DEF WorldOK
    <2>3. then = [social |-> out.env, market |-> st.market, economy |-> st.economy,
                  records |-> st.records]
        BY <1>0, <2>1 DEF Shape
    <2>4. WorldOK(out.env, st.market, st.economy)
        BY <1>0, <2>2 DEF WorldOK
    <2>. QED  BY <1>0, <1>4, <2>2, <2>3, <2>4
<1>6. CASE env = "market"
    <2>1. out = MarketExecute(st.market, a, c) /\ then = [st EXCEPT !.market = out.env]
        BY <1>6
    <2>. HIDE DEF out, then
    <2>2. c.name \in PostActions => ~out.success
        BY <2>1, OthersRefuse
    <2>3. DOMAIN st.market.portfolios = Agents /\ st.market \in MarketState
        BY <1>0, <1>2, <1>6 DEF Enrolments, WorldOK, MarketOK
    <2>4. /\ out.env \in MarketState /\ DOMAIN out.env.portfolios = Agents
          /\ Worth(out.env) = Worth(st.market)
        BY <2>1, <2>3, MarketHandler
    <2>5. then = [social |-> st.social, market |-> out.env, economy |-> st.economy,
                  records |-> st.records]
        BY <1>0, <2>1 DEF Shape
    <2>6. WorldOK(st.social, out.env, st.economy)
        BY <1>0, <2>3, <2>4 DEF WorldOK, MarketOK
    <2>7. Enrolments(Environments, out.env, st.economy)
        BY <1>0, <2>4 DEF Enrolments
    <2>. QED  BY <1>0, <1>4, <2>2, <2>5, <2>6, <2>7
<1>7. CASE env = "economic"
    <2>1. out = EconomicExecute(st.economy, a, c) /\ then = [st EXCEPT !.economy = out.env]
        BY <1>7
    <2>. HIDE DEF out, then
    <2>2. c.name \in PostActions => ~out.success
        BY <2>1, OthersRefuse
    <2>3. DOMAIN st.economy.actors = Agents /\ EconomyOK(st.economy)
        BY <1>0, <1>2, <1>7 DEF Enrolments, WorldOK
    <2>4. EconomyOK(out.env) /\ DOMAIN out.env.actors = Agents
        BY <2>1, <2>3, EconomyHandler
    <2>5. then = [social |-> st.social, market |-> st.market, economy |-> out.env,
                  records |-> st.records]
        BY <1>0, <2>1 DEF Shape
    <2>6. WorldOK(st.social, st.market, out.env)
        BY <1>0, <2>4 DEF WorldOK
    <2>7. Enrolments(Environments, st.market, out.env)
        BY <1>0, <2>4 DEF Enrolments
    <2>. QED  BY <1>0, <1>4, <2>2, <2>5, <2>6, <2>7
<1>. QED  BY <1>2, <1>5, <1>6, <1>7 DEF Named

Unfolded(f, st, a, answer, k) ==
    f = [n \in 0 .. k |-> IF n = 0 THEN st ELSE Execute(f[n - 1], a, answer[n])]

LEMMA TurnUnfolds ==
    ASSUME NEW st, NEW a, NEW answer, NEW k \in Nat
    PROVE  \E f : Unfolded(f, st, a, answer, k)
PROOF
<1>. DEFINE Bad == {m \in Nat : ~ \E f : Unfolded(f, st, a, answer, m)}
<1>1. \E f : Unfolded(f, st, a, answer, 0)
    <2>. DEFINE f == [n \in 0 .. 0 |-> st]
    <2>1. f = [n \in 0 .. 0 |-> IF n = 0 THEN st ELSE Execute(f[n - 1], a, answer[n])]
        OBVIOUS
    <2>. HIDE DEF f
    <2>2. Unfolded(f, st, a, answer, 0)
        BY <2>1 DEF Unfolded
    <2>. QED  BY <2>2
<1>2. ASSUME NEW m \in Nat, \E f : Unfolded(f, st, a, answer, m)
      PROVE  \E f : Unfolded(f, st, a, answer, m + 1)
    <2>1. PICK g : Unfolded(g, st, a, answer, m)
        BY <1>2
    <2>. DEFINE last == Execute(g[m], a, answer[m + 1])
                f == [n \in 0 .. m + 1 |-> IF n = m + 1 THEN last ELSE g[n]]
    <2>2. /\ DOMAIN g = 0 .. m
          /\ \A n \in 0 .. m : g[n] = IF n = 0 THEN st ELSE Execute(g[n - 1], a, answer[n])
        BY <2>1 DEF Unfolded
    <2>3. /\ DOMAIN f = 0 .. m + 1 /\ f[m + 1] = last /\ \A n \in 0 .. m : f[n] = g[n]
          /\ f = [n \in 0 .. m + 1 |-> f[n]]
        OBVIOUS
    <2>4. last = Execute(g[m], a, answer[m + 1])
        OBVIOUS
    <2>. HIDE DEF f, last
    <2>5. ASSUME NEW n \in 0 .. m + 1
          PROVE  f[n] = IF n = 0 THEN st ELSE Execute(f[n - 1], a, answer[n])
        <3>1. CASE n = m + 1
            <4>1. n # 0 /\ n - 1 = m /\ m \in 0 .. m
                BY <3>1
            <4>2. f[n - 1] = g[m]
                BY <2>3, <4>1
            <4>. QED  BY <2>3, <2>4, <3>1, <4>1, <4>2
        <3>2. CASE n # m + 1
            <4>1. n \in 0 .. m /\ (n # 0 => n - 1 \in 0 .. m)
                BY <3>2
            <4>2. f[n] = g[n] /\ (n # 0 => f[n - 1] = g[n - 1])
                BY <2>3, <4>1
            <4>. QED  BY <2>2, <4>1, <4>2
        <3>. QED  BY <3>1, <3>2
    <2>6. f = [n \in 0 .. m + 1 |-> IF n = 0 THEN st ELSE Execute(f[n - 1], a, answer[n])]
        BY <2>3, <2>5
    <2>7. Unfolded(f, st, a, answer, m + 1)
        BY <2>6 DEF Unfolded
    <2>. QED  BY <2>7
<1>3. ASSUME NEW m \in Bad PROVE \E j \in Bad : j < m
    <2>1. m # 0 /\ m - 1 \in Nat /\ m - 1 < m /\ (m - 1) + 1 = m
        BY <1>1
    <2>2. ~ \E f : Unfolded(f, st, a, answer, m - 1)
        BY <1>2, <2>1
    <2>. QED  BY <2>1, <2>2
<1>4. Bad = {}
    <2>1. Bad \in SUBSET Nat
        OBVIOUS
    <2>. HIDE DEF Bad
    <2>. QED  BY <2>1, <1>3, Descent
<1>. QED  BY <1>4

LEMMA AnswerFacts ==
    ASSUME NEW a \in Agents, NEW answer \in Answers(a)
    PROVE  /\ Len(answer) \in Nat /\ answer \in [1 .. Len(answer) -> Calls(a)]
           /\ (answer = <<>>) <=> (Len(answer) = 0)
PROOF
<1>1. PICK n \in 0 .. MaxCalls : answer \in [1 .. n -> Calls(a)]
    BY DEF Answers
<1>2. answer \in Seq(Calls(a)) /\ Len(answer) = n /\ n \in Nat
    BY <1>1, BaseAssumption
<1>. QED  BY <1>1, <1>2

LEMMA Turned ==
    ASSUME EnvsOK, NEW st, TurnOK(st), NEW a \in Agents, NEW answer \in Answers(a),
           NEW after, Unfolded(after, st, a, answer, Len(answer)),
           NEW end, end = after[Len(answer)]
    PROVE  /\ TurnOK(end)
           /\ DOMAIN st.social.posts \subseteq DOMAIN end.social.posts
           /\ end.social.viral = st.social.viral
PROOF
<1>. DEFINE k == Len(answer)
            Good(x) == /\ TurnOK(x)
                       /\ DOMAIN st.social.posts \subseteq DOMAIN x.social.posts
                       /\ x.social.viral = st.social.viral
            Bad == {n \in 0 .. k : ~Good(after[n])}
<1>0. k \in Nat /\ answer \in [1 .. k -> Calls(a)]
    BY AnswerFacts
<1>1. \A n \in 0 .. k : after[n] = IF n = 0 THEN st ELSE Execute(after[n - 1], a, answer[n])
    BY DEF Unfolded
<1>. HIDE DEF k
<1>2. ASSUME NEW n \in Bad PROVE \E m \in Bad : m < n
    <2>1. n \in 0 .. k /\ ~Good(after[n])
        OBVIOUS
    <2>2. n # 0
        BY <1>0, <1>1, <2>1
    <2>3. n - 1 \in 0 .. k /\ n - 1 < n /\ n \in 1 .. k
        BY <1>0, <2>1, <2>2
    <2>4. after[n] = Execute(after[n - 1], a, answer[n])
        BY <1>1, <2>1, <2>2
    <2>5. CallOK(answer[n])
        BY <1>0, <2>3, CallFacts
    <2>6. ASSUME Good(after[n - 1]) PROVE FALSE
        <3>1. /\ TurnOK(after[n])
              /\ DOMAIN after[n - 1].social.posts \subseteq DOMAIN after[n].social.posts
              /\ after[n].social.viral = after[n - 1].social.viral
            BY <2>4, <2>5, <2>6, Executed
        <3>. QED  BY <2>1, <2>6, <3>1
    <2>. QED  BY <2>3, <2>6
<1>3. Bad = {}
    <2>1. Bad \in SUBSET Nat
        BY <1>0
    <2>. HIDE DEF Bad
    <2>. QED  BY <1>2, <2>1, Descent
<1>4. Good(end)
    BY <1>0, <1>3 DEF k
<1>. QED  BY <1>4

-----------------------------------------------------------------------------
(* Control.                                                                  *)

ControlInv ==
    /\ envs \in EnvironmentLists /\ concurrency \in Concurrencies
    /\ round \in 1 .. Rounds + 1
    /\ phase \in {"observe", "act", "done", "failed"}
    /\ phase \in {"observe", "act"} => round <= Rounds
    /\ acted \subseteq Agents
    /\ phase # "act" => acted = {}
    /\ attempts \in [Agents -> 0 .. MaxAttempts - 1]

LEMMA EnvsNamed ==
    ASSUME ControlInv
    PROVE  EnvsOK /\ Environments \subseteq Named
PROOF
<1>1. EnvsOK
    BY EngineAssumption DEF ControlInv, EnvsOK, Named
<1>. QED  BY <1>1 DEF EnvsOK, Environments, ToSet

LEMMA AtLeastOne == Rounds \in Nat \ {0} /\ MaxMemory \in Nat \ {0} /\ MaxAttempts \in Nat \ {0}
PROOF
    BY EngineAssumption

LEMMA ControlInit == Init => ControlInv
PROOF
    BY AtLeastOne DEF Init, ControlInv

LEMMA ControlStep == ControlInv /\ [Next]_vars => ControlInv'
PROOF
<1>. SUFFICES ASSUME ControlInv, [Next]_vars PROVE ControlInv'
    OBVIOUS
<1>1. CASE ObserveRound
    BY <1>1 DEF ObserveRound, ControlInv
<1>2. ASSUME NEW a \in Agents, NEW answer \in Answers(a), StepAgent(a, answer)
      PROVE  ControlInv'
    BY <1>2, AtLeastOne DEF StepAgent, InFlight, ControlInv
<1>3. ASSUME NEW a \in Agents, ChatDrops(a)
      PROVE  ControlInv'
    <2>1. CASE attempts[a] + 1 = MaxAttempts
        BY <1>3, <2>1, AtLeastOne DEF ChatDrops, RunFails, ControlInv
    <2>2. CASE attempts[a] + 1 # MaxAttempts
        <3>1. /\ attempts' = [attempts EXCEPT ![a] = @ + 1] /\ phase' = phase /\ round' = round
              /\ acted' = acted /\ envs' = envs /\ concurrency' = concurrency
            BY <1>3, <2>2 DEF ChatDrops
        <3>2. attempts[a] + 1 \in 0 .. MaxAttempts - 1
            BY <2>2, AtLeastOne DEF ControlInv
        <3>. QED  BY <3>1, <3>2 DEF ControlInv
    <2>. QED  BY <2>1, <2>2
<1>4. ASSUME NEW a \in Agents, ToolRaises(a)
      PROVE  ControlInv'
    BY <1>4, AtLeastOne DEF ToolRaises, RunFails, ControlInv
<1>5. CASE EndRound
    <2>1. /\ phase = "act" /\ phase' = (IF round = Rounds THEN "done" ELSE "observe")
          /\ round' = round + 1 /\ acted' = {} /\ attempts' = attempts
          /\ envs' = envs /\ concurrency' = concurrency
        BY <1>5 DEF EndRound
    <2>. QED  BY <2>1, AtLeastOne DEF ControlInv
<1>6. CASE UNCHANGED vars
    BY <1>6 DEF vars, ControlInv
<1>. QED  BY <1>1, <1>2, <1>3, <1>4, <1>5, <1>6 DEF Next

-----------------------------------------------------------------------------
(* Scheduled events: nothing is pending between rounds, and the digest of    *)
(* round n is what is due in it.                                             *)

HeardInv ==
    /\ phase # "act" => pending = {}
    /\ heard \in [Agents -> Seq({Due(n) : n \in Nat})]
    /\ \A a \in Agents :
          /\ Len(heard[a]) = IF phase = "act" THEN round ELSE round - 1
          /\ \A n \in DOMAIN heard[a] : heard[a][n] = Due(n)

LEMMA HeardInit == Init => HeardInv
PROOF
    BY DEF Init, HeardInv

LEMMA HeardStep == ControlInv /\ HeardInv /\ [Next]_vars => HeardInv'
PROOF
<1>. SUFFICES ASSUME ControlInv, HeardInv, [Next]_vars PROVE HeardInv'
    OBVIOUS
<1>0. round \in Nat \ {0}
    BY AtLeastOne DEF ControlInv
<1>1. CASE ObserveRound
    <2>. DEFINE new == Digest(InjectScheduled)
    <2>1. phase = "observe" /\ phase' = "act" /\ round' = round
          /\ heard' = [a \in Agents |-> Append(heard[a], new)]
        BY <1>1 DEF ObserveRound
    <2>2. InjectScheduled = Due(round)
        BY <2>1 DEF InjectScheduled, HeardInv
    <2>3. new = Due(round)
        <3>1. \A e \in Due(round) : e.source = "scheduled"
            BY DEF Due, Event
        <3>2. "scheduled" \notin Environments
            BY EnvsNamed DEF Named
        <3>. QED  BY <2>2, <3>1, <3>2 DEF Digest
    <2>. HIDE DEF new
    <2>4. ASSUME NEW a \in Agents
          PROVE  /\ heard'[a] \in Seq({Due(n) : n \in Nat}) /\ Len(heard'[a]) = round
                 /\ \A n \in DOMAIN heard'[a] : heard'[a][n] = Due(n)
        <3>. DEFINE h == heard[a]
                    S == {Due(n) : n \in Nat}
        <3>1. /\ h \in Seq(S) /\ Len(h) = round - 1
              /\ \A n \in DOMAIN h : h[n] = Due(n)
            BY <2>1 DEF HeardInv
        <3>2. new \in S /\ heard'[a] = Append(h, new)
            BY <1>0, <2>1, <2>3
        <3>. HIDE DEF h, S
        <3>3. /\ Append(h, new) \in Seq(S) /\ Len(Append(h, new)) = Len(h) + 1
              /\ DOMAIN Append(h, new) = 1 .. Len(h) + 1
              /\ DOMAIN h = 1 .. Len(h) /\ Len(h) \in Nat
              /\ \A n \in DOMAIN h : Append(h, new)[n] = h[n]
              /\ Append(h, new)[Len(h) + 1] = new
            BY <3>1, <3>2
        <3>4. ASSUME NEW n \in 1 .. round PROVE Append(h, new)[n] = Due(n)
            <4>1. CASE n = round
                BY <1>0, <2>3, <3>1, <3>3, <4>1
            <4>2. CASE n # round
                <5>1. n \in DOMAIN h
                    BY <1>0, <3>1, <3>3, <4>2
                <5>. QED  BY <3>1, <3>3, <5>1
            <4>. QED  BY <4>1, <4>2
        <3>. QED  BY <1>0, <3>1, <3>2, <3>3, <3>4 DEF S
    <2>5. heard' \in [Agents -> Seq({Due(n) : n \in Nat})]
        BY <2>1, <2>4
    <2>. QED  BY <2>1, <2>4, <2>5 DEF HeardInv
<1>2. ASSUME NEW a \in Agents, NEW answer \in Answers(a), StepAgent(a, answer)
      PROVE  HeardInv'
    BY <1>2 DEF StepAgent, InFlight, HeardInv
<1>3. ASSUME RunFails PROVE HeardInv'
    BY <1>3 DEF RunFails, HeardInv
<1>4. ASSUME NEW a \in Agents, ChatDrops(a)
      PROVE  HeardInv'
    BY <1>3, <1>4 DEF ChatDrops, InFlight, HeardInv
<1>5. ASSUME NEW a \in Agents, ToolRaises(a)
      PROVE  HeardInv'
    BY <1>3, <1>5 DEF ToolRaises
<1>6. CASE EndRound
    <2>1. /\ phase = "act" /\ phase' \in {"observe", "done"} /\ round' = round + 1
          /\ heard' = heard /\ pending' = {}
        BY <1>6 DEF EndRound
    <2>. QED  BY <1>0, <2>1 DEF HeardInv
<1>7. CASE UNCHANGED vars
    BY <1>7 DEF vars, HeardInv
<1>. QED  BY <1>1, <1>2, <1>4, <1>5, <1>6, <1>7 DEF Next

(* Every agent's digest of a round holds the events scheduled for that     *)
(* round and nothing else (engine.py injects them before the round, and    *)
(* bridge.clear() empties the list after it), a failed run included.       *)
THEOREM ScheduledHeardOnceTheorem == Spec => []ScheduledHeardOnce
PROOF
<1>1. Init => ControlInv /\ HeardInv
    BY ControlInit, HeardInit
<1>2. ControlInv /\ HeardInv /\ [Next]_vars => (ControlInv /\ HeardInv)'
    BY ControlStep, HeardStep
<1>3. HeardInv => ScheduledHeardOnce
    BY DEF HeardInv, ScheduledHeardOnce, Due
<1>. QED  BY <1>1, <1>2, <1>3, PTL DEF Spec

-----------------------------------------------------------------------------
(* The world: environments, what the agents were shown, their records.       *)

WorldInv ==
    /\ WorldOK(social, market, economy)
    /\ phase = "act" => Enrolments(Environments, market, economy)
    /\ \A a \in Agents : seen[a] \subseteq DOMAIN social.posts
    /\ DOMAIN records = Agents
    /\ \A a \in Agents : a \notin acted => records[a] = <<>>
    /\ \A a \in Agents : \A i \in DOMAIN records[a] : RecordOK(records[a][i], social)

LEMMA WorldInit == Init => WorldInv
PROOF
    BY NewSocialOK, NewMarketOK, NewEconomyOK DEF Init, WorldInv, WorldOK

LEMMA WorldObserve == ControlInv /\ WorldInv /\ ObserveRound => WorldInv'
PROOF
<1>. SUFFICES ASSUME ControlInv, WorldInv, ObserveRound PROVE WorldInv'
    OBVIOUS
<1>1. /\ phase' = "act" /\ social' = social /\ records' = records /\ acted' = acted
      /\ envs' = envs
      /\ seen' \in [Agents -> IF "social" \in Environments THEN Feeds(social) ELSE {{}}]
      /\ market' = IF "market" \in Environments THEN Registered(market, Agents) ELSE market
      /\ economy' = IF "economic" \in Environments THEN Enrolled(economy, Agents) ELSE economy
    BY DEF ObserveRound
<1>2. WorldOK(social', market', economy')
    BY <1>1, MarketRegisters, EconomyEnrols DEF WorldInv, WorldOK
<1>3. Environments' = Environments
    BY <1>1 DEF Environments
<1>4. Enrolments(Environments', market', economy')
    BY <1>1, <1>3, MarketRegisters, EconomyEnrols DEF WorldInv, WorldOK, Enrolments
<1>5. \A f \in Feeds(social) : f \subseteq DOMAIN social.posts
    <2>. SUFFICES ASSUME NEW f \in Feeds(social) PROVE f \subseteq DOMAIN social.posts
        OBVIOUS
    <2>1. PICK top \in SUBSET TopLevel(social) :
              f = top \cup UNION {FirstReplies(social, p) : p \in top}
        BY DEF Feeds
    <2>2. \A p \in top : FirstReplies(social, p) \subseteq DOMAIN social.posts
        BY DEF FirstReplies, Replies
    <2>3. top \subseteq DOMAIN social.posts
        BY DEF TopLevel
    <2>. QED  BY <2>1, <2>2, <2>3
<1>6. \A a \in Agents : seen'[a] \subseteq DOMAIN social.posts
    BY <1>1, <1>5
<1>. QED  BY <1>1, <1>2, <1>4, <1>6 DEF WorldInv

LEMMA WorldTurn ==
    ASSUME ControlInv, WorldInv, NEW a \in Agents, NEW answer \in Answers(a), StepAgent(a, answer)
    PROVE  WorldInv' /\ social'.viral = social.viral
PROOF
<1>. DEFINE start == [social |-> social, market |-> market, economy |-> economy, records |-> <<>>]
            after == CHOOSE f : Unfolded(f, start, a, answer, Len(answer))
            end == after[Len(answer)]
            idle == << Record(a, "do_nothing", envs[1], <<>>, TRUE, NoData) >>
            recs == IF answer # <<>> THEN end.records ELSE idle
<1>1. /\ InFlight(a)
      /\ social' = end.social /\ market' = end.market /\ economy' = end.economy
      /\ records' = [records EXCEPT ![a] = recs]
      /\ acted' = acted \cup {a} /\ seen' = seen /\ envs' = envs /\ phase' = phase
    BY DEF StepAgent, Unfolded
<1>2. /\ phase = "act" /\ EnvsOK
    BY <1>1, EnvsNamed DEF InFlight
<1>3. TurnOK(start)
    <2>1. /\ start.social = social /\ start.market = market /\ start.economy = economy
          /\ start.records = <<>> /\ Shape(start)
        BY DEF Shape
    <2>2. <<>> \in Seq({}) /\ DOMAIN <<>> = {}
        OBVIOUS
    <2>. HIDE DEF start
    <2>. QED  BY <1>2, <2>1, <2>2 DEF TurnOK, WorldInv, IsList
<1>4. start.social = social
    OBVIOUS
<1>. HIDE DEF start
<1>5. Unfolded(after, start, a, answer, Len(answer))
    <2>1. \E f : Unfolded(f, start, a, answer, Len(answer))
        BY AnswerFacts, TurnUnfolds
    <2>. QED  BY <2>1
<1>. HIDE DEF after
<1>6. /\ TurnOK(end)
      /\ DOMAIN social.posts \subseteq DOMAIN end.social.posts
      /\ end.social.viral = social.viral
    BY <1>2, <1>3, <1>4, <1>5, Turned
<1>. HIDE DEF end
<1>7. \A i \in DOMAIN recs : RecordOK(recs[i], social')
    <2>1. \A i \in DOMAIN idle : ~IsAuthored(idle[i])
        BY DEF Record, IsAuthored, PostActions
    <2>. HIDE DEF idle
    <2>. QED  BY <1>1, <1>6, <2>1 DEF TurnOK, RecordOK
<1>. HIDE DEF recs
<1>8. /\ DOMAIN records = Agents /\ DOMAIN records' = Agents
      /\ records'[a] = recs /\ \A b \in Agents : b # a => records'[b] = records[b]
    BY <1>1 DEF WorldInv
<1>9. \A b \in Agents : \A i \in DOMAIN records'[b] : RecordOK(records'[b][i], social')
    <2>. SUFFICES ASSUME NEW b \in Agents, NEW i \in DOMAIN records'[b]
                  PROVE  RecordOK(records'[b][i], social')
        OBVIOUS
    <2>1. CASE b = a
        BY <1>7, <1>8, <2>1
    <2>2. CASE b # a
        <3>1. RecordOK(records[b][i], social) /\ records'[b] = records[b]
            BY <1>8, <2>2 DEF WorldInv
        <3>. QED  BY <1>1, <1>6, <3>1 DEF RecordOK
    <2>. QED  BY <2>1, <2>2
<1>10. /\ WorldOK(social', market', economy')
       /\ Enrolments(Environments', market', economy')
    BY <1>1, <1>6 DEF TurnOK, Environments
<1>11. \A b \in Agents : seen'[b] \subseteq DOMAIN social'.posts
    BY <1>1, <1>6 DEF WorldInv
<1>12. \A b \in Agents : b \notin acted' => records'[b] = <<>>
    BY <1>1, <1>8 DEF WorldInv
<1>. QED  BY <1>1, <1>6, <1>8, <1>9, <1>10, <1>11, <1>12 DEF WorldInv

LEMMA WorldReset == WorldInv /\ RunFails => WorldInv'
PROOF
<1>. SUFFICES ASSUME WorldInv, RunFails PROVE WorldInv'
    OBVIOUS
<1>1. /\ phase' = "failed" /\ social' = NewSocial /\ market' = NewMarket /\ economy' = NewEconomy
      /\ seen' = [a \in Agents |-> {}] /\ records' = [a \in Agents |-> <<>>]
    BY DEF RunFails
<1>2. WorldOK(social', market', economy')
    BY <1>1, NewSocialOK, NewMarketOK, NewEconomyOK DEF WorldOK
<1>. QED  BY <1>1, <1>2 DEF WorldInv

LEMMA WorldEnd == ControlInv /\ WorldInv /\ EndRound => WorldInv'
PROOF
<1>. SUFFICES ASSUME ControlInv, WorldInv, EndRound PROVE WorldInv'
    OBVIOUS
<1>1. /\ phase' \in {"done", "observe"} /\ TickAll
      /\ seen' = [a \in Agents |-> {}] /\ records' = [a \in Agents |-> <<>>]
    BY DEF EndRound
<1>2. WorldOK(social', market', economy')
    BY <1>1, SocialTicks, MarketTicks, EconomyTicks DEF TickAll, WorldInv, WorldOK
<1>. QED  BY <1>1, <1>2 DEF WorldInv

LEMMA WorldStep == ControlInv /\ WorldInv /\ [Next]_vars => WorldInv'
PROOF
<1>. SUFFICES ASSUME ControlInv, WorldInv, [Next]_vars PROVE WorldInv'
    OBVIOUS
<1>1. CASE ObserveRound
    BY <1>1, WorldObserve
<1>2. ASSUME NEW a \in Agents, NEW answer \in Answers(a), StepAgent(a, answer)
      PROVE  WorldInv'
    BY <1>2, WorldTurn
<1>3. ASSUME NEW a \in Agents, ChatDrops(a)
      PROVE  WorldInv'
    <2>1. RunFails \/ UNCHANGED <<phase, social, market, economy, seen, acted, records>>
        BY <1>3 DEF ChatDrops, world
    <2>2. envs' = envs
        BY <1>3 DEF ChatDrops
    <2>. QED  BY <2>1, <2>2, WorldReset DEF WorldInv, Environments
<1>4. ASSUME NEW a \in Agents, ToolRaises(a)
      PROVE  WorldInv'
    BY <1>4, WorldReset DEF ToolRaises
<1>5. CASE EndRound
    BY <1>5, WorldEnd
<1>6. CASE UNCHANGED vars
    BY <1>6 DEF vars, world, WorldInv, Environments
<1>. QED  BY <1>1, <1>2, <1>3, <1>4, <1>5, <1>6 DEF Next

(* No sequence of trades makes or loses money, nobody is ever in debt or   *)
(* short of shares, and what was invested is the output, in total and for  *)
(* each actor: whole-number reserves and any rounding of the quotient      *)
(* (market_amm.py, economic.py _handle_invest).                            *)
THEOREM WorthConservedTheorem == Spec => []WorthConserved
PROOF
<1>1. Init => ControlInv /\ WorldInv
    BY ControlInit, WorldInit
<1>2. ControlInv /\ WorldInv /\ [Next]_vars => (ControlInv /\ WorldInv)'
    BY ControlStep, WorldStep
<1>3. WorldInv => WorthConserved
    <2>. SUFFICES ASSUME WorldInv PROVE WorthConserved
        OBVIOUS
    <2>1. /\ Worth(market) = Worth(NewMarket) + Cardinality(DOMAIN market.portfolios) * InitialBalance
          /\ market \in MarketState
          /\ economy.invested = SumOver(economy, "output")
          /\ \A a \in DOMAIN economy.actors :
                economy.actors[a].balance + economy.actors[a].output = 0
        BY DEF WorldInv, WorldOK, MarketOK, EconomyOK
    <2>2. ASSUME NEW a \in DOMAIN market.portfolios
          PROVE  /\ market.portfolios[a].balance >= 0
                 /\ \A m \in Markets, o \in Outcomes : market.portfolios[a].shares[m][o] >= 0
        <3>1. market.portfolios[a] \in Portfolio
            BY <2>1 DEF MarketState
        <3>. QED  BY <3>1 DEF Portfolio
    <2>. QED  BY <2>1, <2>2 DEF WorthConserved
<1>. QED  BY <1>1, <1>2, <1>3, PTL DEF Spec

-----------------------------------------------------------------------------
(* Viral posts: the published events and the posts known to be viral match   *)
(* one to one.                                                               *)

Announced(e, p) == e.source = "social" /\ e.about = p

ViralInv ==
    /\ \A e \in published : e.source = "social" => e.about \in social.viral
    /\ \A p \in social.viral : \E e \in published : Announced(e, p)
    /\ \A e, f \in published : Announced(e, f.about) /\ f.source = "social" => e = f

LEMMA ViralEnd == ControlInv /\ WorldInv /\ ViralInv /\ EndRound => ViralInv'
PROOF
<1>. SUFFICES ASSUME ControlInv, WorldInv, ViralInv, EndRound PROVE ViralInv'
    OBVIOUS
<1>1. published' = published \cup NewEvents /\ TickAll
    BY DEF EndRound
<1>2. SocialOK(social) /\ MarketOK(market) /\ EconomyOK(economy)
    BY DEF WorldInv, WorldOK
<1>. DEFINE fresh == IF "social" \in Environments THEN NewlyViral(social) ELSE {}
<1>3. fresh \cap social.viral = {} /\ social'.viral = social.viral \cup fresh
    BY <1>1, <1>2, SocialTicks DEF TickAll
<1>4. \A e \in NewEvents : e.source = "social" => \E p \in fresh : e = ViralEvent(p, social.round + 1)
    <2>. SUFFICES ASSUME NEW e \in NewEvents, e.source = "social"
                  PROVE  \E p \in fresh : e = ViralEvent(p, social.round + 1)
        OBVIOUS
    <2>1. PICK env \in Environments : e \in EventsOf(env)
        BY DEF NewEvents
    <2>2. env \in Named
        BY EnvsNamed
    <2>3. env = "social"
        <3>1. env # "market"
            BY <1>2, <2>1, MarketTicks DEF EventsOf
        <3>2. env # "economic"
            BY <1>2, <2>1, EconomyTicks DEF EventsOf
        <3>. QED  BY <2>2, <3>1, <3>2 DEF Named
    <2>4. e \in SocialTick(social).events
        BY <2>1, <2>3 DEF EventsOf
    <2>. QED  BY <1>2, <2>1, <2>3, <2>4, SocialTicks
<1>5. \A p \in fresh : ViralEvent(p, social.round + 1) \in NewEvents
    <2>. SUFFICES ASSUME NEW p \in fresh PROVE ViralEvent(p, social.round + 1) \in NewEvents
        OBVIOUS
    <2>1. "social" \in Environments /\ p \in NewlyViral(social)
        OBVIOUS
    <2>2. ViralEvent(p, social.round + 1) \in EventsOf("social")
        BY <1>2, <2>1, SocialTicks DEF EventsOf
    <2>. QED  BY <2>1, <2>2 DEF NewEvents
<1>6. \A p : /\ ViralEvent(p, social.round + 1).source = "social"
             /\ ViralEvent(p, social.round + 1).about = p
    BY DEF ViralEvent, Event
<1>. HIDE DEF fresh
<1>7. \A e \in NewEvents : e.source = "social" =>
         e.about \in fresh /\ e = ViralEvent(e.about, social.round + 1)
    BY <1>4, <1>6
<1>8. \A e \in published' : e.source = "social" => e.about \in social'.viral
    BY <1>1, <1>3, <1>7 DEF ViralInv
<1>9. ASSUME NEW p \in social'.viral PROVE \E e \in published' : Announced(e, p)
    <2>1. CASE p \in social.viral
        BY <1>1, <2>1 DEF ViralInv
    <2>2. CASE p \in fresh
        <3>1. ViralEvent(p, social.round + 1) \in published'
            BY <1>1, <1>5, <2>2
        <3>. QED  BY <1>6, <3>1 DEF Announced
    <2>. QED  BY <1>3, <2>1, <2>2
<1>10. ASSUME NEW e \in published', NEW f \in published', Announced(e, f.about), f.source = "social"
       PROVE  e = f
    <2>1. e.source = "social" /\ e.about = f.about
        BY <1>10 DEF Announced
    <2>2. CASE e \in published /\ f \in published
        BY <1>10, <2>2 DEF ViralInv
    <2>3. CASE e \in NewEvents /\ f \in NewEvents
        BY <1>7, <1>10, <2>1, <2>3, Zenon
    <2>4. ~(e \in published /\ f \in NewEvents /\ f \notin published)
        BY <1>3, <1>7, <1>10, <2>1 DEF ViralInv
    <2>5. ~(f \in published /\ e \in NewEvents /\ e \notin published)
        BY <1>3, <1>7, <1>10, <2>1 DEF ViralInv
    <2>. QED  BY <1>1, <2>2, <2>3, <2>4, <2>5
<1>. QED  BY <1>8, <1>9, <1>10 DEF ViralInv

LEMMA ViralStep == ControlInv /\ WorldInv /\ ViralInv /\ [Next]_vars => ViralInv'
PROOF
<1>. SUFFICES ASSUME ControlInv, WorldInv, ViralInv, [Next]_vars PROVE ViralInv'
    OBVIOUS
<1>0. social'.viral = social.viral /\ published' = published => ViralInv'
    BY DEF ViralInv
<1>1. CASE ObserveRound
    BY <1>0, <1>1 DEF ObserveRound
<1>2. ASSUME NEW a \in Agents, NEW answer \in Answers(a), StepAgent(a, answer)
      PROVE  ViralInv'
    <2>1. published' = published
        BY <1>2 DEF StepAgent
    <2>. QED  BY <1>0, <1>2, <2>1, WorldTurn
<1>3. ASSUME RunFails PROVE ViralInv'
    <2>1. published' = {} /\ social'.viral = {}
        BY <1>3, NewSocialOK DEF RunFails
    <2>. QED  BY <2>1 DEF ViralInv
<1>4. ASSUME NEW a \in Agents, ChatDrops(a)
      PROVE  ViralInv'
    <2>1. RunFails \/ (social' = social /\ published' = published)
        BY <1>4 DEF ChatDrops, world
    <2>. QED  BY <1>0, <1>3, <2>1
<1>5. ASSUME NEW a \in Agents, ToolRaises(a)
      PROVE  ViralInv'
    BY <1>3, <1>5 DEF ToolRaises
<1>6. CASE EndRound
    BY <1>6, ViralEnd
<1>7. CASE UNCHANGED vars
    BY <1>0, <1>7 DEF vars, world
<1>. QED  BY <1>1, <1>2, <1>4, <1>5, <1>6, <1>7 DEF Next

(* A post is published as viral once when it is viral and never when it is *)
(* not, however its counts move in the rounds that follow (social.py       *)
(* tick() and publish_events()).                                           *)
THEOREM ViralOnceTheorem == Spec => []ViralOnce
PROOF
<1>1. Init => ControlInv /\ WorldInv /\ ViralInv
    <2>1. Init => ViralInv
        BY NewSocialOK DEF Init, ViralInv
    <2>. QED  BY <2>1, ControlInit, WorldInit
<1>2. ControlInv /\ WorldInv /\ ViralInv /\ [Next]_vars => (ControlInv /\ WorldInv /\ ViralInv)'
    BY ControlStep, WorldStep, ViralStep
<1>3. ViralInv => ViralOnce
    <2>. SUFFICES ASSUME ViralInv, NEW p \in DOMAIN social.posts
                  PROVE  Cardinality({e \in published : e.source = "social" /\ e.about = p})
                           = IF p \in social.viral THEN 1 ELSE 0
        BY DEF ViralOnce
    <2>. DEFINE S == {e \in published : e.source = "social" /\ e.about = p}
    <2>1. CASE p \in social.viral
        <3>1. PICK e \in published : Announced(e, p)
            BY <2>1 DEF ViralInv
        <3>2. \A f \in S : f = e
            BY <3>1 DEF ViralInv, Announced
        <3>3. S = {e}
            BY <3>1, <3>2 DEF Announced
        <3>. HIDE DEF S
        <3>4. Cardinality(S) = 1
            BY <3>3, FS_Singleton
        <3>. QED  BY <2>1, <3>4 DEF S
    <2>2. CASE p \notin social.viral
        <3>1. S = {}
            BY <2>2 DEF ViralInv
        <3>. HIDE DEF S
        <3>2. Cardinality(S) = 0
            BY <3>1, FS_EmptySet
        <3>. QED  BY <2>2, <3>2 DEF S
    <2>. QED  BY <2>1, <2>2
<1>. QED  BY <1>1, <1>2, <1>3, PTL DEF Spec

-----------------------------------------------------------------------------
(* Beliefs: positions and stances in thousandths, trust and confidence       *)
(* too.                                                                      *)

LEMMA Ranges ==
    /\ \A x \in Unit : x \in Nat /\ x \in Int /\ 0 <= x /\ x <= 1000
    /\ \A x \in Signed : x \in Int /\ -1000 <= x /\ x <= 1000
    /\ \A x \in Int : 0 <= x /\ x <= 1000 => x \in Unit
    /\ \A x \in Int : -1000 <= x /\ x <= 1000 => x \in Signed
PROOF
<1>1. ASSUME NEW x \in Unit PROVE x \in Nat /\ x \in Int /\ 0 <= x /\ x <= 1000
    BY DEF Unit
<1>2. ASSUME NEW x \in Signed PROVE x \in Int /\ -1000 <= x /\ x <= 1000
    BY DEF Signed
<1>3. ASSUME NEW x \in Int, 0 <= x, x <= 1000 PROVE x \in Unit
    BY <1>3 DEF Unit
<1>4. ASSUME NEW x \in Int, -1000 <= x, x <= 1000 PROVE x \in Signed
    BY <1>4 DEF Signed
<1>. QED  BY <1>1, <1>2, <1>3, <1>4

BeliefOK(b) ==
    /\ b.position \in Signed /\ b.confidence \in Unit
    /\ b.trust \in [Agents -> Unit]
    /\ Cardinality(b.exposed) <= ExposureCap

ViewOK(posts) ==
    /\ DOMAIN posts \subseteq Agents \X (1 .. MaxCalls)
    /\ \A k \in DOMAIN posts :
          posts[k].stance \in Signed /\ posts[k].likes \in Nat /\ posts[k].dislikes \in Nat

LEMMA BeliefBounds ==
    ASSUME NEW b, BeliefOK(b)
    PROVE  /\ b.position \in Int /\ -1000 <= b.position /\ b.position <= 1000
           /\ b.confidence \in Nat /\ b.confidence <= 1000
           /\ \A a \in Agents : b.trust[a] \in Unit
PROOF
    BY Ranges DEF BeliefOK

LEMMA ViewBounds ==
    ASSUME NEW posts, ViewOK(posts), NEW k \in DOMAIN posts
    PROVE  /\ k[1] \in Agents
           /\ posts[k].stance \in Signed /\ posts[k].stance \in Int
           /\ posts[k].likes \in Nat /\ posts[k].dislikes \in Nat
PROOF
<1>1. k \in Agents \X (1 .. MaxCalls)
    BY DEF ViewOK
<1>2. posts[k].stance \in Signed /\ posts[k].likes \in Nat /\ posts[k].dislikes \in Nat
    BY DEF ViewOK
<1>3. posts[k].stance \in Int
    BY <1>2, Ranges
<1>. QED  BY <1>1, <1>2, <1>3

LEMMA ViewFinite ==
    ASSUME NEW posts, ViewOK(posts)
    PROVE  IsFiniteSet(DOMAIN posts)
PROOF
<1>1. IsFiniteSet(1 .. MaxCalls)
    BY FS_Interval, BaseAssumption
<1>2. IsFiniteSet(Agents \X (1 .. MaxCalls))
    BY <1>1, FS_Product, BaseAssumption
<1>. QED  BY <1>2, FS_Subset DEF ViewOK

LEMMA Signs ==
    ASSUME NEW x \in Int, NEW y \in Nat
    PROVE  /\ (x * y) \div 10000 \in Int
           /\ x <= 0 => (x * y) \div 10000 <= 0
           /\ x >= 0 => (x * y) \div 10000 >= 0
PROOF
<1>. DEFINE p == x * y
<1>1. p \in Int /\ (x <= 0 => p <= 0) /\ (x >= 0 => p >= 0)
    OBVIOUS
<1>. HIDE DEF p
<1>2. p \div 10000 \in Int /\ (p <= 0 => p \div 10000 <= 0) /\ (p >= 0 => p \div 10000 >= 0)
    BY <1>1
<1>. QED  BY <1>1, <1>2 DEF p

LEMMA InfluenceNat ==
    ASSUME NEW b, BeliefOK(b), NEW posts, ViewOK(posts), NEW k \in DOMAIN posts
    PROVE  Influence(b, posts, k) \in Nat
PROOF
<1>. DEFINE proof == 300 + 70 * posts[k].likes
            novelty == IF Seen(b, posts, k) THEN 5 ELSE 15
            c == 700 * b.confidence
            resistance == 300 + c \div 1000
            t == b.trust[k[1]]
<1>1. t \in Nat /\ posts[k].likes \in Nat /\ b.confidence \in Nat
    <2>1. b.trust[k[1]] \in Unit
        BY BeliefBounds, ViewBounds
    <2>. QED  BY <2>1, BeliefBounds, ViewBounds, Ranges
<1>2. proof \in Nat /\ novelty \in Nat /\ c \in Nat
    BY <1>1
<1>3. Influence(b, posts, k) = ((((t * proof) \div 1000) * novelty) * 100) \div resistance
    BY DEF Influence
<1>. HIDE DEF proof, novelty, c, t
<1>4. resistance \in Nat /\ resistance > 0
    <2>1. c \div 1000 \in Nat
        BY <1>2
    <2>. QED  BY <2>1
<1>. HIDE DEF resistance
<1>. DEFINE p == t * proof
            q == p \div 1000
            r == q * novelty
            s == r * 100
<1>5. p \in Nat
    BY <1>1, <1>2
<1>. HIDE DEF p
<1>6. q \in Nat
    BY <1>5
<1>. HIDE DEF q
<1>7. r \in Nat
    BY <1>2, <1>6
<1>. HIDE DEF r
<1>8. s \in Nat
    BY <1>7
<1>. HIDE DEF s
<1>9. s \div resistance \in Nat
    BY <1>4, <1>8
<1>. QED  BY <1>3, <1>9 DEF p, q, r, s

LEMMA ShiftFacts ==
    ASSUME NEW b, BeliefOK(b), NEW posts, ViewOK(posts)
    PROVE  /\ Shift(b, posts) \in Int
           /\ (\A k \in DOMAIN posts : posts[k].stance <= b.position) => Shift(b, posts) <= 0
           /\ (\A k \in DOMAIN posts : posts[k].stance >= b.position) => Shift(b, posts) >= 0
PROOF
<1>. DEFINE v == [k \in DOMAIN posts |->
                    ((posts[k].stance - b.position) * Influence(b, posts, k)) \div 10000]
<1>0. Shift(b, posts) = Sum(v)
    BY DEF Shift
<1>1. ASSUME NEW k \in DOMAIN posts
      PROVE  /\ v[k] \in Int
             /\ posts[k].stance <= b.position => v[k] <= 0
             /\ posts[k].stance >= b.position => v[k] >= 0
    <2>. DEFINE gap == posts[k].stance - b.position
                pull == Influence(b, posts, k)
    <2>1. /\ gap \in Int /\ pull \in Nat
          /\ posts[k].stance <= b.position => gap <= 0
          /\ posts[k].stance >= b.position => gap >= 0
        <3>1. posts[k].stance \in Int /\ b.position \in Int
            BY BeliefBounds, ViewBounds
        <3>2. pull \in Nat
            BY InfluenceNat
        <3>. HIDE DEF pull
        <3>. QED  BY <3>1, <3>2
    <2>2. v[k] = (gap * pull) \div 10000
        OBVIOUS
    <2>. HIDE DEF gap, pull, v
    <2>. QED  BY <2>1, <2>2, Signs
<1>2. DOMAIN v = DOMAIN posts
    OBVIOUS
<1>. HIDE DEF v
<1>3. Numbers(v)
    BY <1>1, <1>2, ViewFinite DEF Numbers
<1>. QED  BY <1>0, <1>1, <1>2, <1>3, SumFacts

LEMMA Clamped ==
    /\ \A x \in Int : Clamp(x, 0, 1000) \in Unit
    /\ \A x \in Int : Clamp(x, -1000, 1000) \in Signed
PROOF
<1>1. \A x \in Int : Clamp(x, 0, 1000) \in Int /\ 0 <= Clamp(x, 0, 1000) /\ Clamp(x, 0, 1000) <= 1000
    BY DEF Clamp
<1>2. \A x \in Int : /\ Clamp(x, -1000, 1000) \in Int
                     /\ -1000 <= Clamp(x, -1000, 1000) /\ Clamp(x, -1000, 1000) <= 1000
    BY DEF Clamp
<1>. QED  BY <1>1, <1>2, Ranges

LEMMA TrustKept ==
    ASSUME NEW t \in Unit, NEW stance \in Signed, NEW position \in Signed
    PROVE  TrustAfter(t, stance, position) \in Unit
PROOF
<1>. DEFINE d == Distance(stance, position)
            alignment == 1000 - d \div 2
            gain == ((alignment - 500) * 5) \div 100
<1>0. t \in Int /\ stance \in Int /\ position \in Int
    BY Ranges
<1>1. d \in Nat
    BY <1>0 DEF Distance
<1>2. TrustAfter(t, stance, position) = Clamp(t + gain, 0, 1000)
    BY DEF TrustAfter
<1>. HIDE DEF d
<1>3. gain \in Int
    <2>1. alignment \in Int
        BY <1>1
    <2>. HIDE DEF alignment
    <2>. QED  BY <2>1
<1>. HIDE DEF gain
<1>4. t + gain \in Int
    BY <1>0, <1>3
<1>. QED  BY <1>2, <1>4, Clamped

Following(f, t, posts, a, position, k) ==
    f = [n \in 0 .. k |->
           IF n = 0 THEN t
           ELSE IF <<a, n>> \in DOMAIN posts
                THEN TrustAfter(f[n - 1], posts[<<a, n>>].stance, position)
                ELSE f[n - 1]]

LEMMA TrustFollows ==
    ASSUME NEW t \in Unit, NEW posts, ViewOK(posts), NEW a, NEW position \in Signed, NEW k \in Nat
    PROVE  \E f : Following(f, t, posts, a, position, k)
PROOF
<1>. DEFINE Then(u, n) == IF <<a, n>> \in DOMAIN posts
                           THEN TrustAfter(u, posts[<<a, n>>].stance, position) ELSE u
            Bad == {m \in Nat : ~ \E f : Following(f, t, posts, a, position, m)}
<1>0. \A f, m : Following(f, t, posts, a, position, m)
                  <=> f = [n \in 0 .. m |-> IF n = 0 THEN t ELSE Then(f[n - 1], n)]
    BY DEF Following
<1>. HIDE DEF Then
<1>1. \E f : Following(f, t, posts, a, position, 0)
    <2>. DEFINE f == [n \in 0 .. 0 |-> t]
    <2>1. f = [n \in 0 .. 0 |-> IF n = 0 THEN t ELSE Then(f[n - 1], n)]
        OBVIOUS
    <2>. HIDE DEF f
    <2>2. Following(f, t, posts, a, position, 0)
        BY <1>0, <2>1
    <2>. QED  BY <2>2
<1>2. ASSUME NEW m \in Nat, \E f : Following(f, t, posts, a, position, m)
      PROVE  \E f : Following(f, t, posts, a, position, m + 1)
    <2>1. PICK g : Following(g, t, posts, a, position, m)
        BY <1>2
    <2>. DEFINE last == Then(g[m], m + 1)
                f == [n \in 0 .. m + 1 |-> IF n = m + 1 THEN last ELSE g[n]]
    <2>2. /\ DOMAIN g = 0 .. m
          /\ \A n \in 0 .. m : g[n] = IF n = 0 THEN t ELSE Then(g[n - 1], n)
        <3>1. g = [n \in 0 .. m |-> IF n = 0 THEN t ELSE Then(g[n - 1], n)]
            BY <1>0, <2>1
        <3>. QED  BY <3>1
    <2>3. /\ DOMAIN f = 0 .. m + 1 /\ f[m + 1] = last /\ \A n \in 0 .. m : f[n] = g[n]
          /\ f = [n \in 0 .. m + 1 |-> f[n]]
        OBVIOUS
    <2>4. last = Then(g[m], m + 1)
        OBVIOUS
    <2>. HIDE DEF f, last
    <2>5. ASSUME NEW n \in 0 .. m + 1
          PROVE  f[n] = IF n = 0 THEN t ELSE Then(f[n - 1], n)
        <3>1. CASE n = m + 1
            <4>1. n # 0 /\ n - 1 = m /\ m \in 0 .. m
                BY <3>1
            <4>2. f[n - 1] = g[m]
                BY <2>3, <4>1
            <4>. QED  BY <2>3, <2>4, <3>1, <4>1, <4>2
        <3>2. CASE n # m + 1
            <4>1. n \in 0 .. m /\ (n # 0 => n - 1 \in 0 .. m)
                BY <3>2
            <4>2. f[n] = g[n] /\ (n # 0 => f[n - 1] = g[n - 1])
                BY <2>3, <4>1
            <4>. QED  BY <2>2, <4>1, <4>2
        <3>. QED  BY <3>1, <3>2
    <2>6. f = [n \in 0 .. m + 1 |-> IF n = 0 THEN t ELSE Then(f[n - 1], n)]
        BY <2>3, <2>5
    <2>7. Following(f, t, posts, a, position, m + 1)
        BY <1>0, <2>6
    <2>. QED  BY <2>7
<1>3. ASSUME NEW m \in Bad PROVE \E j \in Bad : j < m
    <2>1. m # 0 /\ m - 1 \in Nat /\ m - 1 < m /\ (m - 1) + 1 = m
        BY <1>1
    <2>2. ~ \E f : Following(f, t, posts, a, position, m - 1)
        BY <1>2, <2>1
    <2>. QED  BY <2>1, <2>2
<1>4. Bad = {}
    <2>1. Bad \in SUBSET Nat
        OBVIOUS
    <2>. HIDE DEF Bad
    <2>. QED  BY <2>1, <1>3, Descent
<1>. QED  BY <1>4

LEMMA TrustBounded ==
    ASSUME NEW t \in Unit, NEW posts, ViewOK(posts), NEW a, NEW position \in Signed,
           NEW k \in Nat, NEW f, Following(f, t, posts, a, position, k)
    PROVE  f[k] \in Unit
PROOF
<1>. DEFINE Bad == {n \in 0 .. k : f[n] \notin Unit}
<1>0. \A n \in 0 .. k :
         f[n] = IF n = 0 THEN t
                ELSE IF <<a, n>> \in DOMAIN posts
                     THEN TrustAfter(f[n - 1], posts[<<a, n>>].stance, position)
                     ELSE f[n - 1]
    BY DEF Following
<1>1. ASSUME NEW n \in Bad PROVE \E m \in Bad : m < n
    <2>1. n \in 0 .. k /\ f[n] \notin Unit
        OBVIOUS
    <2>2. n # 0 /\ n - 1 \in 0 .. k /\ n - 1 < n
        <3>1. n = 0 => f[n] = t
            BY <1>0, <2>1
        <3>2. n # 0
            BY <2>1, <3>1
        <3>. QED  BY <2>1, <3>2
    <2>3. CASE <<a, n>> \in DOMAIN posts
        <3>1. f[n] = TrustAfter(f[n - 1], posts[<<a, n>>].stance, position)
            BY <1>0, <2>1, <2>2, <2>3
        <3>2. posts[<<a, n>>].stance \in Signed
            BY <2>3, ViewBounds
        <3>3. f[n - 1] \notin Unit
            BY <2>1, <3>1, <3>2, TrustKept
        <3>. QED  BY <2>2, <3>3
    <2>4. CASE <<a, n>> \notin DOMAIN posts
        BY <1>0, <2>1, <2>2, <2>4
    <2>. QED  BY <2>3, <2>4
<1>2. Bad = {}
    <2>1. Bad \in SUBSET Nat
        OBVIOUS
    <2>. HIDE DEF Bad
    <2>. QED  BY <1>1, <2>1, Descent
<1>. QED  BY <1>2

LEMMA AlignedBounded ==
    ASSUME NEW trust \in [Agents -> Unit], NEW posts, ViewOK(posts), NEW position \in Signed
    PROVE  Aligned(trust, posts, position) \in [Agents -> Unit]
PROOF
<1>. DEFINE after(a) == CHOOSE f : Following(f, trust[a], posts, a, position, MaxCalls)
<1>1. Aligned(trust, posts, position) = [a \in Agents |-> after(a)[MaxCalls]]
    BY DEF Aligned, Following
<1>2. ASSUME NEW a \in Agents PROVE after(a)[MaxCalls] \in Unit
    <2>1. trust[a] \in Unit /\ MaxCalls \in Nat
        BY BaseAssumption
    <2>2. \E f : Following(f, trust[a], posts, a, position, MaxCalls)
        BY <2>1, TrustFollows
    <2>3. Following(after(a), trust[a], posts, a, position, MaxCalls)
        BY <2>2
    <2>. HIDE DEF after
    <2>. QED  BY <2>1, <2>3, TrustBounded
<1>. HIDE DEF after
<1>. QED  BY <1>1, <1>2

BeliefInv == \A a \in Agents : BeliefOK(beliefs[a])

LEMMA BeliefStart == BeliefOK(NewBelief(Agents))
PROOF
<1>1. 0 \in Signed /\ 500 \in Unit
    BY Ranges
<1>2. /\ NewBelief(Agents).position = 0 /\ NewBelief(Agents).confidence = 500
      /\ NewBelief(Agents).trust = [a \in Agents |-> 500] /\ NewBelief(Agents).exposed = {}
    BY DEF NewBelief, DefaultTrust, DefaultConfidence
<1>3. Cardinality({}) <= ExposureCap
    BY FS_EmptySet, BeliefAssumption
<1>. QED  BY <1>1, <1>2, <1>3 DEF BeliefOK

LEMMA Views ==
    ASSUME WorldInv
    PROVE  /\ ViewOK(AuthoredThisRound)
           /\ \A a \in Agents : ViewOK(OthersPosts(a)) /\ ViewOK(OwnPosts(a))
PROOF
<1>. DEFINE D == {x \in Agents \X (1 .. MaxCalls) :
                    x[2] \in DOMAIN records[x[1]] /\ IsAuthored(records[x[1]][x[2]])}
            all == AuthoredThisRound
<1>1. /\ DOMAIN all = D
      /\ \A k \in D :
           /\ all[k].stance = Stance[records[k[1]][k[2]].args.text]
           /\ all[k].likes = CurrentEngagement(social)[records[k[1]][k[2]].data.post].likes
           /\ all[k].dislikes = CurrentEngagement(social)[records[k[1]][k[2]].data.post].dislikes
    BY ZenonT(60) DEF AuthoredThisRound, Authored
<1>. HIDE DEF all
<1>2. ASSUME NEW k \in D
      PROVE  all[k].stance \in Signed /\ all[k].likes \in Nat /\ all[k].dislikes \in Nat
    <2>. DEFINE r == records[k[1]][k[2]]
    <2>1. IsAuthored(r) /\ RecordOK(r, social)
        BY DEF WorldInv
    <2>. HIDE DEF r
    <2>2. r.args.text \in Texts /\ r.data.post \in DOMAIN social.posts
        BY <2>1 DEF RecordOK
    <2>3. Stance[r.args.text] \in Signed
        <3>1. Stance \in [Texts -> Signed]
            BY BeliefAssumption DEF Signed
        <3>. QED  BY <2>2, <3>1
    <2>4. social.posts[r.data.post] \in Post
        BY <2>2 DEF WorldInv, WorldOK, SocialOK, SocialState
    <2>5. /\ CurrentEngagement(social)[r.data.post].likes \in Nat
          /\ CurrentEngagement(social)[r.data.post].dislikes \in Nat
        BY <2>2, <2>4 DEF CurrentEngagement, Post
    <2>. QED  BY <1>1, <2>3, <2>5 DEF r
<1>3. D \subseteq Agents \X (1 .. MaxCalls)
    OBVIOUS
<1>. HIDE DEF D
<1>4. ViewOK(all)
    BY <1>1, <1>2, <1>3 DEF ViewOK
<1>5. ASSUME NEW S \in SUBSET D PROVE ViewOK(Restrict(all, S))
    <2>1. DOMAIN Restrict(all, S) = S /\ \A k \in S : Restrict(all, S)[k] = all[k]
        BY SMTT(30) DEF Restrict
    <2>. QED  BY <1>2, <1>3, <2>1 DEF ViewOK
<1>6. \A a \in Agents : ViewOK(OthersPosts(a)) /\ ViewOK(OwnPosts(a))
    BY <1>1, <1>5, SMTT(40) DEF OthersPosts, OwnPosts, all
<1>. QED  BY <1>4, <1>6 DEF all

LEMMA ReceptionInt ==
    ASSUME WorldInv, NEW a \in Agents, NEW field \in {"likes", "dislikes"}
    PROVE  Reception(a, field) \in Int
PROOF
<1>. DEFINE own == OwnPosts(a)
            v == [k \in DOMAIN own |-> own[k][field]]
<1>1. ViewOK(own)
    BY Views
<1>2. Reception(a, field) = Sum(v)
    BY DEF Reception
<1>. HIDE DEF own
<1>3. DOMAIN v = DOMAIN own /\ \A k \in DOMAIN own : v[k] \in Int
    BY <1>1, ViewBounds
<1>. HIDE DEF v
<1>4. Numbers(v)
    BY <1>1, <1>3, ViewFinite DEF Numbers
<1>. QED  BY <1>2, <1>4, SumFacts

LEMMA Updated ==
    ASSUME WorldInv, BeliefInv, EndRound, NEW a \in Agents
    PROVE  /\ BeliefOK(beliefs'[a])
           /\ \/ beliefs'[a] = beliefs[a]
              \/ beliefs'[a].position
                   = Clamp(beliefs[a].position + Shift(beliefs[a], OthersPosts(a)), -1000, 1000)
PROOF
<1>1. PICK kept : /\ \A b \in Agents : kept[b] \in Capped(HashesAfter(b))
                  /\ beliefs' = ApplyBeliefUpdates(kept)
    BY DEF EndRound
<1>2. beliefs'[a] = IF Untouched(a) THEN beliefs[a]
                    ELSE UpdateBeliefs(beliefs[a], OthersPosts(a), Reception(a, "likes"),
                                       Reception(a, "dislikes"), kept[a])
    BY <1>1 DEF ApplyBeliefUpdates
<1>3. BeliefOK(beliefs[a])
    BY DEF BeliefInv
<1>4. CASE Untouched(a)
    BY <1>2, <1>3, <1>4
<1>5. CASE ~Untouched(a)
    <2>. DEFINE b == beliefs[a]
                posts == OthersPosts(a)
                likes == Reception(a, "likes")
                dislikes == Reception(a, "dislikes")
                position == Clamp(b.position + Shift(b, posts), -1000, 1000)
                trust == Aligned(b.trust, posts, position)
                confidence == ConfidenceAfter(b.confidence, likes, dislikes)
    <2>1. beliefs'[a] = [position |-> position, confidence |-> confidence, trust |-> trust,
                         exposed |-> kept[a]]
        BY <1>2, <1>5 DEF UpdateBeliefs
    <2>2. ViewOK(posts) /\ BeliefOK(b) /\ likes \in Int /\ dislikes \in Int
        BY <1>3, Views, ReceptionInt
    <2>3. Cardinality(kept[a]) <= ExposureCap
        <3>1. kept[a] \in Capped(HashesAfter(a))
            BY <1>1
        <3>2. ExposureCap \in Nat
            BY BeliefAssumption
        <3>. QED  BY <3>1, <3>2 DEF Capped
    <2>. HIDE DEF b, posts, likes, dislikes
    <2>4. position \in Signed
        <3>1. b.position + Shift(b, posts) \in Int
            BY <2>2, BeliefBounds, ShiftFacts
        <3>. QED  BY <3>1, Clamped
    <2>5. confidence \in Unit
        <3>. DEFINE x == b.confidence + 5 * likes - 8 * dislikes
        <3>1. x \in Int
            BY <2>2, BeliefBounds
        <3>2. confidence = Clamp(x, 0, 1000)
            BY DEF ConfidenceAfter
        <3>. HIDE DEF x, confidence
        <3>. QED  BY <3>1, <3>2, Clamped
    <2>. HIDE DEF position, confidence
    <2>6. trust \in [Agents -> Unit]
        BY <2>2, <2>4, AlignedBounded DEF BeliefOK
    <2>. HIDE DEF trust
    <2>7. BeliefOK(beliefs'[a]) /\ beliefs'[a].position = position
        BY <2>1, <2>3, <2>4, <2>5, <2>6 DEF BeliefOK
    <2>. QED  BY <2>7 DEF position, b, posts
<1>. QED  BY <1>4, <1>5

LEMMA BeliefStep == WorldInv /\ BeliefInv /\ [Next]_vars => BeliefInv'
PROOF
<1>. SUFFICES ASSUME WorldInv, BeliefInv, [Next]_vars PROVE BeliefInv'
    OBVIOUS
<1>1. CASE ObserveRound
    BY <1>1 DEF ObserveRound, BeliefInv
<1>2. ASSUME NEW a \in Agents, NEW answer \in Answers(a), StepAgent(a, answer)
      PROVE  BeliefInv'
    <2>1. beliefs' = beliefs
        BY <1>2 DEF StepAgent
    <2>. QED  BY <2>1 DEF BeliefInv
<1>3. ASSUME RunFails PROVE BeliefInv'
    <2>1. beliefs' = [b \in Agents |-> NewBelief(Agents)]
        BY <1>3 DEF RunFails
    <2>. QED  BY <2>1, BeliefStart DEF BeliefInv
<1>4. ASSUME NEW a \in Agents, ChatDrops(a)
      PROVE  BeliefInv'
    <2>1. RunFails \/ beliefs' = beliefs
        BY <1>4 DEF ChatDrops
    <2>. QED  BY <1>3, <2>1 DEF BeliefInv
<1>5. ASSUME NEW a \in Agents, ToolRaises(a)
      PROVE  BeliefInv'
    BY <1>3, <1>5 DEF ToolRaises
<1>6. CASE EndRound
    BY <1>6, Updated DEF BeliefInv
<1>7. CASE UNCHANGED vars
    BY <1>7 DEF vars, BeliefInv
<1>. QED  BY <1>1, <1>2, <1>4, <1>5, <1>6, <1>7 DEF Next

Pulled(a) ==
    EndRound /\ beliefs'[a].position # beliefs[a].position =>
       LET peers == OthersPosts(a)
       IN /\ beliefs'[a].position > beliefs[a].position
               => \E k \in DOMAIN peers : peers[k].stance > beliefs[a].position
          /\ beliefs'[a].position < beliefs[a].position
               => \E k \in DOMAIN peers : peers[k].stance < beliefs[a].position

LEMMA PeersPullStep == WorldInv /\ BeliefInv => \A a \in Agents : Pulled(a)
PROOF
<1>. SUFFICES ASSUME WorldInv, BeliefInv, NEW a \in Agents, EndRound,
                     beliefs'[a].position # beliefs[a].position
              PROVE  /\ beliefs'[a].position > beliefs[a].position
                          => \E k \in DOMAIN OthersPosts(a) :
                                OthersPosts(a)[k].stance > beliefs[a].position
                     /\ beliefs'[a].position < beliefs[a].position
                          => \E k \in DOMAIN OthersPosts(a) :
                                OthersPosts(a)[k].stance < beliefs[a].position
    BY DEF Pulled
<1>. DEFINE b == beliefs[a]
            peers == OthersPosts(a)
            p == b.position
            shift == Shift(b, peers)
            q == beliefs'[a].position
<1>1. q = Clamp(p + shift, -1000, 1000)
    BY Updated
<1>2. BeliefOK(b) /\ ViewOK(peers)
    BY Views DEF BeliefInv
<1>. HIDE DEF b, peers
<1>3. p \in Int /\ -1000 <= p /\ p <= 1000
    BY <1>2, BeliefBounds
<1>4. \A k \in DOMAIN peers : peers[k].stance \in Int
    BY <1>2, ViewBounds
<1>5. /\ shift \in Int
      /\ (\A k \in DOMAIN peers : peers[k].stance <= p) => shift <= 0
      /\ (\A k \in DOMAIN peers : peers[k].stance >= p) => shift >= 0
    BY <1>2, ShiftFacts
<1>. HIDE DEF shift, p, q
<1>6. (shift <= 0 => ~(q > p)) /\ (shift >= 0 => ~(q < p))
    BY <1>1, <1>3, <1>5 DEF Clamp
<1>7. q > p => \E k \in DOMAIN peers : peers[k].stance > p
    <2>. SUFFICES ASSUME \A k \in DOMAIN peers : ~(peers[k].stance > p) PROVE ~(q > p)
        OBVIOUS
    <2>1. \A k \in DOMAIN peers : peers[k].stance <= p
        BY <1>3, <1>4
    <2>. QED  BY <1>5, <1>6, <2>1
<1>8. q < p => \E k \in DOMAIN peers : peers[k].stance < p
    <2>. SUFFICES ASSUME \A k \in DOMAIN peers : ~(peers[k].stance < p) PROVE ~(q < p)
        OBVIOUS
    <2>1. \A k \in DOMAIN peers : peers[k].stance >= p
        BY <1>3, <1>4
    <2>. QED  BY <1>5, <1>6, <2>1
<1>. QED  BY <1>7, <1>8 DEF p, q, b, peers

LEMMA BeliefInit == Init => BeliefInv
PROOF
<1>. SUFFICES ASSUME Init PROVE BeliefInv
    OBVIOUS
<1>1. beliefs = [a \in Agents |-> NewBelief(Agents)]
    BY DEF Init
<1>. QED  BY <1>1, BeliefStart DEF BeliefInv

(* A position moves only at the end of a round in which another agent      *)
(* wrote something on the side it moves to (belief.py).                    *)
THEOREM PeersPullTheorem == Spec => PeersPull
PROOF
<1>1. Init => ControlInv /\ WorldInv /\ BeliefInv
    BY ControlInit, WorldInit, BeliefInit
<1>2. ControlInv /\ WorldInv /\ BeliefInv /\ [Next]_vars => (ControlInv /\ WorldInv /\ BeliefInv)'
    BY ControlStep, WorldStep, BeliefStep
<1>3. WorldInv /\ BeliefInv =>
        [\A a \in Agents : beliefs'[a].position # beliefs[a].position /\ EndRound =>
           LET peers == OthersPosts(a)
           IN /\ beliefs'[a].position > beliefs[a].position
                   => \E k \in DOMAIN peers : peers[k].stance > beliefs[a].position
              /\ beliefs'[a].position < beliefs[a].position
                   => \E k \in DOMAIN peers : peers[k].stance < beliefs[a].position]_vars
    BY PeersPullStep DEF Pulled
<1>. QED  BY <1>1, <1>2, <1>3, PTL DEF Spec, PeersPull

-----------------------------------------------------------------------------
(* The memory of the agents, and the types of it all.                        *)

MemoryInv ==
    /\ DOMAIN memory = Agents
    /\ \A a \in Agents : IsList(memory[a]) /\ Len(memory[a]) <= MaxMemory

LEMMA Remembered ==
    ASSUME NEW mem, IsList(mem), NEW a \in Agents, NEW answer \in Answers(a),
           NEW new, new = Remember(mem, answer)
    PROVE  IsList(new) /\ Len(new) <= MaxMemory
PROOF
<1>. DEFINE add == [i \in DOMAIN answer |-> <<round, answer[i]>>]
            all == mem \o add
            from == Len(all) - MaxMemory + 1
<1>0. MaxMemory \in Nat \ {0}
    BY AtLeastOne
<1>1. PICK S : mem \in Seq(S)
    BY DEF IsList
<1>. DEFINE T == S \cup {<<round, c>> : c \in Calls(a)}
<1>2. add \in Seq(T)
    <2>1. /\ Len(answer) \in Nat /\ DOMAIN answer = 1 .. Len(answer)
          /\ \A i \in DOMAIN answer : answer[i] \in Calls(a)
        BY AnswerFacts
    <2>2. add \in [1 .. Len(answer) -> T]
        BY <2>1
    <2>. HIDE DEF add, T
    <2>. QED  BY <2>1, <2>2
<1>3. mem \in Seq(T)
    BY <1>1
<1>. HIDE DEF add, T
<1>4. all \in Seq(T) /\ Len(all) \in Nat
    BY <1>2, <1>3
<1>5. new = IF Len(all) > MaxMemory THEN SubSeq(all, from, Len(all)) ELSE all
    BY DEF Remember, add
<1>. HIDE DEF all
<1>6. CASE Len(all) > MaxMemory
    <2>1. from \in 1 .. Len(all) /\ Len(all) - from + 1 = MaxMemory
        BY <1>0, <1>4, <1>6
    <2>. HIDE DEF from
    <2>2. /\ SubSeq(all, from, Len(all)) \in Seq(T)
          /\ Len(SubSeq(all, from, Len(all))) = Len(all) - from + 1
        BY <1>4, <2>1, SubSeqProperties
    <2>3. new \in Seq(T) /\ Len(new) = MaxMemory
        BY <1>5, <1>6, <2>1, <2>2
    <2>. QED  BY <1>0, <2>3 DEF IsList
<1>7. CASE ~(Len(all) > MaxMemory)
    BY <1>0, <1>4, <1>5, <1>7 DEF IsList
<1>. QED  BY <1>6, <1>7

LEMMA MemoryBlank ==
    ASSUME NEW m, m = [a \in Agents |-> <<>>]
    PROVE  /\ DOMAIN m = Agents
           /\ \A a \in Agents : IsList(m[a]) /\ Len(m[a]) <= MaxMemory
PROOF
<1>1. <<>> \in Seq({}) /\ Len(<<>>) = 0
    OBVIOUS
<1>2. IsList(<<>>)
    BY <1>1 DEF IsList
<1>. QED  BY <1>1, <1>2, AtLeastOne

LEMMA MemoryStep == MemoryInv /\ [Next]_vars => MemoryInv'
PROOF
<1>. SUFFICES ASSUME MemoryInv, [Next]_vars PROVE MemoryInv'
    OBVIOUS
<1>0. memory' = memory => MemoryInv'
    BY DEF MemoryInv
<1>1. CASE ObserveRound
    BY <1>0, <1>1 DEF ObserveRound
<1>2. ASSUME NEW a \in Agents, NEW answer \in Answers(a), StepAgent(a, answer)
      PROVE  MemoryInv'
    <2>. DEFINE new == Remember(memory[a], answer)
    <2>1. memory' = [memory EXCEPT ![a] = new]
        BY <1>2 DEF StepAgent
    <2>2. IsList(new) /\ Len(new) <= MaxMemory
        BY Remembered DEF MemoryInv
    <2>. HIDE DEF new
    <2>. QED  BY <2>1, <2>2 DEF MemoryInv
<1>3. ASSUME RunFails PROVE MemoryInv'
    BY <1>3, MemoryBlank DEF RunFails, MemoryInv
<1>4. ASSUME NEW a \in Agents, ChatDrops(a)
      PROVE  MemoryInv'
    <2>1. RunFails \/ memory' = memory
        BY <1>4 DEF ChatDrops
    <2>. QED  BY <1>0, <1>3, <2>1
<1>5. ASSUME NEW a \in Agents, ToolRaises(a)
      PROVE  MemoryInv'
    BY <1>3, <1>5 DEF ToolRaises
<1>6. CASE EndRound
    BY <1>0, <1>6 DEF EndRound
<1>7. CASE UNCHANGED vars
    BY <1>0, <1>7 DEF vars
<1>. QED  BY <1>1, <1>2, <1>4, <1>5, <1>6, <1>7 DEF Next

LEMMA BeliefTyped ==
    ASSUME NEW b, BeliefOK(b)
    PROVE  BeliefTypeOK(b)
PROOF
    BY DEF BeliefOK, BeliefTypeOK

LEMMA TypeFollows == ControlInv /\ WorldInv /\ BeliefInv /\ MemoryInv => TypeOK
PROOF
<1>. SUFFICES ASSUME ControlInv, WorldInv, BeliefInv, MemoryInv PROVE TypeOK
    OBVIOUS
<1>0. SocialOK(social) /\ MarketOK(market) /\ EconomyOK(economy)
    BY DEF WorldInv, WorldOK
<1>1. SocialTypeOK(social)
    <2>. DEFINE s == social
    <2>0. s = social
        OBVIOUS
    <2>. HIDE DEF s
    <2>1. /\ s \in SocialState /\ s.viral \subseteq DOMAIN s.posts /\ s.round \in Nat
          /\ s.posts \in Seq(Post) /\ s.follows \in [Agents -> SUBSET Targets]
          /\ \A p \in DOMAIN s.posts : s.posts[p].parent < p /\ s.posts[p].created <= s.round
        BY <1>0, <2>0 DEF SocialOK, SocialState
    <2>2. ASSUME NEW p \in DOMAIN s.posts
          PROVE  /\ s.posts[p].author \in Agents /\ s.posts[p].text \in Texts
                 /\ s.posts[p].parent \in 0 .. p - 1
                 /\ s.posts[p].voters \subseteq Agents
                 /\ {s.posts[p].likes, s.posts[p].dislikes, s.posts[p].reposts} \subseteq Nat
                 /\ s.posts[p].created \in 0 .. s.round
        <3>. DEFINE q == s.posts[p]
        <3>1. q \in Post /\ q.parent < p /\ q.created <= s.round /\ p \in Nat
            BY <2>1
        <3>. HIDE DEF q
        <3>2. /\ q.author \in Agents /\ q.text \in Texts /\ q.voters \subseteq Agents
              /\ q.parent \in Nat /\ q.created \in Nat
              /\ {q.likes, q.dislikes, q.reposts} \subseteq Nat
            BY <3>1 DEF Post
        <3>3. q.parent \in 0 .. p - 1 /\ q.created \in 0 .. s.round
            BY <2>1, <3>1, <3>2
        <3>. QED  BY <3>2, <3>3 DEF q
    <2>. QED  BY <2>0, <2>1, <2>2 DEF SocialTypeOK
<1>2. MarketTypeOK(market)
    <2>1. /\ market.markets \in [Markets -> Reserves]
          /\ market.portfolios \in [{} -> Portfolio] \cup [Agents -> Portfolio]
        BY <1>0 DEF MarketOK, MarketState
    <2>2. ASSUME NEW a \in DOMAIN market.portfolios
          PROVE  /\ market.portfolios[a].balance \in Nat
                 /\ market.portfolios[a].shares \in [Markets -> [Outcomes -> Nat]]
        <3>1. market.portfolios[a] \in Portfolio
            BY <2>1
        <3>. QED  BY <3>1 DEF Portfolio
    <2>3. DOMAIN market.portfolios \subseteq Agents
        BY <2>1
    <2>. QED  BY <2>1, <2>2, <2>3 DEF MarketTypeOK, Reserves
<1>3. EconomyTypeOK(economy)
    <2>1. /\ economy.invested \in Int
          /\ economy.actors \in [{} -> Actor] \cup [Agents -> Actor]
        BY <1>0 DEF EconomyOK, EconomyState
    <2>. QED  BY <2>1 DEF EconomyTypeOK, Actor
<1>4. ASSUME NEW a \in Agents PROVE BeliefTypeOK(beliefs[a])
    BY BeliefTyped DEF BeliefInv
<1>5. ASSUME NEW a \in Agents PROVE attempts[a] \in 0 .. MaxAttempts
    <2>1. attempts[a] \in 0 .. MaxAttempts - 1 /\ MaxAttempts \in Nat
        BY AtLeastOne DEF ControlInv
    <2>. QED  BY <2>1
<1>. QED  BY <1>1, <1>2, <1>3, <1>4, <1>5 DEF TypeOK, ControlInv, WorldInv, MemoryInv

(* The types: among them that every post replies to an older one, that a   *)
(* feed shows posts that exist, that positions, trust and confidence stay  *)
(* in their ranges and the texts seen and remembered under their caps.     *)
THEOREM TypeTheorem == Spec => []TypeOK
PROOF
<1>. DEFINE Inv == ControlInv /\ WorldInv /\ BeliefInv /\ MemoryInv
<1>1. Init => Inv
    <2>1. Init => MemoryInv
        BY MemoryBlank DEF Init, MemoryInv
    <2>. QED  BY <2>1, ControlInit, WorldInit, BeliefInit
<1>2. Inv /\ [Next]_vars => Inv'
    BY ControlStep, WorldStep, BeliefStep, MemoryStep
<1>3. Inv => TypeOK
    BY TypeFollows
<1>. HIDE DEF Inv
<1>. QED  BY <1>1, <1>2, <1>3, PTL DEF Spec

-----------------------------------------------------------------------------
(* Trades: sums over parts and lists; what a list of records says was paid   *)
(* and got; and that it explains the portfolios.                             *)

\* A part of a sum is a sum.
LEMMA SumPart ==
    ASSUME NEW D, IsFiniteSet(D), NEW v \in [D -> Int], NEW u, Additive(u, v), NEW S \in SUBSET D,
           NEW w \in [S -> Int], \A x \in S : w[x] = v[x]
    PROVE  u[S] = Sum(w)
PROOF
<1>0. w \in [S -> Int] /\ DOMAIN v = D /\ \A x \in S : w[x] = v[x]
    OBVIOUS
<1>1. IsFiniteSet(S)
    BY FS_Subset
<1>2. PICK t : Additive(t, w) /\ Sum(w) = t[S]
    BY <1>0, <1>1, SumIsAdditive DEF Numbers
<1>3. /\ u[{}] = 0 /\ t[{}] = 0
      /\ \A s \in SUBSET S : u[s] \in Int /\ t[s] \in Int
      /\ \A s \in SUBSET S : \A y \in s : u[s] = v[y] + u[s \ {y}] /\ t[s] = v[y] + t[s \ {y}]
    BY <1>0, <1>2 DEF Additive
<1>. DEFINE Bad == {s \in SUBSET S : u[s] # t[s]}
<1>4. ASSUME NEW s \in Bad PROVE \E y \in s : s \ {y} \in Bad
    <2>1. s \in SUBSET S /\ u[s] # t[s]
        OBVIOUS
    <2>2. PICK y \in s : TRUE
        BY <1>3, <2>1
    <2>3. /\ s \ {y} \in SUBSET S
          /\ u[s] = v[y] + u[s \ {y}] /\ t[s] = v[y] + t[s \ {y}]
        BY <1>3, <2>1
    <2>4. u[s \ {y}] # t[s \ {y}]
        BY <2>1, <2>3
    <2>. QED  BY <2>3, <2>4
<1>5. Bad = {}
    <2>1. Bad \in SUBSET (SUBSET S)
        OBVIOUS
    <2>. HIDE DEF Bad
    <2>. QED  BY <1>1, <1>4, <2>1, SetDescent
<1>6. u[S] = t[S]
    BY <1>5
<1>. QED  BY <1>2, <1>6

\* One term of a sum and the rest of it, whatever the terms.
Splits(D, x, S) ==
    \A v \in [D -> Int], w \in [S -> Int] :
        (\A y \in S : w[y] = v[y]) => Sum(w) \in Int /\ Sum(v) = v[x] + Sum(w)

LEMMA SumSplit ==
    ASSUME NEW D, IsFiniteSet(D), NEW x \in D, NEW S, S = D \ {x}
    PROVE  Splits(D, x, S)
PROOF
<1>. SUFFICES ASSUME NEW v \in [D -> Int], NEW w \in [S -> Int], \A y \in S : w[y] = v[y]
              PROVE  Sum(w) \in Int /\ Sum(v) = v[x] + Sum(w)
    BY DEF Splits
<1>1. PICK u : Additive(u, v) /\ Sum(v) = u[D]
    BY SumIsAdditive DEF Numbers
<1>2. S \in SUBSET D
    OBVIOUS
<1>3. u[S] = Sum(w)
    BY <1>1, <1>2, SumPart
<1>4. u[D] = v[x] + u[S] /\ u[S] \in Int
    BY <1>1 DEF Additive
<1>. QED  BY <1>1, <1>3, <1>4

\* Terms that are nothing can be left out.
LEMMA SumSupport ==
    ASSUME NEW D, IsFiniteSet(D), NEW v \in [D -> Int], NEW S \in SUBSET D,
           \A x \in D \ S : v[x] = 0, NEW w \in [S -> Int], \A x \in S : w[x] = v[x]
    PROVE  Sum(v) = Sum(w)
PROOF
<1>1. PICK u : Additive(u, v) /\ Sum(v) = u[D]
    BY SumIsAdditive DEF Numbers
<1>2. u[S] = Sum(w)
    BY <1>1, SumPart
<1>3. /\ \A s \in SUBSET D : u[s] \in Int
      /\ \A s \in SUBSET D : \A y \in s : u[s] = v[y] + u[s \ {y}]
    BY <1>1 DEF Additive
<1>. DEFINE Bad == {s \in SUBSET (D \ S) : u[S \cup s] # u[S]}
<1>4. ASSUME NEW s \in Bad PROVE \E y \in s : s \ {y} \in Bad
    <2>1. s \in SUBSET (D \ S) /\ u[S \cup s] # u[S]
        OBVIOUS
    <2>2. PICK y \in s : TRUE
        <3>1. s = {} => S \cup s = S
            OBVIOUS
        <3>. QED  BY <2>1, <3>1
    <2>3. PICK t : t = S \cup s
        OBVIOUS
    <2>4. PICK r : r = S \cup (s \ {y})
        OBVIOUS
    <2>5. t \in SUBSET D /\ r \in SUBSET D /\ y \in t /\ t \ {y} = r /\ v[y] = 0
        BY <2>1, <2>3, <2>4
    <2>6. u[t] = v[y] + u[r] /\ u[r] \in Int /\ v[y] = 0
        BY <1>3, <2>5
    <2>7. u[t] # u[S]
        BY <2>1, <2>3
    <2>8. u[r] # u[S]
        BY <2>6, <2>7
    <2>9. s \ {y} \in SUBSET (D \ S)
        BY <2>1
    <2>. QED  BY <2>4, <2>8, <2>9
<1>5. Bad = {}
    <2>1. Bad \in SUBSET (SUBSET (D \ S)) /\ IsFiniteSet(D \ S)
        BY FS_Subset
    <2>. HIDE DEF Bad
    <2>. QED  BY <1>4, <2>1, SetDescent
<1>6. u[S \cup (D \ S)] = u[S]
    BY <1>5
<1>7. S \cup (D \ S) = D
    OBVIOUS
<1>. QED  BY <1>1, <1>2, <1>6, <1>7

\* The terms of a list, one after the other.
LEMMA SumLast ==
    ASSUME NEW n \in Nat
    PROVE  \A c \in [1 .. n + 1 -> Int] :
               /\ Sum([i \in 1 .. n |-> c[i]]) \in Int
               /\ Sum(c) = Sum([i \in 1 .. n |-> c[i]]) + c[n + 1]
PROOF
<1>1. PICK D : D = 1 .. n + 1
    OBVIOUS
<1>2. IsFiniteSet(D)
    BY <1>1, FS_Interval
<1>3. PICK S : S = 1 .. n
    OBVIOUS
<1>4. PICK x \in D : x = n + 1 /\ S = D \ {x}
    BY <1>1, <1>3
<1>5. S = D \ {x}
    BY <1>4
<1>6. Splits(D, x, S)
    BY <1>2, <1>5, SumSplit
<1>7. ASSUME NEW c \in [1 .. n + 1 -> Int]
      PROVE  /\ Sum([i \in 1 .. n |-> c[i]]) \in Int
             /\ Sum(c) = Sum([i \in 1 .. n |-> c[i]]) + c[n + 1]
    <2>1. PICK w : w = [i \in S |-> c[i]]
        OBVIOUS
    <2>2. c \in [D -> Int] /\ w \in [S -> Int] /\ \A y \in S : w[y] = c[y]
        BY <1>1, <1>3, <2>1
    <2>3. Sum(w) \in Int /\ Sum(c) = c[x] + Sum(w)
        BY <1>6, <2>2 DEF Splits
    <2>4. c[n + 1] \in Int /\ w = [i \in 1 .. n |-> c[i]]
        BY <1>3, <2>1
    <2>. QED  BY <1>4, <2>3, <2>4
<1>. QED  BY <1>7

LEMMA SumJoined ==
    ASSUME NEW p \in Nat, NEW n \in Nat, NEW c, \A i \in 1 .. p + n : c[i] \in Int
    PROVE  /\ Sum([i \in 1 .. p |-> c[i]]) \in Int /\ Sum([i \in 1 .. n |-> c[p + i]]) \in Int
           /\ Sum([i \in 1 .. p + n |-> c[i]])
                = Sum([i \in 1 .. p |-> c[i]]) + Sum([i \in 1 .. n |-> c[p + i]])
PROOF
<1>. DEFINE Upto(k) == Sum([i \in 1 .. k |-> c[i]])
            Past(k) == Sum([i \in 1 .. k |-> c[p + i]])
            Bad == {k \in 0 .. n : ~(Past(k) \in Int /\ Upto(p + k) = Upto(p) + Past(k))}
<1>1. Upto(p) \in Int
    <2>. DEFINE d == [i \in 1 .. p |-> c[i]]
    <2>1. d \in [1 .. p -> Int] /\ IsFiniteSet(1 .. p)
        BY FS_Interval
    <2>2. Numbers(d)
        BY <2>1 DEF Numbers
    <2>. HIDE DEF d
    <2>3. Sum(d) \in Int
        BY <2>2, SumFacts
    <2>. QED  BY <2>3 DEF d
<1>2. ~(0 \in Bad)
    <2>1. Past(0) = 0
        <3>1. 1 .. 0 = {}
            OBVIOUS
        <3>2. Numbers([i \in 1 .. 0 |-> c[p + i]]) /\ DOMAIN [i \in 1 .. 0 |-> c[p + i]] = {}
            BY <3>1, FS_EmptySet DEF Numbers
        <3>. QED  BY <3>2, SumFacts
    <2>2. p + 0 = p
        OBVIOUS
    <2>. HIDE DEF Past, Upto
    <2>. QED  BY <1>1, <2>1, <2>2
<1>3. ASSUME NEW k \in Nat, k + 1 \in 0 .. n, Past(k) \in Int, Upto(p + k) = Upto(p) + Past(k)
      PROVE  Past(k + 1) \in Int /\ Upto(p + (k + 1)) = Upto(p) + Past(k + 1)
    <2>. DEFINE d == [i \in 1 .. k + 1 |-> c[p + i]]
                e == [i \in 1 .. (p + k) + 1 |-> c[i]]
    <2>1. d \in [1 .. k + 1 -> Int] /\ e \in [1 .. (p + k) + 1 -> Int]
        BY <1>3
    <2>2. /\ d[k + 1] = c[p + (k + 1)] /\ e[(p + k) + 1] = c[(p + k) + 1]
          /\ p + (k + 1) = (p + k) + 1 /\ c[p + (k + 1)] \in Int /\ p + k \in Nat
        BY <1>3
    <2>3. [i \in 1 .. k |-> d[i]] = [i \in 1 .. k |-> c[p + i]]
        OBVIOUS
    <2>4. [i \in 1 .. p + k |-> e[i]] = [i \in 1 .. p + k |-> c[i]]
        OBVIOUS
    <2>5. Past(k + 1) = Sum(d) /\ Upto(p + (k + 1)) = Sum(e)
        BY <2>2
    <2>. HIDE DEF d, e
    <2>6. Sum(d) = Past(k) + d[k + 1]
        BY <2>1, <2>3, SumLast
    <2>7. Sum(e) = Upto(p + k) + e[(p + k) + 1]
        BY <2>1, <2>2, <2>4, SumLast
    <2>. HIDE DEF Past, Upto
    <2>. QED  BY <1>1, <1>3, <2>2, <2>5, <2>6, <2>7
<1>4. ASSUME NEW k \in Bad PROVE \E j \in Bad : j < k
    <2>1. k \in 0 .. n /\ k # 0
        BY <1>2
    <2>2. k - 1 \in Nat /\ (k - 1) + 1 = k /\ k - 1 \in 0 .. n /\ k - 1 < k
        BY <2>1
    <2>. HIDE DEF Past, Upto
    <2>3. k - 1 \in Bad
        BY <1>3, <2>1, <2>2
    <2>. QED  BY <2>2, <2>3
<1>5. Bad = {}
    <2>1. Bad \in SUBSET Nat
        OBVIOUS
    <2>. HIDE DEF Bad
    <2>. QED  BY <1>4, <2>1, Descent
<1>6. Past(n) \in Int /\ Upto(p + n) = Upto(p) + Past(n)
    <2>. HIDE DEF Past, Upto
    <2>. QED  BY <1>5
<1>. QED  BY <1>1, <1>6

\* What a record adds to a total: the trader, the kind of trade, the field of its
\* data, and the outcomes of the markets that the total is about.
Query(a, t, f, here) == [agent |-> a, type |-> t, field |-> f, here |-> here]

Queries == {Query(a, t, f, here) : a \in Agents, t \in {"buy_shares", "sell_shares"},
                                   f \in {"cost", "shares"}, here \in SUBSET (Markets \X Outcomes)}

Counts(r, q) ==
    /\ r.agent = q.agent /\ r.type = q.type /\ r.success
    /\ <<r.args.market, r.args.outcome>> \in q.here

Amount(r, q) == IF Counts(r, q) THEN r.data[q.field] ELSE 0

Accepted(r) == r.success /\ r.type \in {"buy_shares", "sell_shares"}

TradeOK(r) ==
    Accepted(r) => /\ r.args.market \in Markets /\ r.args.outcome \in Outcomes
                   /\ r.data["cost"] \in Int /\ r.data["shares"] \in Int

Recorded(l) == IsList(l) /\ \A i \in DOMAIN l : TradeOK(l[i])

Total(l, q) == Sum([i \in DOMAIN l |-> Amount(l[i], q)])

Stressed(l) == \E i \in DOMAIN l : Accepted(l[i])

LEMMA QueryFacts ==
    ASSUME NEW q \in Queries
    PROVE  q.type \in {"buy_shares", "sell_shares"} /\ q.field \in {"cost", "shares"} /\ q.agent \in Agents
PROOF
    BY DEF Queries, Query

LEMMA AmountInt ==
    ASSUME NEW r, TradeOK(r), NEW q \in Queries
    PROVE  Amount(r, q) \in Int
PROOF
    BY QueryFacts DEF Amount, Counts, TradeOK, Accepted

LEMMA ListDomain ==
    ASSUME NEW l, IsList(l)
    PROVE  Len(l) \in Nat /\ DOMAIN l = 1 .. Len(l)
PROOF
    BY DEF IsList

LEMMA TotalFacts ==
    ASSUME NEW l, Recorded(l), NEW q \in Queries
    PROVE  /\ Total(l, q) \in Int
           /\ (\A i \in DOMAIN l : l[i].agent # q.agent) => Total(l, q) = 0
PROOF
<1>. DEFINE v == [i \in DOMAIN l |-> Amount(l[i], q)]
<1>1. Numbers(v)
    <2>1. \A i \in DOMAIN l : Amount(l[i], q) \in Int
        BY AmountInt DEF Recorded
    <2>2. IsFiniteSet(DOMAIN l)
        BY ListDomain, FS_Interval DEF Recorded
    <2>. QED  BY <2>1, <2>2 DEF Numbers
<1>2. Total(l, q) = Sum(v)
    BY DEF Total
<1>3. (\A i \in DOMAIN l : l[i].agent # q.agent) => \A i \in DOMAIN v : v[i] = 0
    BY DEF Amount, Counts
<1>. HIDE DEF v
<1>4. (\A i \in DOMAIN v : v[i] = 0) => Sum(v) >= 0 /\ Sum(v) <= 0
    BY <1>1, SumFacts
<1>5. Sum(v) \in Int
    BY <1>1, SumFacts
<1>. QED  BY <1>2, <1>3, <1>4, <1>5

LEMMA TotalEmpty ==
    ASSUME NEW q \in Queries
    PROVE  Recorded(<<>>) /\ Total(<<>>, q) = 0 /\ ~Stressed(<<>>)
PROOF
<1>1. <<>> \in Seq({}) /\ DOMAIN <<>> = {}
    OBVIOUS
<1>2. Recorded(<<>>) /\ ~Stressed(<<>>)
    BY <1>1 DEF Recorded, IsList, Stressed
<1>. QED  BY <1>1, <1>2, TotalFacts

LEMMA ListJoin ==
    ASSUME NEW l, NEW k, IsList(l), IsList(k)
    PROVE  /\ IsList(l \o k) /\ Len(l \o k) = Len(l) + Len(k)
           /\ \A i \in 1 .. Len(l) : (l \o k)[i] = l[i]
           /\ \A i \in 1 .. Len(k) : (l \o k)[Len(l) + i] = k[i]
PROOF
<1>1. PICK S : l \in Seq(S)
    BY DEF IsList
<1>2. PICK T : k \in Seq(T)
    BY DEF IsList
<1>3. l \in Seq(S \cup T) /\ k \in Seq(S \cup T)
    BY <1>1, <1>2
<1>4. l \o k \in Seq(S \cup T)
    BY <1>3
<1>. QED  BY <1>3, <1>4 DEF IsList

LEMMA RecordedJoin ==
    ASSUME NEW l, NEW k, Recorded(l), Recorded(k)
    PROVE  Recorded(l \o k)
PROOF
<1>1. /\ Len(l) \in Nat /\ Len(k) \in Nat /\ DOMAIN l = 1 .. Len(l) /\ DOMAIN k = 1 .. Len(k)
      /\ IsList(l \o k) /\ DOMAIN (l \o k) = 1 .. Len(l) + Len(k)
      /\ \A i \in 1 .. Len(l) : (l \o k)[i] = l[i]
      /\ \A i \in 1 .. Len(k) : (l \o k)[Len(l) + i] = k[i]
    BY ListDomain, ListJoin DEF Recorded
<1>2. ASSUME NEW i \in 1 .. Len(l) + Len(k) PROVE TradeOK((l \o k)[i])
    <2>1. CASE i \in 1 .. Len(l)
        BY <1>1, <2>1 DEF Recorded
    <2>2. CASE i \notin 1 .. Len(l)
        <3>1. PICK j \in 1 .. Len(k) : i = Len(l) + j
            <4>1. i - Len(l) \in 1 .. Len(k) /\ i = Len(l) + (i - Len(l))
                BY <1>1, <2>2
            <4>. QED  BY <4>1
        <3>. QED  BY <1>1, <3>1 DEF Recorded
    <2>. QED  BY <2>1, <2>2
<1>. QED  BY <1>1, <1>2 DEF Recorded

LEMMA TotalJoined ==
    ASSUME NEW l, NEW k, Recorded(l), Recorded(k), NEW q \in Queries
    PROVE  Recorded(l \o k) /\ Total(l \o k, q) = Total(l, q) + Total(k, q)
PROOF
<1>. DEFINE p == Len(l)
            n == Len(k)
            c == [i \in 1 .. p + n |-> Amount((l \o k)[i], q)]
<1>1. /\ p \in Nat /\ n \in Nat /\ DOMAIN l = 1 .. p /\ DOMAIN k = 1 .. n
      /\ DOMAIN (l \o k) = 1 .. p + n
    BY ListDomain, ListJoin DEF Recorded
<1>2. /\ \A i \in 1 .. p : (l \o k)[i] = l[i]
      /\ \A i \in 1 .. n : (l \o k)[p + i] = k[i]
    BY ListJoin DEF Recorded
<1>. HIDE DEF p, n
<1>3. Recorded(l \o k)
    BY RecordedJoin
<1>4. \A i \in 1 .. p + n : TradeOK((l \o k)[i])
    BY <1>1, <1>3 DEF Recorded
<1>5. \A i \in 1 .. p + n : c[i] \in Int
    BY <1>4, AmountInt
<1>6. /\ \A i \in 1 .. p : i \in 1 .. p + n
      /\ \A i \in 1 .. n : p + i \in 1 .. p + n
    BY <1>1
<1>7. [i \in 1 .. p |-> c[i]] = [i \in DOMAIN l |-> Amount(l[i], q)]
    BY <1>1, <1>2, <1>6
<1>8. [i \in 1 .. n |-> c[p + i]] = [i \in DOMAIN k |-> Amount(k[i], q)]
    BY <1>1, <1>2, <1>6
<1>9. [i \in 1 .. p + n |-> c[i]] = [i \in DOMAIN (l \o k) |-> Amount((l \o k)[i], q)]
    BY <1>1
<1>. HIDE DEF c
<1>10. Sum([i \in 1 .. p + n |-> c[i]]) = Sum([i \in 1 .. p |-> c[i]]) + Sum([i \in 1 .. n |-> c[p + i]])
    BY <1>1, <1>5, SumJoined
<1>. QED  BY <1>3, <1>7, <1>8, <1>9, <1>10 DEF Total

LEMMA TotalAppended ==
    ASSUME NEW l, Recorded(l), NEW r, TradeOK(r), NEW q \in Queries
    PROVE  Recorded(Append(l, r)) /\ Total(Append(l, r), q) = Total(l, q) + Amount(r, q)
PROOF
<1>. DEFINE n == Len(l)
            c == [i \in 1 .. n + 1 |-> Amount(Append(l, r)[i], q)]
<1>1. /\ IsList(Append(l, r)) /\ n \in Nat
      /\ DOMAIN l = 1 .. n /\ DOMAIN Append(l, r) = 1 .. n + 1
      /\ \A i \in 1 .. n : Append(l, r)[i] = l[i]
      /\ Append(l, r)[n + 1] = r
    BY ListAppend DEF Recorded
<1>. HIDE DEF n
<1>2. \A i \in 1 .. n + 1 : (i \in 1 .. n \/ i = n + 1) /\ n + 1 \in 1 .. n + 1
    BY <1>1
<1>3. \A i \in 1 .. n + 1 : TradeOK(Append(l, r)[i])
    BY <1>1, <1>2 DEF Recorded
<1>4. Recorded(Append(l, r))
    BY <1>1, <1>3 DEF Recorded
<1>5. c \in [1 .. n + 1 -> Int]
    BY <1>3, AmountInt
<1>6. \A i \in 1 .. n : i \in 1 .. n + 1
    BY <1>1
<1>7. [i \in 1 .. n |-> c[i]] = [i \in DOMAIN l |-> Amount(l[i], q)]
    BY <1>1, <1>6
<1>8. c = [i \in DOMAIN Append(l, r) |-> Amount(Append(l, r)[i], q)] /\ c[n + 1] = Amount(r, q)
    BY <1>1
<1>. HIDE DEF c
<1>9. Sum(c) = Sum([i \in 1 .. n |-> c[i]]) + c[n + 1]
    BY <1>1, <1>5, SumLast
<1>. QED  BY <1>4, <1>7, <1>8, <1>9 DEF Total

LEMMA StressJoined ==
    ASSUME NEW l, NEW k, IsList(l), IsList(k)
    PROVE  (Stressed(l) \/ Stressed(k)) => Stressed(l \o k)
PROOF
<1>1. /\ Len(l) \in Nat /\ Len(k) \in Nat /\ DOMAIN l = 1 .. Len(l) /\ DOMAIN k = 1 .. Len(k)
      /\ DOMAIN (l \o k) = 1 .. Len(l) + Len(k)
    BY ListDomain, ListJoin
<1>2. /\ \A i \in 1 .. Len(l) : (l \o k)[i] = l[i] /\ i \in 1 .. Len(l) + Len(k)
      /\ \A i \in 1 .. Len(k) : (l \o k)[Len(l) + i] = k[i] /\ Len(l) + i \in 1 .. Len(l) + Len(k)
    BY <1>1, ListJoin
<1>. QED  BY <1>1, <1>2 DEF Stressed

Port(m, a) == IF a \in DOMAIN m.portfolios THEN m.portfolios[a] ELSE NewPortfolio

CashQuery(a, t) == Query(a, t, "cost", Markets \X Outcomes)
ShareQuery(a, t, m, o) == Query(a, t, "shares", {<<m, o>>})

Both(l, k, q) == Total(l, q) + Total(k, q)

\* The accepted trades of two lists explain a portfolio.
Explained(p, a, l, k) ==
    /\ p.balance = InitialBalance - Both(l, k, CashQuery(a, "buy_shares"))
                                  + Both(l, k, CashQuery(a, "sell_shares"))
    /\ \A m \in Markets, o \in Outcomes :
          p.shares[m][o] = Both(l, k, ShareQuery(a, "buy_shares", m, o))
                             - Both(l, k, ShareQuery(a, "sell_shares", m, o))

LedgerInv ==
    /\ Recorded(log)
    /\ \A a \in Agents : /\ Recorded(records[a])
                         /\ \A i \in DOMAIN records[a] : records[a][i].agent = a
                         /\ Explained(Port(market, a), a, log, records[a])
    /\ \/ market.markets = NewMarket.markets \/ Stressed(log)
       \/ \E a \in Agents : Stressed(records[a])

LEMMA QueriesAre ==
    ASSUME NEW a \in Agents, NEW t \in {"buy_shares", "sell_shares"}
    PROVE  /\ CashQuery(a, t) \in Queries
           /\ \A m \in Markets, o \in Outcomes : ShareQuery(a, t, m, o) \in Queries
PROOF
<1>1. CashQuery(a, t) \in Queries
    <2>1. Markets \X Outcomes \in SUBSET (Markets \X Outcomes)
        OBVIOUS
    <2>. QED  BY <2>1 DEF CashQuery, Queries
<1>2. ASSUME NEW m \in Markets, NEW o \in Outcomes
      PROVE  ShareQuery(a, t, m, o) \in Queries
    <2>1. {<<m, o>>} \in SUBSET (Markets \X Outcomes)
        OBVIOUS
    <2>. QED  BY <2>1 DEF ShareQuery, Queries
<1>. QED  BY <1>1, <1>2

LEMMA Amounts ==
    ASSUME NEW r, NEW a, NEW t \in {"buy_shares", "sell_shares"}
    PROVE  /\ Amount(r, CashQuery(a, t))
                = IF /\ r.agent = a /\ r.type = t /\ r.success
                     /\ r.args.market \in Markets /\ r.args.outcome \in Outcomes
                  THEN r.data["cost"] ELSE 0
           /\ \A m \in Markets, o \in Outcomes :
                Amount(r, ShareQuery(a, t, m, o))
                  = IF /\ r.agent = a /\ r.type = t /\ r.success
                       /\ r.args.market = m /\ r.args.outcome = o
                    THEN r.data["shares"] ELSE 0
PROOF
    BY DEF Amount, Counts, CashQuery, ShareQuery, Query

LEMMA SettledFields ==
    ASSUME NEW p \in Portfolio, NEW m \in Markets, NEW o \in Outcomes, NEW cash \in Int,
           NEW shares \in Int, NEW q, q = Settled(p, m, o, cash, shares)
    PROVE  /\ q.balance = p.balance + cash
           /\ \A n \in Markets, e \in Outcomes :
                q.shares[n][e] = IF n = m /\ e = o THEN p.shares[n][e] + shares
                                 ELSE p.shares[n][e]
PROOF
<1>1. p.shares \in [Markets -> [Outcomes -> Nat]]
    BY DEF Portfolio
<1>. QED  BY <1>1 DEF Settled

\* One more record in the list: the portfolio changes by what it says.
LEMMA OneMore ==
    ASSUME NEW a \in Agents, NEW p \in Portfolio, NEW l, NEW k, Recorded(l), Recorded(k),
           Explained(p, a, l, k), NEW r, TradeOK(r), r.agent = a, NEW q,
           ~Accepted(r) => q = p,
           Accepted(r) => q = Settled(p, r.args.market, r.args.outcome,
                                      IF r.type = "buy_shares" THEN -r.data["cost"] ELSE r.data["cost"],
                                      IF r.type = "buy_shares" THEN r.data["shares"] ELSE -r.data["shares"])
    PROVE  Explained(q, a, l, Append(k, r))
PROOF
<1>. DEFINE j == Append(k, r)
<1>1. ASSUME NEW x \in Queries
      PROVE  /\ Both(l, j, x) = Both(l, k, x) + Amount(r, x)
             /\ Both(l, k, x) \in Int /\ Amount(r, x) \in Int
    BY TotalAppended, TotalFacts, AmountInt DEF Both
<1>2. p.balance \in Int /\ \A m \in Markets, o \in Outcomes : p.shares[m][o] \in Int
    BY DEF Portfolio
<1>. HIDE DEF j
<1>. DEFINE cb == CashQuery(a, "buy_shares")
            cs == CashQuery(a, "sell_shares")
<1>3. cb \in Queries /\ cs \in Queries
    BY QueriesAre
<1>4. /\ p.balance = InitialBalance - Both(l, k, cb) + Both(l, k, cs)
      /\ InitialBalance \in Int
    BY MarketAssumption DEF Explained
<1>5. CASE ~Accepted(r)
    <2>1. q = p
        BY <1>5
    <2>2. Amount(r, cb) = 0 /\ Amount(r, cs) = 0
        BY <1>5, Amounts DEF Accepted
    <2>. HIDE DEF cb, cs
    <2>3. q.balance = InitialBalance - Both(l, j, cb) + Both(l, j, cs)
        BY <1>1, <1>3, <1>4, <2>1, <2>2
    <2>4. ASSUME NEW m \in Markets, NEW o \in Outcomes
          PROVE  q.shares[m][o] = Both(l, j, ShareQuery(a, "buy_shares", m, o))
                                    - Both(l, j, ShareQuery(a, "sell_shares", m, o))
        <3>1. /\ Amount(r, ShareQuery(a, "buy_shares", m, o)) = 0
              /\ Amount(r, ShareQuery(a, "sell_shares", m, o)) = 0
            BY <1>5, Amounts DEF Accepted
        <3>2. /\ ShareQuery(a, "buy_shares", m, o) \in Queries
              /\ ShareQuery(a, "sell_shares", m, o) \in Queries
            BY QueriesAre
        <3>3. p.shares[m][o] = Both(l, k, ShareQuery(a, "buy_shares", m, o))
                                 - Both(l, k, ShareQuery(a, "sell_shares", m, o))
            BY DEF Explained
        <3>. QED  BY <1>1, <2>1, <3>1, <3>2, <3>3
    <2>. QED  BY <2>3, <2>4 DEF Explained, j, cb, cs
<1>6. CASE Accepted(r)
    <2>. DEFINE cost == r.data["cost"]
                n == r.data["shares"]
                cash == IF r.type = "buy_shares" THEN -cost ELSE cost
                shares == IF r.type = "buy_shares" THEN n ELSE -n
    <2>1. /\ r.args.market \in Markets /\ r.args.outcome \in Outcomes
          /\ cost \in Int /\ n \in Int /\ cash \in Int /\ shares \in Int
          /\ r.type \in {"buy_shares", "sell_shares"} /\ r.success
        BY <1>6 DEF TradeOK, Accepted
    <2>2. q = Settled(p, r.args.market, r.args.outcome, cash, shares)
        BY <1>6
    <2>3. Amount(r, cs) - Amount(r, cb) = cash
        BY <2>1, Amounts
    <2>4. ASSUME NEW m \in Markets, NEW o \in Outcomes
          PROVE  Amount(r, ShareQuery(a, "buy_shares", m, o))
                   - Amount(r, ShareQuery(a, "sell_shares", m, o))
                   = IF m = r.args.market /\ o = r.args.outcome THEN shares ELSE 0
        BY <2>1, Amounts
    <2>. HIDE DEF cash, shares, cb, cs
    <2>5. /\ q.balance = p.balance + cash
          /\ \A m \in Markets, o \in Outcomes :
               q.shares[m][o] = IF m = r.args.market /\ o = r.args.outcome
                                THEN p.shares[m][o] + shares ELSE p.shares[m][o]
        BY <2>1, <2>2, SettledFields
    <2>6. q.balance = InitialBalance - Both(l, j, cb) + Both(l, j, cs)
        <3>1. /\ Both(l, j, cb) = Both(l, k, cb) + Amount(r, cb)
              /\ Both(l, j, cs) = Both(l, k, cs) + Amount(r, cs)
              /\ Both(l, k, cb) \in Int /\ Amount(r, cb) \in Int
              /\ Both(l, k, cs) \in Int /\ Amount(r, cs) \in Int
            BY <1>1, <1>3
        <3>. QED  BY <1>4, <2>1, <2>3, <2>5, <3>1
    <2>7. ASSUME NEW m \in Markets, NEW o \in Outcomes
          PROVE  q.shares[m][o] = Both(l, j, ShareQuery(a, "buy_shares", m, o))
                                    - Both(l, j, ShareQuery(a, "sell_shares", m, o))
        <3>. DEFINE b == ShareQuery(a, "buy_shares", m, o)
                    s == ShareQuery(a, "sell_shares", m, o)
        <3>1. b \in Queries /\ s \in Queries
            BY QueriesAre
        <3>2. p.shares[m][o] = Both(l, k, b) - Both(l, k, s)
            BY DEF Explained
        <3>3. Amount(r, b) - Amount(r, s)
                 = IF m = r.args.market /\ o = r.args.outcome THEN shares ELSE 0
            BY <2>4
        <3>. HIDE DEF b, s
        <3>4. /\ Both(l, j, b) = Both(l, k, b) + Amount(r, b)
              /\ Both(l, j, s) = Both(l, k, s) + Amount(r, s)
              /\ Both(l, k, b) \in Int /\ Amount(r, b) \in Int
              /\ Both(l, k, s) \in Int /\ Amount(r, s) \in Int
            BY <1>1, <3>1
        <3>5. q.shares[m][o] = p.shares[m][o]
                 + (IF m = r.args.market /\ o = r.args.outcome THEN shares ELSE 0)
            BY <1>2, <2>1, <2>5
        <3>6. q.shares[m][o] = Both(l, j, b) - Both(l, j, s)
            BY <2>1, <3>2, <3>3, <3>4, <3>5
        <3>. QED  BY <3>6 DEF b, s
    <2>. QED  BY <2>6, <2>7 DEF Explained, j, cb, cs
<1>. QED  BY <1>5, <1>6

\* What a turn has come to, x, after it began at st.
Ledgered(st, a, x) ==
    /\ Recorded(x.records)
    /\ \A i \in DOMAIN x.records : x.records[i].agent = a
    /\ Explained(Port(x.market, a), a, log, x.records)
    /\ \A b \in Agents \ {a} : Port(x.market, b) = Port(st.market, b)
    /\ x.market.markets = st.market.markets \/ Stressed(x.records)

LEMMA OthersTradeNot ==
    ASSUME NEW s, NEW a, NEW c, Trade(c)
    PROVE  ~SocialExecute(s, a, c).success /\ ~EconomicExecute(s, a, c).success
PROOF
    BY DEF Trade, SocialExecute, EconomicExecute, Refused

LEMMA RecordAppended ==
    ASSUME NEW l, Recorded(l), NEW r, TradeOK(r), NEW a, r.agent = a,
           \A i \in DOMAIN l : l[i].agent = a
    PROVE  /\ Recorded(Append(l, r))
           /\ \A i \in DOMAIN Append(l, r) : Append(l, r)[i].agent = a
           /\ Stressed(l) \/ Accepted(r) => Stressed(Append(l, r))
PROOF
<1>1. /\ IsList(Append(l, r)) /\ Len(l) \in Nat
      /\ DOMAIN l = 1 .. Len(l) /\ DOMAIN Append(l, r) = 1 .. Len(l) + 1
      /\ \A i \in DOMAIN l : Append(l, r)[i] = l[i]
      /\ Append(l, r)[Len(l) + 1] = r
    BY ListAppend DEF Recorded
<1>2. \A i \in DOMAIN Append(l, r) : i \in DOMAIN l \/ i = Len(l) + 1
    BY <1>1
<1>3. DOMAIN l \subseteq DOMAIN Append(l, r) /\ Len(l) + 1 \in DOMAIN Append(l, r)
    BY <1>1
<1>4. \A i \in DOMAIN Append(l, r) : TradeOK(Append(l, r)[i]) /\ Append(l, r)[i].agent = a
    BY <1>1, <1>2 DEF Recorded
<1>. QED  BY <1>1, <1>3, <1>4 DEF Recorded, Stressed

\* One call of a turn.
LEMMA LedgerCall ==
    ASSUME EnvsOK, Recorded(log), NEW st, NEW x, TurnOK(x), NEW a \in Agents, Ledgered(st, a, x),
           NEW c, CallOK(c), NEW next, next = Execute(x, a, c)
    PROVE  Ledgered(st, a, next)
PROOF
<1>. DEFINE env == FindEnvForAction(c.name)
            out == CASE env = "social"   -> SocialExecute(x.social, a, c)
                     [] env = "market"   -> MarketExecute(x.market, a, c)
                     [] env = "economic" -> EconomicExecute(x.economy, a, c)
            then == CASE env = "social"   -> [x EXCEPT !.social = out.env]
                      [] env = "market"   -> [x EXCEPT !.market = out.env]
                      [] env = "economic" -> [x EXCEPT !.economy = out.env]
            r == Record(a, c.name, env, c, out.success, out.data)
            recs == Append(x.records, r)
<1>0. /\ Shape(x) /\ WorldOK(x.social, x.market, x.economy)
      /\ Enrolments(Environments, x.market, x.economy)
    BY DEF TurnOK
<1>1. next = [then EXCEPT !.records = Append(@, r)]
    BY DEF Execute
<1>2. env \in Environments /\ env \in Named
    BY FoundEnv
<1>3. /\ r.agent = a /\ r.success = out.success /\ r.type = c.name /\ r.args = c
      /\ r.data = out.data
    BY DEF Record
<1>. HIDE DEF env, r
<1>4. Accepted(r) <=> out.success /\ Trade(c)
    BY <1>3 DEF Accepted, Trade
<1>5. ASSUME NEW m, NEW s, NEW e,
             then = [social |-> s, market |-> m, economy |-> e, records |-> x.records],
             TradeOK(r), Port(m, a) \in Portfolio, Port(x.market, a) \in Portfolio,
             \A b \in Agents \ {a} : Port(m, b) = Port(x.market, b),
             ~Accepted(r) => m.markets = x.market.markets /\ Port(m, a) = Port(x.market, a),
             Accepted(r) =>
                Port(m, a) = Settled(Port(x.market, a), r.args.market, r.args.outcome,
                                IF r.type = "buy_shares" THEN -r.data["cost"] ELSE r.data["cost"],
                                IF r.type = "buy_shares" THEN r.data["shares"] ELSE -r.data["shares"])
      PROVE  Ledgered(st, a, next)
    <2>. HIDE DEF then, out
    <2>1. next.market = m /\ next.records = recs
        BY <1>1, <1>5
    <2>2. /\ Recorded(recs) /\ \A i \in DOMAIN recs : recs[i].agent = a
          /\ Stressed(x.records) \/ Accepted(r) => Stressed(recs)
        BY <1>3, <1>5, RecordAppended DEF Ledgered
    <2>3. Explained(Port(m, a), a, log, recs)
        BY <1>3, <1>5, OneMore DEF Ledgered
    <2>4. m.markets = st.market.markets \/ Stressed(recs)
        BY <1>5, <2>2 DEF Ledgered
    <2>5. \A b \in Agents \ {a} : Port(m, b) = Port(st.market, b)
        BY <1>5 DEF Ledgered
    <2>. QED  BY <2>1, <2>2, <2>3, <2>4, <2>5 DEF Ledgered
<1>6. Port(x.market, a) \in Portfolio
    BY <1>0, HeldByNew DEF Port, WorldOK, MarketOK, MarketState
<1>7. ASSUME NEW s, NEW e, ~Accepted(r),
             then = [social |-> s, market |-> x.market, economy |-> e, records |-> x.records]
      PROVE  Ledgered(st, a, next)
    <2>1. TradeOK(r)
        BY <1>7 DEF TradeOK
    <2>. HIDE DEF then
    <2>. QED  BY <1>5, <1>6, <1>7, <2>1
<1>8. CASE env = "social"
    <2>1. out = SocialExecute(x.social, a, c) /\ then = [x EXCEPT !.social = out.env]
        BY <1>8
    <2>. HIDE DEF out, then
    <2>2. ~Accepted(r)
        BY <1>4, <2>1, OthersTradeNot
    <2>3. then = [social |-> out.env, market |-> x.market, economy |-> x.economy,
                  records |-> x.records]
        BY <1>0, <2>1 DEF Shape
    <2>. QED  BY <1>7, <2>2, <2>3
<1>9. CASE env = "economic"
    <2>1. out = EconomicExecute(x.economy, a, c) /\ then = [x EXCEPT !.economy = out.env]
        BY <1>9
    <2>. HIDE DEF out, then
    <2>2. ~Accepted(r)
        BY <1>4, <2>1, OthersTradeNot
    <2>3. then = [social |-> x.social, market |-> x.market, economy |-> out.env,
                  records |-> x.records]
        BY <1>0, <2>1 DEF Shape
    <2>. QED  BY <1>7, <2>2, <2>3
<1>10. CASE env = "market"
    <2>1. out = MarketExecute(x.market, a, c) /\ then = [x EXCEPT !.market = out.env]
        BY <1>10
    <2>. HIDE DEF out, then
    <2>. DEFINE s == x.market
                m == out.env
    <2>2. DOMAIN s.portfolios = Agents /\ s \in MarketState
        BY <1>0, <1>2, <1>10 DEF Enrolments, WorldOK, MarketOK
    <2>3. then = [social |-> x.social, market |-> m, economy |-> x.economy,
                  records |-> x.records]
        BY <1>0, <2>1 DEF Shape
    <2>4. out = MarketExecute(s, a, c)
        BY <2>1
    <2>5. s = x.market
        OBVIOUS
    <2>. HIDE DEF s
    <2>6. m \in MarketState /\ DOMAIN m.portfolios = Agents /\ Flow(s, a, c, out)
        BY <2>2, <2>4, MarketHandler
    <2>7. /\ \A b \in Agents : Port(s, b) = s.portfolios[b]
          /\ \A b \in Agents : Port(m, b) = m.portfolios[b]
        BY <2>2, <2>6 DEF Port
    <2>8. m.portfolios[a] \in Portfolio
        BY <2>6 DEF MarketState
    <2>9. TradeOK(r)
        BY <1>3, <1>4, <2>6 DEF TradeOK, Flow
    <2>10. /\ \A b \in Agents \ {a} : m.portfolios[b] = s.portfolios[b]
           /\ ~Accepted(r) => m.markets = s.markets /\ m.portfolios = s.portfolios
        BY <1>4, <2>6 DEF Flow
    <2>11. Accepted(r) =>
              m.portfolios[a] = Settled(s.portfolios[a], r.args.market, r.args.outcome,
                                IF r.type = "buy_shares" THEN -r.data["cost"] ELSE r.data["cost"],
                                IF r.type = "buy_shares" THEN r.data["shares"] ELSE -r.data["shares"])
        <3>. SUFFICES ASSUME Accepted(r)
                      PROVE m.portfolios[a] = Settled(s.portfolios[a], r.args.market, r.args.outcome,
                                IF r.type = "buy_shares" THEN -r.data["cost"] ELSE r.data["cost"],
                                IF r.type = "buy_shares" THEN r.data["shares"] ELSE -r.data["shares"])
            OBVIOUS
        <3>1. m.portfolios[a] = Settled(s.portfolios[a], c.market, c.outcome,
                                        CashOf(c, out.data), SharesOf(c, out.data))
            BY <1>4, <2>6 DEF Flow
        <3>2. /\ CashOf(c, out.data) = IF r.type = "buy_shares" THEN -r.data["cost"] ELSE r.data["cost"]
              /\ SharesOf(c, out.data)
                   = IF r.type = "buy_shares" THEN r.data["shares"] ELSE -r.data["shares"]
            BY <1>3 DEF CashOf, SharesOf
        <3>. QED  BY <1>3, <3>1, <3>2
    <2>. HIDE DEF m
    <2>12. /\ \A b \in Agents \ {a} : Port(m, b) = Port(x.market, b)
           /\ Port(m, a) \in Portfolio
           /\ ~Accepted(r) => m.markets = x.market.markets /\ Port(m, a) = Port(x.market, a)
        BY <2>5, <2>7, <2>8, <2>10
    <2>13. Accepted(r) =>
              Port(m, a) = Settled(Port(x.market, a), r.args.market, r.args.outcome,
                                IF r.type = "buy_shares" THEN -r.data["cost"] ELSE r.data["cost"],
                                IF r.type = "buy_shares" THEN r.data["shares"] ELSE -r.data["shares"])
        BY <2>5, <2>7, <2>11
    <2>. QED  BY <1>5, <1>6, <2>3, <2>9, <2>12, <2>13
<1>. QED  BY <1>2, <1>8, <1>9, <1>10 DEF Named

\* An answer's calls, one after the other.
LEMMA LedgerAnswer ==
    ASSUME EnvsOK, Recorded(log), NEW st, TurnOK(st), NEW a \in Agents, Ledgered(st, a, st),
           NEW answer \in Answers(a), NEW after, Unfolded(after, st, a, answer, Len(answer)),
           NEW end, end = after[Len(answer)]
    PROVE  Ledgered(st, a, end)
PROOF
<1>. DEFINE k == Len(answer)
            Good(x) == TurnOK(x) /\ Ledgered(st, a, x)
            Bad == {n \in 0 .. k : ~Good(after[n])}
<1>0. k \in Nat /\ answer \in [1 .. k -> Calls(a)]
    BY AnswerFacts
<1>1. \A n \in 0 .. k : after[n] = IF n = 0 THEN st ELSE Execute(after[n - 1], a, answer[n])
    BY DEF Unfolded
<1>. HIDE DEF k
<1>2. ASSUME NEW n \in Bad PROVE \E m \in Bad : m < n
    <2>1. n \in 0 .. k /\ ~Good(after[n])
        OBVIOUS
    <2>2. n # 0
        BY <1>0, <1>1, <2>1
    <2>3. n - 1 \in 0 .. k /\ n - 1 < n /\ n \in 1 .. k
        BY <1>0, <2>1, <2>2
    <2>4. after[n] = Execute(after[n - 1], a, answer[n])
        BY <1>1, <2>1, <2>2
    <2>5. CallOK(answer[n])
        BY <1>0, <2>3, CallFacts
    <2>6. ASSUME Good(after[n - 1]) PROVE FALSE
        <3>1. TurnOK(after[n])
            BY <2>4, <2>5, <2>6, Executed
        <3>2. Ledgered(st, a, after[n])
            BY <2>4, <2>5, <2>6, LedgerCall
        <3>. QED  BY <2>1, <3>1, <3>2
    <2>. QED  BY <2>3, <2>6
<1>3. Bad = {}
    <2>1. Bad \in SUBSET Nat
        BY <1>0
    <2>. HIDE DEF Bad
    <2>. QED  BY <1>2, <2>1, Descent
<1>4. Good(end)
    BY <1>0, <1>3 DEF k
<1>. QED  BY <1>4

LEMMA LedgerTurn ==
    ASSUME ControlInv, WorldInv, LedgerInv, NEW a \in Agents, NEW answer \in Answers(a),
           StepAgent(a, answer)
    PROVE  LedgerInv'
PROOF
<1>. DEFINE start == [social |-> social, market |-> market, economy |-> economy, records |-> <<>>]
            after == CHOOSE f : Unfolded(f, start, a, answer, Len(answer))
            end == after[Len(answer)]
            r == Record(a, "do_nothing", envs[1], <<>>, TRUE, NoData)
            idle == <<r>>
            recs == IF answer # <<>> THEN end.records ELSE idle
<1>1. /\ InFlight(a)
      /\ social' = end.social /\ market' = end.market /\ economy' = end.economy
      /\ records' = [records EXCEPT ![a] = recs] /\ log' = log
    BY DEF StepAgent, Unfolded
<1>2. /\ phase = "act" /\ a \notin acted /\ EnvsOK /\ Recorded(log)
    BY <1>1, EnvsNamed DEF InFlight, LedgerInv
<1>3. records[a] = <<>>
    BY <1>2 DEF WorldInv
<1>4. TurnOK(start) /\ Ledgered(start, a, start)
    <2>1. /\ start.social = social /\ start.market = market /\ start.economy = economy
          /\ start.records = <<>> /\ Shape(start)
        BY DEF Shape
    <2>2. <<>> \in Seq({}) /\ DOMAIN <<>> = {}
        OBVIOUS
    <2>. HIDE DEF start
    <2>3. TurnOK(start)
        BY <1>2, <2>1, <2>2 DEF TurnOK, WorldInv, IsList
    <2>4. Recorded(<<>>) /\ Explained(Port(market, a), a, log, <<>>)
        BY <1>3 DEF LedgerInv
    <2>. QED  BY <2>1, <2>2, <2>3, <2>4 DEF Ledgered
<1>5. start.market = market
    OBVIOUS
<1>. HIDE DEF start
<1>6. Unfolded(after, start, a, answer, Len(answer))
    <2>1. \E f : Unfolded(f, start, a, answer, Len(answer))
        BY AnswerFacts, TurnUnfolds
    <2>. QED  BY <2>1
<1>. HIDE DEF after
<1>7. Ledgered(start, a, end)
    BY <1>2, <1>4, <1>6, LedgerAnswer
<1>8. answer = <<>> => end = start
    <2>1. Len(answer) = 0 => after[Len(answer)] = start
        BY <1>6 DEF Unfolded
    <2>2. answer = <<>> => Len(answer) = 0
        BY AnswerFacts
    <2>. QED  BY <2>1, <2>2
<1>. HIDE DEF end
<1>9. /\ Recorded(recs) /\ \A i \in DOMAIN recs : recs[i].agent = a
      /\ Explained(Port(market', a), a, log, recs)
      /\ market'.markets = market.markets \/ Stressed(recs)
    <2>1. CASE answer # <<>>
        BY <1>1, <1>5, <1>7, <2>1 DEF Ledgered
    <2>2. CASE answer = <<>>
        <3>1. r.agent = a /\ ~Accepted(r)
            BY DEF Record, Accepted
        <3>2. TradeOK(r)
            BY <3>1 DEF TradeOK
        <3>. HIDE DEF r
        <3>3. market' = market
            BY <1>1, <1>5, <1>8, <2>2
        <3>4. Recorded(<<>>) /\ Explained(Port(market, a), a, log, <<>>)
            BY <1>3 DEF LedgerInv
        <3>5. Port(market, a) \in Portfolio
            BY HeldByNew DEF Port, WorldInv, WorldOK, MarketOK, MarketState
        <3>6. Append(<<>>, r) = idle /\ \A i \in DOMAIN <<>> : <<>>[i].agent = a
            OBVIOUS
        <3>7. Explained(Port(market, a), a, log, Append(<<>>, r))
            BY <1>2, <3>1, <3>2, <3>4, <3>5, OneMore
        <3>8. Recorded(Append(<<>>, r)) /\ \A i \in DOMAIN Append(<<>>, r) : Append(<<>>, r)[i].agent = a
            BY <3>1, <3>2, <3>4, <3>6, RecordAppended
        <3>. QED  BY <2>2, <3>3, <3>6, <3>7, <3>8
    <2>. QED  BY <2>1, <2>2
<1>10. \A b \in Agents \ {a} : Port(market', b) = Port(market, b)
    BY <1>1, <1>5, <1>7 DEF Ledgered
<1>. HIDE DEF recs
<1>11. records'[a] = recs /\ \A b \in Agents : b # a => records'[b] = records[b]
    BY <1>1 DEF WorldInv
<1>12. ASSUME NEW b \in Agents
       PROVE  /\ Recorded(records'[b]) /\ \A i \in DOMAIN records'[b] : records'[b][i].agent = b
              /\ Explained(Port(market', b), b, log', records'[b])
    <2>1. CASE b = a
        BY <1>1, <1>9, <1>11, <2>1
    <2>2. CASE b # a
        BY <1>1, <1>10, <1>11, <2>2 DEF LedgerInv
    <2>. QED  BY <2>1, <2>2
<1>13. \/ market'.markets = NewMarket.markets \/ Stressed(log')
       \/ \E b \in Agents : Stressed(records'[b])
    <2>1. CASE market'.markets = market.markets
        <3>1. \A b \in Agents : Stressed(records[b]) => Stressed(records'[b])
            <4>1. ~Stressed(records[a])
                BY <1>3, TotalEmpty DEF Stressed
            <4>. QED  BY <1>11, <4>1
        <3>. QED  BY <1>1, <2>1, <3>1 DEF LedgerInv
    <2>. QED  BY <1>9, <1>11, <2>1
<1>14. Recorded(log')
    BY <1>1, <1>2
<1>. QED  BY <1>12, <1>13, <1>14 DEF LedgerInv

\* A list of lists, one after the other.
Strung(f, seqs, k) == f = [i \in 1 .. k |-> IF i = 1 THEN seqs[i] ELSE f[i - 1] \o seqs[i]]

LEMMA StringUnfolds ==
    ASSUME NEW seqs, NEW k \in Nat
    PROVE  \E f : Strung(f, seqs, k)
PROOF
<1>. DEFINE Bad == {m \in Nat : ~ \E f : Strung(f, seqs, m)}
<1>1. \E f : Strung(f, seqs, 0)
    <2>. DEFINE f == [i \in 1 .. 0 |-> seqs]
    <2>1. f = [i \in 1 .. 0 |-> IF i = 1 THEN seqs[i] ELSE f[i - 1] \o seqs[i]]
        OBVIOUS
    <2>. HIDE DEF f
    <2>2. Strung(f, seqs, 0)
        BY <2>1 DEF Strung
    <2>. QED  BY <2>2
<1>2. ASSUME NEW m \in Nat, \E f : Strung(f, seqs, m)
      PROVE  \E f : Strung(f, seqs, m + 1)
    <2>1. PICK g : Strung(g, seqs, m)
        BY <1>2
    <2>. DEFINE last == IF m + 1 = 1 THEN seqs[m + 1] ELSE g[m] \o seqs[m + 1]
                f == [i \in 1 .. m + 1 |-> IF i = m + 1 THEN last ELSE g[i]]
    <2>2. /\ DOMAIN g = 1 .. m
          /\ \A i \in 1 .. m : g[i] = IF i = 1 THEN seqs[i] ELSE g[i - 1] \o seqs[i]
        BY <2>1 DEF Strung
    <2>3. /\ DOMAIN f = 1 .. m + 1 /\ f[m + 1] = last /\ \A i \in 1 .. m : f[i] = g[i]
          /\ f = [i \in 1 .. m + 1 |-> f[i]]
        <3>1. m + 1 \in 1 .. m + 1 /\ \A i \in 1 .. m : i \in 1 .. m + 1 /\ i # m + 1
            OBVIOUS
        <3>. HIDE DEF last
        <3>. QED  BY <3>1
    <2>4. last = IF m + 1 = 1 THEN seqs[m + 1] ELSE g[m] \o seqs[m + 1]
        OBVIOUS
    <2>. HIDE DEF f, last
    <2>5. ASSUME NEW i \in 1 .. m + 1
          PROVE  f[i] = IF i = 1 THEN seqs[i] ELSE f[i - 1] \o seqs[i]
        <3>1. CASE i = m + 1
            <4>1. i - 1 = m /\ (i # 1 => m \in 1 .. m)
                BY <3>1
            <4>2. i # 1 => f[i - 1] = g[m]
                BY <2>3, <4>1
            <4>3. f[i] = last /\ (i = 1 <=> m + 1 = 1)
                BY <2>3, <3>1
            <4>. QED  BY <2>4, <3>1, <4>2, <4>3
        <3>2. CASE i # m + 1
            <4>1. i \in 1 .. m /\ (i # 1 => i - 1 \in 1 .. m)
                BY <3>2
            <4>2. f[i] = g[i] /\ (i # 1 => f[i - 1] = g[i - 1])
                BY <2>3, <4>1
            <4>. QED  BY <2>2, <4>1, <4>2
        <3>. QED  BY <3>1, <3>2
    <2>6. f = [i \in 1 .. m + 1 |-> IF i = 1 THEN seqs[i] ELSE f[i - 1] \o seqs[i]]
        BY <2>3, <2>5
    <2>7. Strung(f, seqs, m + 1)
        BY <2>6 DEF Strung
    <2>. QED  BY <2>7
<1>3. ASSUME NEW m \in Bad PROVE \E j \in Bad : j < m
    <2>1. m # 0 /\ m - 1 \in Nat /\ m - 1 < m /\ (m - 1) + 1 = m
        BY <1>1
    <2>2. ~ \E f : Strung(f, seqs, m - 1)
        BY <1>2, <2>1
    <2>. QED  BY <2>1, <2>2
<1>4. Bad = {}
    <2>1. Bad \in SUBSET Nat
        OBVIOUS
    <2>. HIDE DEF Bad
    <2>. QED  BY <2>1, <1>3, Descent
<1>. QED  BY <1>4

LEMMA Flattened ==
    ASSUME NEW seqs
    PROVE  FlattenSeq(seqs)
             = IF Len(seqs) = 0 THEN seqs
               ELSE (CHOOSE f : Strung(f, seqs, Len(seqs)))[Len(seqs)]
PROOF
    BY DEF FlattenSeq, Strung

\* The records of a round add up, agent by agent.
LEMMA RoundTotals ==
    ASSUME LedgerInv
    PROVE  /\ Recorded(RoundRecords)
           /\ \A q \in Queries : Total(RoundRecords, q) = Total(records[q.agent], q)
           /\ (\E a \in Agents : Stressed(records[a])) => Stressed(RoundRecords)
PROOF
<1>. DEFINE seqs == [i \in DOMAIN AgentOrder |-> records[AgentOrder[i]]]
            N == Len(AgentOrder)
            f == CHOOSE g : Strung(g, seqs, Len(seqs))
<1>0. /\ N \in Nat /\ DOMAIN AgentOrder = 1 .. N
      /\ \A i \in 1 .. N : AgentOrder[i] \in Agents
      /\ \A a \in Agents : \E i \in 1 .. N : AgentOrder[i] = a
      /\ \A i, j \in 1 .. N : i # j => AgentOrder[i] # AgentOrder[j]
    BY EngineAssumption DEF ToSet
<1>1. /\ DOMAIN seqs = 1 .. N /\ \A i \in 1 .. N : seqs[i] = records[AgentOrder[i]]
    BY <1>0
<1>2. Len(seqs) = N /\ IsList(seqs)
    <2>. DEFINE S == {records[a] : a \in Agents}
    <2>1. seqs \in [1 .. N -> S]
        BY <1>0
    <2>. HIDE DEF seqs, N, S
    <2>2. seqs \in Seq(S)
        BY <1>0, <2>1
    <2>. QED  BY <1>0, <1>1, <2>2 DEF IsList
<1>3. RoundRecords = IF N = 0 THEN seqs ELSE f[N]
    <2>1. RoundRecords = FlattenSeq(seqs)
        BY DEF RoundRecords
    <2>2. FlattenSeq(seqs) = IF Len(seqs) = 0 THEN seqs ELSE f[Len(seqs)]
        BY Flattened
    <2>. QED  BY <1>2, <2>1, <2>2, Zenon
<1>. HIDE DEF seqs, N
<1>4. Strung(f, seqs, N)
    <2>1. \E g : Strung(g, seqs, Len(seqs))
        BY <1>0, <1>2, StringUnfolds
    <2>. QED  BY <1>2, <2>1
<1>. HIDE DEF f
<1>5. \A i \in 1 .. N : f[i] = IF i = 1 THEN seqs[i] ELSE f[i - 1] \o seqs[i]
    BY <1>4 DEF Strung
<1>6. ASSUME NEW a \in Agents
      PROVE  /\ Recorded(records[a])
             /\ \A q \in Queries : q.agent # a => Total(records[a], q) = 0
    <2>1. Recorded(records[a]) /\ \A i \in DOMAIN records[a] : records[a][i].agent = a
        BY DEF LedgerInv
    <2>. QED  BY <2>1, TotalFacts
<1>. DEFINE Gone(q, k) == \E j \in 1 .. k : AgentOrder[j] = q.agent
            Good(k) == /\ Recorded(f[k])
                       /\ \A q \in Queries :
                            /\ Gone(q, k) => Total(f[k], q) = Total(records[q.agent], q)
                            /\ ~Gone(q, k) => Total(f[k], q) = 0
                       /\ (\E j \in 1 .. k : Stressed(records[AgentOrder[j]])) => Stressed(f[k])
            Bad == {k \in 1 .. N : ~Good(k)}
<1>7. ASSUME 1 <= N PROVE Good(1)
    <2>. DEFINE b == AgentOrder[1]
    <2>1. 1 \in 1 .. N /\ \A j \in 1 .. 1 : j = 1
        BY <1>0, <1>7
    <2>2. b \in Agents /\ f[1] = records[b]
        BY <1>0, <1>1, <1>5, <2>1
    <2>3. \A q \in Queries : Gone(q, 1) <=> q.agent = b
        BY <2>1
    <2>. QED  BY <1>6, <2>1, <2>2, <2>3
<1>8. ASSUME NEW k \in 1 .. N, k # 1, Good(k - 1) PROVE Good(k)
    <2>. DEFINE b == AgentOrder[k]
    <2>1. /\ k - 1 \in 1 .. N /\ \A j \in 1 .. k : j = k \/ j \in 1 .. k - 1
          /\ \A j \in 1 .. k - 1 : j \in 1 .. k /\ j \in 1 .. N /\ j # k
          /\ k \in 1 .. k
        BY <1>0, <1>8
    <2>2. b \in Agents /\ f[k] = f[k - 1] \o records[b]
        BY <1>0, <1>1, <1>5, <1>8
    <2>3. /\ Recorded(f[k - 1]) /\ Recorded(records[b])
        BY <1>6, <1>8, <2>2
    <2>4. Recorded(f[k])
        BY <2>2, <2>3, RecordedJoin
    <2>5. ASSUME NEW q \in Queries
          PROVE  /\ Gone(q, k) => Total(f[k], q) = Total(records[q.agent], q)
                 /\ ~Gone(q, k) => Total(f[k], q) = 0
        <3>1. /\ Total(f[k], q) = Total(f[k - 1], q) + Total(records[b], q)
              /\ Total(f[k - 1], q) \in Int /\ Total(records[b], q) \in Int
            BY <2>2, <2>3, TotalJoined, TotalFacts
        <3>2. CASE q.agent = b
            <4>1. Gone(q, k) /\ ~Gone(q, k - 1)
                BY <1>0, <2>1, <3>2
            <4>2. Total(f[k - 1], q) = 0
                BY <1>8, <4>1
            <4>. QED  BY <3>1, <3>2, <4>1, <4>2
        <3>3. CASE q.agent # b
            <4>1. Gone(q, k) <=> Gone(q, k - 1)
                BY <2>1, <3>3
            <4>2. Total(records[b], q) = 0
                BY <1>6, <2>2, <3>3
            <4>. QED  BY <1>8, <3>1, <4>1, <4>2
        <3>. QED  BY <3>2, <3>3
    <2>6. (\E j \in 1 .. k : Stressed(records[AgentOrder[j]])) => Stressed(f[k])
        <3>1. Stressed(f[k - 1]) \/ Stressed(records[b]) => Stressed(f[k])
            BY <2>2, <2>3, StressJoined DEF Recorded
        <3>. QED  BY <1>8, <2>1, <3>1
    <2>. QED  BY <2>4, <2>5, <2>6
<1>9. ASSUME NEW k \in Bad PROVE \E j \in Bad : j < k
    <2>1. k \in 1 .. N /\ ~Good(k) /\ 1 <= N
        BY <1>0
    <2>. HIDE DEF Good
    <2>2. k # 1
        BY <1>7, <2>1
    <2>3. k - 1 \in 1 .. N /\ k - 1 < k
        BY <1>0, <2>1, <2>2
    <2>. QED  BY <1>8, <2>1, <2>2, <2>3
<1>10. Bad = {}
    <2>1. Bad \in SUBSET Nat
        BY <1>0
    <2>. HIDE DEF Bad
    <2>. QED  BY <1>9, <2>1, Descent
<1>11. CASE N = 0
    <2>1. Agents = {} /\ DOMAIN seqs = {} /\ Queries = {}
        <3>1. Agents = {} /\ DOMAIN seqs = {}
            BY <1>0, <1>1, <1>11
        <3>. QED  BY <3>1, QueryFacts
    <2>2. Recorded(seqs)
        BY <1>2, <2>1 DEF Recorded
    <2>. QED  BY <1>3, <1>11, <2>1, <2>2
<1>12. CASE N # 0
    <2>1. N \in 1 .. N
        BY <1>0, <1>12
    <2>2. Good(N)
        BY <1>10, <2>1
    <2>3. \A q \in Queries : Gone(q, N)
        BY <1>0, QueryFacts
    <2>. QED  BY <1>0, <1>3, <1>12, <2>2, <2>3
<1>. QED  BY <1>11, <1>12

LEMMA ExplainedSame ==
    ASSUME NEW p, NEW a \in Agents, NEW l, NEW k, NEW l2, NEW k2, Explained(p, a, l, k),
           \A q \in Queries : q.agent = a => Both(l2, k2, q) = Both(l, k, q)
    PROVE  Explained(p, a, l2, k2)
PROOF
<1>1. ASSUME NEW t \in {"buy_shares", "sell_shares"}
      PROVE  /\ CashQuery(a, t) \in Queries /\ CashQuery(a, t).agent = a
             /\ \A m \in Markets, o \in Outcomes :
                   ShareQuery(a, t, m, o) \in Queries /\ ShareQuery(a, t, m, o).agent = a
    <2>1. CashQuery(a, t).agent = a
        BY DEF CashQuery, Query
    <2>2. \A m \in Markets, o \in Outcomes : ShareQuery(a, t, m, o).agent = a
        BY DEF ShareQuery, Query
    <2>. QED  BY <2>1, <2>2, QueriesAre
<1>2. /\ Both(l2, k2, CashQuery(a, "buy_shares")) = Both(l, k, CashQuery(a, "buy_shares"))
      /\ Both(l2, k2, CashQuery(a, "sell_shares")) = Both(l, k, CashQuery(a, "sell_shares"))
    BY <1>1
<1>3. ASSUME NEW m \in Markets, NEW o \in Outcomes
      PROVE  /\ Both(l2, k2, ShareQuery(a, "buy_shares", m, o))
                  = Both(l, k, ShareQuery(a, "buy_shares", m, o))
             /\ Both(l2, k2, ShareQuery(a, "sell_shares", m, o))
                  = Both(l, k, ShareQuery(a, "sell_shares", m, o))
    BY <1>1
<1>. QED  BY <1>2, <1>3 DEF Explained

LEMMA ExplainedNew ==
    ASSUME NEW a \in Agents
    PROVE  Explained(NewPortfolio, a, <<>>, <<>>)
PROOF
<1>1. \A q \in Queries : Both(<<>>, <<>>, q) = 0
    BY TotalEmpty DEF Both
<1>2. /\ NewPortfolio.balance = InitialBalance /\ InitialBalance \in Int
      /\ \A m \in Markets, o \in Outcomes : NewPortfolio.shares[m][o] = 0
    BY MarketAssumption DEF NewPortfolio, NoShares
<1>3. ASSUME NEW t \in {"buy_shares", "sell_shares"}
      PROVE  /\ Both(<<>>, <<>>, CashQuery(a, t)) = 0
             /\ \A m \in Markets, o \in Outcomes : Both(<<>>, <<>>, ShareQuery(a, t, m, o)) = 0
    BY <1>1, QueriesAre
<1>. QED  BY <1>2, <1>3 DEF Explained

LEMMA PortsKept ==
    ASSUME NEW s \in MarketState
    PROVE  /\ Registered(s, Agents).markets = s.markets
           /\ \A a \in Agents : Port(Registered(s, Agents), a) = Port(s, a)
           /\ MarketPublished(MarketTick(s)).markets = s.markets
           /\ \A a \in Agents : Port(MarketPublished(MarketTick(s)), a) = Port(s, a)
PROOF
<1>1. /\ Registered(s, Agents).markets = s.markets
      /\ Registered(s, Agents).portfolios
           = [a \in DOMAIN s.portfolios \cup Agents |->
                IF a \in DOMAIN s.portfolios THEN s.portfolios[a] ELSE NewPortfolio]
    BY DEF Registered, MarketState
<1>2. /\ MarketPublished(MarketTick(s)).markets = s.markets
      /\ MarketPublished(MarketTick(s)).portfolios = s.portfolios
    BY DEF MarketPublished, MarketTick, MarketState
<1>. QED  BY <1>1, <1>2 DEF Port

LEMMA LedgerBlank ==
    ASSUME NEW m, m = NewMarket, NEW r, r = [a \in Agents |-> <<>>]
    PROVE  \A a \in Agents : /\ Recorded(r[a]) /\ \A i \in DOMAIN r[a] : r[a][i].agent = a
                             /\ Explained(Port(m, a), a, <<>>, r[a])
PROOF
<1>1. \A a \in Agents : Port(m, a) = NewPortfolio
    BY NewMarketOK DEF Port
<1>2. Recorded(<<>>) /\ DOMAIN <<>> = {}
    <2>1. <<>> \in Seq({}) /\ DOMAIN <<>> = {}
        OBVIOUS
    <2>. QED  BY <2>1 DEF Recorded, IsList
<1>. QED  BY <1>1, <1>2, ExplainedNew

LEMMA LedgerInit == Init => LedgerInv
PROOF
<1>. SUFFICES ASSUME Init PROVE LedgerInv
    OBVIOUS
<1>1. market = NewMarket /\ records = [a \in Agents |-> <<>>] /\ log = <<>>
    BY DEF Init
<1>2. Recorded(<<>>)
    <2>1. <<>> \in Seq({}) /\ DOMAIN <<>> = {}
        OBVIOUS
    <2>. QED  BY <2>1 DEF Recorded, IsList
<1>. QED  BY <1>1, <1>2, LedgerBlank DEF LedgerInv

LEMMA LedgerReset == RunFails => LedgerInv'
PROOF
<1>. SUFFICES ASSUME RunFails PROVE LedgerInv'
    OBVIOUS
<1>1. market' = NewMarket /\ records' = [a \in Agents |-> <<>>] /\ log' = <<>>
    BY DEF RunFails
<1>2. Recorded(<<>>)
    <2>1. <<>> \in Seq({}) /\ DOMAIN <<>> = {}
        OBVIOUS
    <2>. QED  BY <2>1 DEF Recorded, IsList
<1>. QED  BY <1>1, <1>2, LedgerBlank DEF LedgerInv

LEMMA LedgerObserve == WorldInv /\ LedgerInv /\ ObserveRound => LedgerInv'
PROOF
<1>. SUFFICES ASSUME WorldInv, LedgerInv, ObserveRound PROVE LedgerInv'
    OBVIOUS
<1>1. /\ market' = IF "market" \in Environments THEN Registered(market, Agents) ELSE market
      /\ records' = records /\ log' = log
    BY DEF ObserveRound
<1>2. market \in MarketState
    BY DEF WorldInv, WorldOK, MarketOK
<1>3. market'.markets = market.markets /\ \A a \in Agents : Port(market', a) = Port(market, a)
    BY <1>1, <1>2, PortsKept
<1>. QED  BY <1>1, <1>3 DEF LedgerInv

LEMMA LedgerEnd == WorldInv /\ LedgerInv /\ EndRound => LedgerInv'
PROOF
<1>. SUFFICES ASSUME WorldInv, LedgerInv, EndRound PROVE LedgerInv'
    OBVIOUS
<1>1. /\ TickAll /\ log' = log \o RoundRecords /\ records' = [a \in Agents |-> <<>>]
    BY DEF EndRound
<1>2. market \in MarketState /\ Recorded(log)
    BY DEF WorldInv, WorldOK, MarketOK, LedgerInv
<1>3. market'.markets = market.markets /\ \A a \in Agents : Port(market', a) = Port(market, a)
    BY <1>1, <1>2, PortsKept DEF TickAll
<1>4. Recorded(RoundRecords) /\ Recorded(log') /\ Recorded(<<>>)
    <2>1. <<>> \in Seq({}) /\ DOMAIN <<>> = {}
        OBVIOUS
    <2>2. Recorded(<<>>)
        BY <2>1 DEF Recorded, IsList
    <2>. QED  BY <1>1, <1>2, <2>2, RoundTotals, RecordedJoin
<1>5. ASSUME NEW a \in Agents
      PROVE  Explained(Port(market', a), a, log', <<>>)
    <2>1. ASSUME NEW q \in Queries, q.agent = a
          PROVE  Both(log', <<>>, q) = Both(log, records[a], q)
        <3>1. Total(log', q) = Total(log, q) + Total(RoundRecords, q)
            BY <1>1, <1>2, <1>4, TotalJoined
        <3>2. Total(RoundRecords, q) = Total(records[a], q) /\ Total(<<>>, q) = 0
            BY <2>1, RoundTotals, TotalEmpty
        <3>3. Total(log', q) \in Int
            BY <1>4, TotalFacts
        <3>. QED  BY <3>1, <3>2, <3>3 DEF Both
    <2>2. Explained(Port(market, a), a, log, records[a])
        BY DEF LedgerInv
    <2>. QED  BY <1>3, <2>1, <2>2, ExplainedSame
<1>6. market'.markets = NewMarket.markets \/ Stressed(log')
    <2>1. Stressed(log) \/ Stressed(RoundRecords) => Stressed(log')
        BY <1>1, <1>2, <1>4, StressJoined DEF Recorded
    <2>. QED  BY <1>3, <2>1, RoundTotals DEF LedgerInv
<1>7. \A a \in Agents : records'[a] = <<>>
    BY <1>1
<1>8. DOMAIN <<>> = {}
    OBVIOUS
<1>. QED  BY <1>4, <1>5, <1>6, <1>7, <1>8 DEF LedgerInv

LEMMA LedgerStep == ControlInv /\ WorldInv /\ LedgerInv /\ [Next]_vars => LedgerInv'
PROOF
<1>. SUFFICES ASSUME ControlInv, WorldInv, LedgerInv, [Next]_vars PROVE LedgerInv'
    OBVIOUS
<1>1. CASE ObserveRound
    BY <1>1, LedgerObserve
<1>2. ASSUME NEW a \in Agents, NEW answer \in Answers(a), StepAgent(a, answer)
      PROVE  LedgerInv'
    BY <1>2, LedgerTurn
<1>3. ASSUME NEW a \in Agents, ChatDrops(a)
      PROVE  LedgerInv'
    <2>1. RunFails \/ UNCHANGED <<market, records, log>>
        BY <1>3 DEF ChatDrops, world
    <2>. QED  BY <2>1, LedgerReset DEF LedgerInv
<1>4. ASSUME NEW a \in Agents, ToolRaises(a)
      PROVE  LedgerInv'
    BY <1>4, LedgerReset DEF ToolRaises
<1>5. CASE EndRound
    BY <1>5, LedgerEnd
<1>6. CASE UNCHANGED vars
    BY <1>6 DEF vars, world, LedgerInv
<1>. QED  BY <1>1, <1>2, <1>3, <1>4, <1>5, <1>6 DEF Next

\* A total is the sum over the records that count.
LEMMA TotalOver ==
    ASSUME NEW l, Recorded(l), NEW q \in Queries
    PROVE  Total(l, q) = Sum([i \in {i \in DOMAIN l : Counts(l[i], q)} |-> l[i].data[q.field]])
PROOF
<1>1. PICK D : D = DOMAIN l
    OBVIOUS
<1>2. PICK v : v = [i \in D |-> Amount(l[i], q)]
    OBVIOUS
<1>3. PICK S : S = {i \in D : Counts(l[i], q)}
    OBVIOUS
<1>4. PICK w : w = [i \in S |-> v[i]]
    OBVIOUS
<1>5. IsFiniteSet(D) /\ v \in [D -> Int]
    BY <1>1, <1>2, ListDomain, FS_Interval, AmountInt DEF Recorded
<1>6. S \in SUBSET D /\ \A i \in D \ S : v[i] = 0
    BY <1>1, <1>2, <1>3 DEF Amount, Counts
<1>7. w = [i \in {i \in DOMAIN l : Counts(l[i], q)} |-> l[i].data[q.field]]
    <2>1. \A i \in S : v[i] = l[i].data[q.field]
        BY <1>1, <1>2, <1>3 DEF Amount, Counts
    <2>. QED  BY <1>1, <1>3, <1>4, <2>1
<1>8. Total(l, q) = Sum(v)
    BY <1>1, <1>2 DEF Total
<1>9. Sum(v) = Sum(w)
    <2>1. w \in [S -> Int] /\ \A i \in S : w[i] = v[i]
        BY <1>4, <1>5, <1>6
    <2>. QED  BY <1>5, <1>6, <2>1, SumSupport
<1>. QED  BY <1>7, <1>8, <1>9

LEMMA LedgerShown == ControlInv /\ WorldInv /\ LedgerInv => TradesExplainPortfolios
PROOF
<1>. SUFFICES ASSUME ControlInv, WorldInv, LedgerInv, Between PROVE TradesExplainPortfolios
    BY DEF TradesExplainPortfolios
<1>1. \A a \in Agents : records[a] = <<>>
    BY DEF ControlInv, WorldInv, Between
<1>2. /\ Recorded(log) /\ market \in MarketState
      /\ \A a \in Agents : Explained(Port(market, a), a, log, <<>>)
      /\ market.markets = NewMarket.markets \/ Stressed(log)
    <2>1. ~Stressed(<<>>)
        <3>1. DOMAIN <<>> = {}
            OBVIOUS
        <3>. QED  BY <3>1 DEF Stressed
    <2>. QED  BY <1>1, <2>1 DEF LedgerInv, WorldInv, WorldOK, MarketOK
<1>3. SimScale(log).stress <=> Stressed(log)
    BY DEF SimScale, Stressed, Accepted
<1>. DEFINE trades == MarketData(log)
            of(a, s) == {i \in DOMAIN trades : /\ trades[i].agent = a /\ trades[i].success
                                               /\ trades[i].side = s}
            here(a, s, m, o) == {i \in of(a, s) : trades[i].market = m /\ trades[i].outcome = o}
            name(s) == IF s = "buy" THEN "buy_shares" ELSE "sell_shares"
<1>4. /\ DOMAIN trades = {i \in DOMAIN log : log[i].type \in {"buy_shares", "sell_shares"}}
      /\ \A i \in DOMAIN trades :
           /\ trades[i].agent = log[i].agent /\ trades[i].success = log[i].success
           /\ trades[i].market = log[i].args.market /\ trades[i].outcome = log[i].args.outcome
           /\ trades[i].side = IF log[i].type = "buy_shares" THEN "buy" ELSE "sell"
           /\ log[i].success => /\ trades[i]["cost"] = log[i].data["cost"]
                                /\ trades[i]["shares"] = log[i].data["shares"]
    BY DEF MarketData, Trades, Matching
<1>. HIDE DEF trades
<1>5. ASSUME NEW a \in Agents, NEW s \in {"buy", "sell"}
      PROVE  /\ Both(log, <<>>, CashQuery(a, name(s))) = Sum([i \in of(a, s) |-> trades[i]["cost"]])
             /\ \A m \in Markets, o \in Outcomes :
                  Both(log, <<>>, ShareQuery(a, name(s), m, o))
                    = Sum([i \in here(a, s, m, o) |-> trades[i]["shares"]])
    <2>0. name(s) \in {"buy_shares", "sell_shares"}
        OBVIOUS
    <2>1. ASSUME NEW q \in Queries PROVE Both(log, <<>>, q) = Total(log, q)
        BY <1>2, TotalEmpty, TotalFacts DEF Both
    <2>2. \A i \in of(a, s) : trades[i]["cost"] = log[i].data["cost"]
                               /\ trades[i]["shares"] = log[i].data["shares"]
        BY <1>4
    <2>3. of(a, s) = {i \in DOMAIN log : log[i].agent = a /\ log[i].type = name(s) /\ log[i].success}
        BY <1>4
    <2>4. Both(log, <<>>, CashQuery(a, name(s))) = Sum([i \in of(a, s) |-> trades[i]["cost"]])
        <3>. DEFINE q == CashQuery(a, name(s))
                    S == {i \in DOMAIN log : Counts(log[i], q)}
        <3>1. q \in Queries
            BY <2>0, QueriesAre
        <3>2. /\ q.agent = a /\ q.type = name(s) /\ q.field = "cost"
              /\ q.here = Markets \X Outcomes
            BY DEF CashQuery, Query
        <3>. HIDE DEF q
        <3>3. Total(log, q) = Sum([i \in S |-> log[i].data[q.field]])
            BY <1>2, <3>1, TotalOver
        <3>4. S = of(a, s)
            <4>1. \A i \in of(a, s) : <<log[i].args.market, log[i].args.outcome>> \in q.here
                BY <1>2, <2>0, <2>3, <3>2 DEF Recorded, TradeOK, Accepted
            <4>. QED  BY <2>3, <3>2, <4>1 DEF Counts
        <3>5. [i \in S |-> log[i].data[q.field]] = [i \in of(a, s) |-> trades[i]["cost"]]
            BY <2>2, <3>2, <3>4
        <3>. QED  BY <2>1, <3>1, <3>3, <3>5 DEF q
    <2>5. ASSUME NEW m \in Markets, NEW o \in Outcomes
          PROVE  Both(log, <<>>, ShareQuery(a, name(s), m, o))
                   = Sum([i \in here(a, s, m, o) |-> trades[i]["shares"]])
        <3>. DEFINE q == ShareQuery(a, name(s), m, o)
                    S == {i \in DOMAIN log : Counts(log[i], q)}
        <3>1. q \in Queries
            BY <2>0, QueriesAre
        <3>2. q.agent = a /\ q.type = name(s) /\ q.field = "shares" /\ q.here = {<<m, o>>}
            BY DEF ShareQuery, Query
        <3>. HIDE DEF q
        <3>3. Total(log, q) = Sum([i \in S |-> log[i].data[q.field]])
            BY <1>2, <3>1, TotalOver
        <3>4. S = here(a, s, m, o)
            <4>1. \A i \in of(a, s) : /\ trades[i].market = log[i].args.market
                                      /\ trades[i].outcome = log[i].args.outcome
                BY <1>4
            <4>2. \A i : <<log[i].args.market, log[i].args.outcome>> \in q.here
                           <=> log[i].args.market = m /\ log[i].args.outcome = o
                BY <3>2
            <4>. QED  BY <2>3, <3>2, <4>1, <4>2 DEF Counts
        <3>5. [i \in S |-> log[i].data[q.field]] = [i \in here(a, s, m, o) |-> trades[i]["shares"]]
            BY <2>2, <3>2, <3>4
        <3>. QED  BY <2>1, <3>1, <3>3, <3>5 DEF q
    <2>. QED  BY <2>4, <2>5
<1>6. ASSUME NEW a \in DOMAIN market.portfolios
      PROVE  /\ market.portfolios[a].balance = InitialBalance
                  - Sum([i \in of(a, "buy") |-> trades[i]["cost"]])
                  + Sum([i \in of(a, "sell") |-> trades[i]["cost"]])
             /\ \A m \in Markets, o \in Outcomes :
                  market.portfolios[a].shares[m][o]
                     = Sum([i \in here(a, "buy", m, o) |-> trades[i]["shares"]])
                       - Sum([i \in here(a, "sell", m, o) |-> trades[i]["shares"]])
    <2>1. a \in Agents /\ Port(market, a) = market.portfolios[a]
        BY <1>2 DEF MarketState, Port
    <2>2. name("buy") = "buy_shares" /\ name("sell") = "sell_shares"
        OBVIOUS
    <2>. HIDE DEF name, of, here
    <2>. QED  BY <1>2, <1>5, <2>1, <2>2 DEF Explained
<1>. QED  BY <1>2, <1>3, <1>6 DEF TradesExplainPortfolios, trades

(* Between rounds the trades in the log, with the prices and shares the    *)
(* environment answered, add up to every agent's cash and shares, and no   *)
(* pool has moved without an accepted trade in the log                     *)
(* (extractor_market_social.py extract_market_data(),                      *)
(* story_signals_scale.py compute_sim_scale()).                            *)
THEOREM TradesExplainPortfoliosTheorem == Spec => []TradesExplainPortfolios
PROOF
<1>. DEFINE Inv == ControlInv /\ WorldInv /\ LedgerInv
<1>1. Init => Inv
    BY ControlInit, WorldInit, LedgerInit
<1>2. Inv /\ [Next]_vars => Inv'
    BY ControlStep, WorldStep, LedgerStep
<1>3. Inv => TradesExplainPortfolios
    BY LedgerShown
<1>. HIDE DEF Inv
<1>. QED  BY <1>1, <1>2, <1>3, PTL DEF Spec

-----------------------------------------------------------------------------
(* The story: blocs, phases and quotes of a list of records.                 *)

PostsIn(l) == {i \in DOMAIN l : l[i].type = "create_post"}

LEMMA Blocs ==
    ASSUME NEW l, NEW blocs, blocs = StakeholderPositions(l)
    PROVE  /\ UNION {blocs[s] : s \in DOMAIN blocs} = {l[i].agent : i \in PostsIn(l)}
           /\ \A s, t \in DOMAIN blocs : s # t => blocs[s] \cap blocs[t] = {}
PROOF
<1>1. PICK posters : posters = {l[i].agent : i \in PostsIn(l)}
    OBVIOUS
<1>2. PICK st : st = [a \in posters |-> DominantStance(ClassesOf(l, a))]
    OBVIOUS
<1>3. blocs = [s \in {st[a] : a \in posters} |-> {a \in posters : st[a] = s}]
    BY <1>1, <1>2 DEF StakeholderPositions, Matching, PostsIn
<1>4. UNION {blocs[s] : s \in DOMAIN blocs} = posters
    BY <1>3
<1>5. \A s, t \in DOMAIN blocs : s # t => blocs[s] \cap blocs[t] = {}
    BY <1>3
<1>. QED  BY <1>1, <1>4, <1>5

\* Of a finite set of numbers, the one with the greatest mark, ties to the lowest.
LEMMA BestOf ==
    ASSUME NEW D \in SUBSET Nat, IsFiniteSet(D), D # {}, NEW e, \A i \in D : e[i] \in Nat
    PROVE  \E i \in D : \A j \in D \ {i} : IF i < j THEN e[j] <= e[i] ELSE e[j] < e[i]
PROOF
<1>. DEFINE Best(s, i) == i \in s /\ \A j \in s \ {i} : IF i < j THEN e[j] <= e[i] ELSE e[j] < e[i]
            Bad == {s \in SUBSET D : s # {} /\ ~ \E i \in D : Best(s, i)}
<1>1. ASSUME NEW s \in Bad PROVE \E x \in s : s \ {x} \in Bad
    <2>1. PICK x \in s : TRUE
        OBVIOUS
    <2>2. x \in D /\ x \in Nat /\ s \in SUBSET D /\ ~ \E i \in D : Best(s, i)
        BY <2>1
    <2>3. ASSUME s \ {x} = {} PROVE FALSE
        BY <2>1, <2>2, <2>3
    <2>4. ASSUME NEW i \in D, Best(s \ {x}, i) PROVE FALSE
        <3>1. i \in s /\ i # x /\ i \in Nat /\ e[i] \in Nat /\ e[x] \in Nat
            BY <2>1, <2>2, <2>4
        <3>2. CASE IF i < x THEN e[x] <= e[i] ELSE e[x] < e[i]
            <4>1. Best(s, i)
                BY <2>4, <3>1, <3>2
            <4>. QED  BY <2>2, <4>1
        <3>3. CASE ~ (IF i < x THEN e[x] <= e[i] ELSE e[x] < e[i])
            <4>1. ASSUME NEW j \in s \ {x}
                  PROVE  IF x < j THEN e[j] <= e[x] ELSE e[j] < e[x]
                <5>1. j \in Nat /\ e[j] \in Nat
                    BY <2>2
                <5>2. CASE j = i
                    BY <3>1, <3>3, <5>2
                <5>3. CASE j # i
                    <6>1. IF i < j THEN e[j] <= e[i] ELSE e[j] < e[i]
                        BY <2>4, <5>3
                    <6>. QED  BY <3>1, <3>3, <2>2, <5>1, <6>1
                <5>. QED  BY <5>2, <5>3
            <4>2. Best(s, x)
                BY <2>1, <4>1
            <4>. QED  BY <2>2, <4>2
        <3>. QED  BY <3>2, <3>3
    <2>. HIDE DEF Best
    <2>5. s \ {x} \in Bad
        BY <2>2, <2>3, <2>4
    <2>. QED  BY <2>1, <2>5
<1>2. Bad = {}
    <2>1. Bad \in SUBSET (SUBSET D)
        OBVIOUS
    <2>. HIDE DEF Bad
    <2>. QED  BY <1>1, <2>1, SetDescent
<1>3. D \in SUBSET D
    OBVIOUS
<1>. HIDE DEF Best
<1>4. \E i \in D : Best(D, i)
    BY <1>2, <1>3
<1>. QED  BY <1>4 DEF Best

LEMMA LastRoundFacts ==
    ASSUME NEW l, IsList(l), \A i \in DOMAIN l : l[i].round \in Nat \ {0}
    PROVE  LastRound(l) \in Nat /\ \A n \in RoundsIn(l) : n \in Nat /\ 1 <= n /\ n <= LastRound(l)
PROOF
<1>1. PICK S : S = RoundsIn(l)
    OBVIOUS
<1>2. S \in SUBSET Nat /\ \A n \in S : n \in Nat /\ 1 <= n
    BY <1>1 DEF RoundsIn
<1>3. CASE l = <<>>
    <2>1. S = {}
        BY <1>1, <1>3 DEF RoundsIn
    <2>. QED  BY <1>1, <1>3, <2>1 DEF LastRound
<1>4. CASE l # <<>>
    <2>1. IsFiniteSet(DOMAIN l) /\ 1 \in DOMAIN l
        <3>1. Len(l) \in Nat /\ DOMAIN l = 1 .. Len(l) /\ Len(l) # 0
            <4>1. Len(l) = 0 => l = <<>>
                BY DEF IsList
            <4>. QED  BY <1>4, <4>1, ListDomain
        <3>. QED  BY <3>1, FS_Interval
    <2>2. IsFiniteSet(S)
        <3>1. PICK D : D = DOMAIN l
            OBVIOUS
        <3>2. PICK f : f = [i \in D |-> l[i].round]
            OBVIOUS
        <3>3. S = {f[i] : i \in D}
            BY <1>1, <3>1, <3>2 DEF RoundsIn
        <3>4. f \in Surjection(D, S)
            BY <3>2, <3>3 DEF Surjection
        <3>. QED  BY <2>1, <3>1, <3>4, FS_Surjection
    <2>3. S # {}
        BY <1>1, <2>1 DEF RoundsIn
    <2>4. PICK e : e = [n \in S |-> n]
        OBVIOUS
    <2>5. PICK m \in S : \A j \in S \ {m} : IF m < j THEN e[j] <= e[m] ELSE e[j] < e[m]
        <3>1. \A n \in S : e[n] \in Nat
            BY <1>2, <2>4
        <3>. QED  BY <1>2, <2>2, <2>3, <3>1, BestOf
    <2>6. \A j \in S : j <= m
        BY <1>2, <2>4, <2>5
    <2>7. LastRound(l) \in S /\ \A j \in S : j <= LastRound(l)
        BY <1>1, <1>4, <2>5, <2>6 DEF LastRound, Largest
    <2>. QED  BY <1>1, <1>2, <2>7
<1>. QED  BY <1>3, <1>4

\* Every round of the run is in one phase.
LEMMA OnePhase ==
    ASSUME NEW last \in Nat, NEW n \in Nat, 1 <= n, n <= last,
           NEW phases, phases = PhaseBoundaries(last)
    PROVE  \E i \in DOMAIN phases : {j \in DOMAIN phases : n \in phases[j].from .. phases[j].to} = {i}
PROOF
<1>1. CASE last < 3
    <2>1. phases = << [from |-> 1, to |-> IF last < 1 THEN 1 ELSE last] >>
        BY <1>1 DEF PhaseBoundaries
    <2>2. DOMAIN phases = {1} /\ phases[1].from = 1 /\ phases[1].to = last
        BY <2>1
    <2>3. n \in phases[1].from .. phases[1].to
        BY <2>2
    <2>. QED  BY <2>2, <2>3
<1>2. CASE last >= 3
    <2>. DEFINE p == last \div 3
                q == (2 * last) \div 3
    <2>1. phases = [i \in 1 .. 3 |-> [from |-> ((i - 1) * last) \div 3 + 1,
                                      to   |-> IF i < 3 THEN (i * last) \div 3 ELSE last]]
        BY <1>2 DEF PhaseBoundaries
    <2>2. /\ (0 * last) \div 3 = 0 /\ (1 * last) \div 3 = p
          /\ p \in Nat /\ q \in Nat /\ p <= q /\ q <= last
        OBVIOUS
    <2>3. /\ DOMAIN phases = 1 .. 3
          /\ phases[1].from = 1 /\ phases[1].to = p
          /\ phases[2].from = p + 1 /\ phases[2].to = q
          /\ phases[3].from = q + 1 /\ phases[3].to = last
        BY <2>1, <2>2
    <2>. HIDE DEF p, q
    <2>4. 1 .. 3 = {1, 2, 3}
        OBVIOUS
    <2>5. CASE n <= p
        <3>1. /\ n \in phases[1].from .. phases[1].to /\ n \notin phases[2].from .. phases[2].to
              /\ n \notin phases[3].from .. phases[3].to
            BY <2>2, <2>3, <2>5
        <3>. QED  BY <2>3, <2>4, <3>1
    <2>6. CASE p < n /\ n <= q
        <3>1. /\ n \notin phases[1].from .. phases[1].to /\ n \in phases[2].from .. phases[2].to
              /\ n \notin phases[3].from .. phases[3].to
            BY <2>2, <2>3, <2>6
        <3>. QED  BY <2>3, <2>4, <3>1
    <2>7. CASE q < n
        <3>1. /\ n \notin phases[1].from .. phases[1].to /\ n \notin phases[2].from .. phases[2].to
              /\ n \in phases[3].from .. phases[3].to
            BY <2>2, <2>3, <2>7
        <3>. QED  BY <2>3, <2>4, <3>1
    <2>. QED  BY <2>2, <2>5, <2>6, <2>7
<1>. QED  BY <1>1, <1>2

LEMMA PhaseHolds ==
    ASSUME NEW last \in Nat, NEW n \in Nat, 1 <= n, n <= last,
           NEW phases, phases = PhaseBoundaries(last)
    PROVE  n \in phases[PhaseForRound(n, phases)].from .. phases[PhaseForRound(n, phases)].to
PROOF
<1>1. PICK i \in DOMAIN phases : {j \in DOMAIN phases : n \in phases[j].from .. phases[j].to} = {i}
    BY OnePhase
<1>2. i \in Nat
    <2>1. DOMAIN phases \subseteq Nat
        BY DEF PhaseBoundaries
    <2>. QED  BY <2>1
<1>3. PhaseForRound(n, phases) = CHOOSE k \in {i} : \A j \in {i} : k <= j
    BY <1>1 DEF PhaseForRound
<1>4. PhaseForRound(n, phases) = i
    BY <1>2, <1>3
<1>. QED  BY <1>1, <1>4

GroundedQuote(l, q) ==
    \E k \in Quotable(l) : l[k].agent = q.agent /\ Group(l, k) = <<q.phase, q.class>>

QuotesOK(l, quotes) ==
    /\ IsList(quotes)
    /\ \A i, j \in DOMAIN quotes : i # j => quotes[i].agent # quotes[j].agent
    /\ \A i \in DOMAIN quotes : GroundedQuote(l, quotes[i])

LEMMA PickKeeps ==
    ASSUME NEW l, IsList(l), NEW quotes, QuotesOK(l, quotes), NEW g, g = <<g[1], g[2]>>
    PROVE  QuotesOK(l, Pick(l, quotes, g))
PROOF
<1>1. PICK free : free = {i \in Quotable(l) : /\ Group(l, i) = g
                                              /\ \A q \in ToSet(quotes) : q.agent # l[i].agent}
    OBVIOUS
<1>2. PICK D : D = DOMAIN l /\ IsFiniteSet(D) /\ D \in SUBSET Nat
    <2>1. Len(l) \in Nat /\ DOMAIN l = 1 .. Len(l)
        BY ListDomain
    <2>2. IsFiniteSet(1 .. Len(l)) /\ 1 .. Len(l) \in SUBSET Nat
        BY <2>1, FS_Interval
    <2>. QED  BY <2>1, <2>2
<1>3. PICK e : e = [i \in D |-> EngagementForPost(l, l[i])]
    OBVIOUS
<1>4. free \in SUBSET D
    BY <1>1, <1>2 DEF Quotable, Matching
<1>5. CASE free = {}
    <2>1. Pick(l, quotes, g) = quotes
        BY <1>1, <1>5 DEF Pick
    <2>. QED  BY <2>1
<1>6. CASE free # {}
    <2>. DEFINE Best(i) == \A j \in free \ {i} : IF i < j THEN e[j] <= e[i] ELSE e[j] < e[i]
                best == CHOOSE i \in free : Best(i)
                new == [agent |-> l[best].agent, phase |-> g[1], class |-> g[2]]
    <2>1. \A i \in D : e[i] \in Nat
        <3>1. ASSUME NEW i \in D PROVE e[i] \in Nat
            <4>. DEFINE S == {j \in DOMAIN l : /\ l[j].type \in {"like_post", "repost"}
                                               /\ "target_post" \in DOMAIN l[j].args
                                               /\ l[j].args.target_post = <<l[i].agent, l[i].round>>}
            <4>1. e[i] = Cardinality(S)
                BY <1>3 DEF EngagementForPost, Count, Matching
            <4>2. S \in SUBSET D
                BY <1>2
            <4>. HIDE DEF S
            <4>. QED  BY <1>2, <4>1, <4>2, SmallerSet
        <3>. QED  BY <3>1
    <2>2. \E i \in free : Best(i)
        <3>1. IsFiniteSet(free) /\ free \in SUBSET Nat /\ \A i \in free : e[i] \in Nat
            BY <1>2, <1>4, <2>1, SmallerSet
        <3>. QED  BY <1>6, <3>1, BestOf
    <2>3. best \in free
        <3>. HIDE DEF Best
        <3>. QED  BY <2>2
    <2>4. best = CHOOSE i \in free : \A j \in free \ {i} :
                    IF i < j THEN EngagementForPost(l, l[j]) <= EngagementForPost(l, l[i])
                    ELSE EngagementForPost(l, l[j]) < EngagementForPost(l, l[i])
        <3>1. \A i \in free : e[i] = EngagementForPost(l, l[i])
            BY <1>3, <1>4
        <3>2. \A i \in free : Best(i) <=> \A j \in free \ {i} :
                    IF i < j THEN EngagementForPost(l, l[j]) <= EngagementForPost(l, l[i])
                    ELSE EngagementForPost(l, l[j]) < EngagementForPost(l, l[i])
            BY <3>1
        <3>. HIDE DEF Best
        <3>. QED  BY <3>2
    <2>5. Pick(l, quotes, g) = Append(quotes, new)
        BY <1>1, <1>6, <2>4 DEF Pick
    <2>. HIDE DEF best, Best
    <2>6. /\ best \in Quotable(l) /\ Group(l, best) = g
          /\ \A q \in ToSet(quotes) : q.agent # l[best].agent
        BY <1>1, <2>3
    <2>7. GroundedQuote(l, new)
        BY <2>6 DEF GroundedQuote
    <2>8. new.agent = l[best].agent
        OBVIOUS
    <2>. HIDE DEF new
    <2>9. \A i \in DOMAIN quotes : quotes[i].agent # new.agent
        BY <2>6, <2>8 DEF ToSet
    <2>10. /\ IsList(Append(quotes, new)) /\ Len(quotes) \in Nat
           /\ DOMAIN quotes = 1 .. Len(quotes) /\ DOMAIN Append(quotes, new) = 1 .. Len(quotes) + 1
           /\ \A i \in DOMAIN quotes : Append(quotes, new)[i] = quotes[i]
           /\ Append(quotes, new)[Len(quotes) + 1] = new
        BY ListAppend DEF QuotesOK
    <2>11. \A i \in DOMAIN Append(quotes, new) : i \in DOMAIN quotes \/ i = Len(quotes) + 1
        BY <2>10
    <2>12. \A i \in DOMAIN Append(quotes, new) : GroundedQuote(l, Append(quotes, new)[i])
        BY <2>7, <2>10, <2>11 DEF QuotesOK
    <2>13. \A i, j \in DOMAIN Append(quotes, new) :
              i # j => Append(quotes, new)[i].agent # Append(quotes, new)[j].agent
        BY <2>9, <2>10, <2>11 DEF QuotesOK
    <2>. QED  BY <2>5, <2>10, <2>12, <2>13 DEF QuotesOK
<1>. QED  BY <1>5, <1>6

\* The quotes after the first n records.
PickedUpTo(f, l, opens, n) ==
    f = [m \in 0 .. n |-> IF m = 0 THEN <<>>
                          ELSE IF m \in opens THEN Pick(l, f[m - 1], Group(l, m)) ELSE f[m - 1]]

LEMMA PickingUnfolds ==
    ASSUME NEW l, NEW opens, NEW k \in Nat
    PROVE  \E f : PickedUpTo(f, l, opens, k)
PROOF
<1>. DEFINE Bad == {m \in Nat : ~ \E f : PickedUpTo(f, l, opens, m)}
            Next1(f, m) == IF m \in opens THEN Pick(l, f[m - 1], Group(l, m)) ELSE f[m - 1]
<1>1. \E f : PickedUpTo(f, l, opens, 0)
    <2>. DEFINE f == [n \in 0 .. 0 |-> <<>>]
    <2>1. f = [m \in 0 .. 0 |-> IF m = 0 THEN <<>>
                          ELSE IF m \in opens THEN Pick(l, f[m - 1], Group(l, m)) ELSE f[m - 1]]
        OBVIOUS
    <2>. HIDE DEF f
    <2>2. PickedUpTo(f, l, opens, 0)
        BY <2>1 DEF PickedUpTo
    <2>. QED  BY <2>2
<1>2. ASSUME NEW m \in Nat, \E f : PickedUpTo(f, l, opens, m)
      PROVE  \E f : PickedUpTo(f, l, opens, m + 1)
    <2>1. PICK g : PickedUpTo(g, l, opens, m)
        BY <1>2
    <2>. DEFINE last == IF m + 1 \in opens THEN Pick(l, g[m], Group(l, m + 1)) ELSE g[m]
                f == [n \in 0 .. m + 1 |-> IF n = m + 1 THEN last ELSE g[n]]
    <2>2. /\ DOMAIN g = 0 .. m
          /\ \A n \in 0 .. m : g[n] = IF n = 0 THEN <<>>
                          ELSE IF n \in opens THEN Pick(l, g[n - 1], Group(l, n)) ELSE g[n - 1]
        BY <2>1 DEF PickedUpTo
    <2>3. /\ DOMAIN f = 0 .. m + 1 /\ f[m + 1] = last /\ \A n \in 0 .. m : f[n] = g[n]
          /\ f = [n \in 0 .. m + 1 |-> f[n]]
        OBVIOUS
    <2>4. last = IF m + 1 \in opens THEN Pick(l, g[m], Group(l, m + 1)) ELSE g[m]
        OBVIOUS
    <2>. HIDE DEF f, last
    <2>5. ASSUME NEW n \in 0 .. m + 1
          PROVE  f[n] = IF n = 0 THEN <<>>
                        ELSE IF n \in opens THEN Pick(l, f[n - 1], Group(l, n)) ELSE f[n - 1]
        <3>1. CASE n = m + 1
            <4>1. n # 0 /\ n - 1 = m /\ m \in 0 .. m
                BY <3>1
            <4>2. f[n - 1] = g[m]
                BY <2>3, <4>1
            <4>. QED  BY <2>3, <2>4, <3>1, <4>1, <4>2
        <3>2. CASE n # m + 1
            <4>1. n \in 0 .. m /\ (n # 0 => n - 1 \in 0 .. m)
                BY <3>2
            <4>2. f[n] = g[n] /\ (n # 0 => f[n - 1] = g[n - 1])
                BY <2>3, <4>1
            <4>. QED  BY <2>2, <4>1, <4>2
        <3>. QED  BY <3>1, <3>2
    <2>6. f = [n \in 0 .. m + 1 |-> IF n = 0 THEN <<>>
                        ELSE IF n \in opens THEN Pick(l, f[n - 1], Group(l, n)) ELSE f[n - 1]]
        BY <2>3, <2>5
    <2>7. PickedUpTo(f, l, opens, m + 1)
        BY <2>6 DEF PickedUpTo
    <2>. QED  BY <2>7
<1>3. ASSUME NEW m \in Bad PROVE \E j \in Bad : j < m
    <2>1. m # 0 /\ m - 1 \in Nat /\ m - 1 < m /\ (m - 1) + 1 = m
        BY <1>1
    <2>2. ~ \E f : PickedUpTo(f, l, opens, m - 1)
        BY <1>2, <2>1
    <2>. QED  BY <2>1, <2>2
<1>4. Bad = {}
    <2>1. Bad \in SUBSET Nat
        OBVIOUS
    <2>. HIDE DEF Bad
    <2>. QED  BY <2>1, <1>3, Descent
<1>. QED  BY <1>4

LEMMA QuotesFacts ==
    ASSUME NEW l, IsList(l)
    PROVE  QuotesOK(l, QuotablePosts(l))
PROOF
<1>1. PICK opens : opens = {i \in Quotable(l) :
                               \A j \in Quotable(l) : Group(l, j) = Group(l, i) => i <= j}
    OBVIOUS
<1>. DEFINE k == Len(l)
            f == CHOOSE f : PickedUpTo(f, l, opens, k)
            Bad == {n \in 0 .. k : ~QuotesOK(l, f[n])}
<1>2. k \in Nat
    BY ListDomain
<1>3. PickedUpTo(f, l, opens, k)
    BY <1>2, PickingUnfolds
<1>4. QuotablePosts(l) = f[k]
    BY <1>1 DEF QuotablePosts, PickedUpTo
<1>. HIDE DEF f, k
<1>5. \A n \in 0 .. k : f[n] = IF n = 0 THEN <<>>
                               ELSE IF n \in opens THEN Pick(l, f[n - 1], Group(l, n)) ELSE f[n - 1]
    BY <1>3 DEF PickedUpTo
<1>6. ASSUME NEW n \in Bad PROVE \E m \in Bad : m < n
    <2>1. n \in 0 .. k /\ ~QuotesOK(l, f[n])
        OBVIOUS
    <2>2. QuotesOK(l, <<>>)
        <3>1. DOMAIN <<>> = {} /\ <<>> \in Seq({})
            OBVIOUS
        <3>. QED  BY <3>1 DEF QuotesOK, IsList
    <2>3. n # 0
        BY <1>2, <1>5, <2>1, <2>2
    <2>4. n - 1 \in 0 .. k /\ n - 1 < n
        BY <1>2, <2>1, <2>3
    <2>5. ASSUME QuotesOK(l, f[n - 1]) PROVE FALSE
        <3>1. Group(l, n) = <<Group(l, n)[1], Group(l, n)[2]>>
            BY DEF Group
        <3>2. QuotesOK(l, Pick(l, f[n - 1], Group(l, n)))
            BY <2>5, <3>1, PickKeeps
        <3>. QED  BY <1>5, <2>1, <2>3, <2>5, <3>2
    <2>. QED  BY <2>4, <2>5
<1>7. Bad = {}
    <2>1. Bad \in SUBSET Nat
        BY <1>2
    <2>. HIDE DEF Bad
    <2>. QED  BY <1>6, <2>1, Descent
<1>. QED  BY <1>2, <1>4, <1>7

\* What a list of records is told as, whoever made it.
Dated(l) == IsList(l) /\ \A i \in DOMAIN l : l[i].round \in Nat \ {0}

LEMMA StoryTold ==
    ASSUME Dated(log)
    PROVE  StoryIsConsistent
PROOF
<1>. DEFINE blocs == StakeholderPositions(log)
            phases == PhaseBoundaries(LastRound(log))
            quotes == QuotablePosts(log)
<1>1. PICK posts : posts = {i \in DOMAIN log : log[i].type = "create_post"}
    OBVIOUS
<1>2. /\ UNION {blocs[s] : s \in DOMAIN blocs} = {log[i].agent : i \in posts}
      /\ \A s, t \in DOMAIN blocs : s # t => blocs[s] \cap blocs[t] = {}
    BY <1>1, Blocs DEF PostsIn
<1>3. LastRound(log) \in Nat /\ \A n \in RoundsIn(log) : n \in Nat /\ 1 <= n /\ n <= LastRound(log)
    BY LastRoundFacts DEF Dated
<1>4. ASSUME NEW n \in RoundsIn(log)
      PROVE  Cardinality({i \in DOMAIN phases : n \in phases[i].from .. phases[i].to}) = 1
    <2>1. PICK i \in DOMAIN phases : {j \in DOMAIN phases : n \in phases[j].from .. phases[j].to} = {i}
        BY <1>3, OnePhase
    <2>. QED  BY <2>1, FS_Singleton
<1>5. QuotesOK(log, quotes)
    BY QuotesFacts DEF Dated
<1>. HIDE DEF quotes
<1>6. ASSUME NEW i \in DOMAIN quotes
      PROVE  \E k \in posts :
                /\ log[k].agent = quotes[i].agent /\ Class[log[k].args.text] = quotes[i].class
                /\ log[k].round \in phases[quotes[i].phase].from .. phases[quotes[i].phase].to
    <2>1. PICK k \in Quotable(log) : /\ log[k].agent = quotes[i].agent
                                     /\ Group(log, k) = <<quotes[i].phase, quotes[i].class>>
        BY <1>5 DEF QuotesOK, GroundedQuote
    <2>2. k \in posts /\ log[k].round \in RoundsIn(log)
        BY <1>1, <2>1 DEF Quotable, Matching, RoundsIn
    <2>3. /\ PhaseForRound(log[k].round, phases) = quotes[i].phase
          /\ Class[log[k].args.text] = quotes[i].class
        BY <2>1 DEF Group
    <2>4. log[k].round \in phases[quotes[i].phase].from .. phases[quotes[i].phase].to
        BY <1>3, <2>2, <2>3, PhaseHolds
    <2>. QED  BY <2>1, <2>2, <2>3, <2>4
<1>7. \A i, j \in DOMAIN quotes : i # j => quotes[i].agent # quotes[j].agent
    BY <1>5 DEF QuotesOK
<1>8. Matching(log, LAMBDA r : r.type = "create_post") = posts
    BY <1>1 DEF Matching
<1>. QED  BY <1>2, <1>4, <1>6, <1>7, <1>8 DEF StoryIsConsistent, quotes

-----------------------------------------------------------------------------
(* Deeds: what an accepted call of the social platform did, and how often a  *)
(* list of records tells of it.                                              *)

WroteDeed(a, p, n) == <<"create_post", a, p, n>>
RepliedDeed(a, p, q) == <<"reply", a, p, q>>
VotedDeed(a, p) == <<"vote", a, p, 0>>
SharedDeed(p) == <<"repost", p, 0, 0>>
FollowedDeed(a, b) == <<"follow", a, b, 0>>

Deed(r) ==
    IF ~r.success THEN <<"none", 0, 0, 0>>
    ELSE CASE r.type = "create_post" -> WroteDeed(r.agent, r.data.post, r.round - 1)
           [] r.type = "reply"       -> RepliedDeed(r.agent, r.data.post, r.args.post)
           [] r.type = "vote"        -> VotedDeed(r.agent, r.args.post)
           [] r.type = "repost"      -> SharedDeed(r.args.post)
           [] r.type = "follow"      -> FollowedDeed(r.agent, r.args.agent)
           [] OTHER                  -> <<"none", 0, 0, 0>>

Places(l, d) == {i \in DOMAIN l : Deed(l[i]) = d}
Tally(l, d) == Cardinality(Places(l, d))

LEMMA PlacesFinite ==
    ASSUME NEW l, IsList(l), NEW d
    PROVE  IsFiniteSet(Places(l, d)) /\ Tally(l, d) \in Nat /\ (Tally(l, d) = 0 <=> Places(l, d) = {})
PROOF
<1>1. IsFiniteSet(DOMAIN l)
    BY ListDomain, FS_Interval
<1>2. Places(l, d) \in SUBSET DOMAIN l
    BY DEF Places
<1>. QED  BY <1>1, <1>2, SmallerSet DEF Tally

LEMMA TallyAppended ==
    ASSUME NEW l, IsList(l), NEW r, NEW d
    PROVE  /\ Tally(Append(l, r), d) = Tally(l, d) + (IF Deed(r) = d THEN 1 ELSE 0)
           /\ Tally(l, d) \in Nat
PROOF
<1>. DEFINE j == Append(l, r)
            n == Len(l)
<1>1. /\ IsList(j) /\ n \in Nat /\ DOMAIN l = 1 .. n /\ DOMAIN j = 1 .. n + 1
      /\ \A i \in DOMAIN l : j[i] = l[i]
      /\ j[n + 1] = r
    BY ListAppend
<1>. HIDE DEF j, n
<1>2. /\ n + 1 \notin DOMAIN l /\ n + 1 \in DOMAIN j
      /\ \A i \in DOMAIN j : i \in DOMAIN l \/ i = n + 1
      /\ \A i \in DOMAIN l : i \in DOMAIN j
    BY <1>1
<1>3. Places(j, d) = IF Deed(r) = d THEN Places(l, d) \cup {n + 1} ELSE Places(l, d)
    BY <1>1, <1>2 DEF Places
<1>4. n + 1 \notin Places(l, d)
    BY <1>2 DEF Places
<1>5. IsFiniteSet(Places(l, d)) /\ Tally(l, d) \in Nat
    BY PlacesFinite
<1>6. Cardinality(Places(l, d) \cup {n + 1}) = Cardinality(Places(l, d)) + 1
    BY <1>4, <1>5, FS_AddElement
<1>. QED  BY <1>3, <1>5, <1>6 DEF Tally, j

LEMMA TallyJoined ==
    ASSUME NEW l, NEW k, IsList(l), IsList(k), NEW d
    PROVE  Tally(l \o k, d) = Tally(l, d) + Tally(k, d)
PROOF
<1>. DEFINE j == l \o k
            n == Len(l)
            m == Len(k)
<1>1. /\ n \in Nat /\ DOMAIN l = 1 .. n /\ m \in Nat /\ DOMAIN k = 1 .. m
      /\ IsList(j) /\ Len(j) = n + m /\ DOMAIN j = 1 .. n + m
      /\ \A i \in 1 .. n : j[i] = l[i]
      /\ \A i \in 1 .. m : j[n + i] = k[i]
    BY ListDomain, ListJoin
<1>. HIDE DEF j, n, m
<1>2. PICK A : A = Places(l, d)
    OBVIOUS
<1>3. PICK B : B = Places(k, d)
    OBVIOUS
<1>4. PICK C : C = {n + i : i \in B}
    OBVIOUS
<1>5. A \subseteq 1 .. n /\ B \subseteq 1 .. m /\ IsFiniteSet(A) /\ IsFiniteSet(B)
    BY <1>1, <1>2, <1>3, PlacesFinite DEF Places
<1>6. PICK f : f = [i \in B |-> n + i]
    OBVIOUS
<1>7. f \in Bijection(B, C)
    <2>1. \A x, y \in B : f[x] = f[y] => x = y
        BY <1>1, <1>5, <1>6
    <2>2. f \in [B -> C] /\ \A c \in C : \E x \in B : f[x] = c
        BY <1>4, <1>6
    <2>. QED  BY <2>1, <2>2 DEF Bijection, Injection, Surjection, IsInjective
<1>8. IsFiniteSet(C) /\ Cardinality(C) = Cardinality(B)
    BY <1>5, <1>7, FS_Bijection DEF ExistsBijection
<1>9. A \cap C = {}
    BY <1>1, <1>4, <1>5
<1>10. Places(j, d) = A \cup C
    <2>1. ASSUME NEW i \in Places(j, d) PROVE i \in A \cup C
        <3>1. i \in 1 .. n + m /\ Deed(j[i]) = d
            BY <1>1 DEF Places
        <3>2. CASE i \in 1 .. n
            BY <1>1, <1>2, <3>1, <3>2 DEF Places
        <3>3. CASE i \notin 1 .. n
            <4>1. i - n \in 1 .. m /\ i = n + (i - n)
                BY <1>1, <3>1, <3>3
            <4>2. i - n \in B
                BY <1>1, <1>3, <3>1, <4>1 DEF Places
            <4>. QED  BY <1>4, <4>1, <4>2
        <3>. QED  BY <3>2, <3>3
    <2>2. ASSUME NEW i \in A PROVE i \in Places(j, d)
        <3>1. i \in 1 .. n /\ i \in 1 .. n + m /\ Deed(l[i]) = d
            BY <1>1, <1>2, <1>5 DEF Places
        <3>. QED  BY <1>1, <3>1 DEF Places
    <2>3. ASSUME NEW i \in C PROVE i \in Places(j, d)
        <3>1. PICK h \in B : i = n + h
            BY <1>4
        <3>2. h \in 1 .. m /\ i \in 1 .. n + m /\ Deed(k[h]) = d
            BY <1>1, <1>3, <1>5, <3>1 DEF Places
        <3>. QED  BY <1>1, <3>1, <3>2 DEF Places
    <2>. QED  BY <2>1, <2>2, <2>3
<1>11. Cardinality(A \cup C) = Cardinality(A) + Cardinality(C) - 0
    BY <1>5, <1>8, <1>9, FS_Union, FS_EmptySet
<1>12. Cardinality(A) \in Nat /\ Cardinality(C) \in Nat
    BY <1>5, <1>8, FS_CardinalityType
<1>. QED  BY <1>2, <1>3, <1>8, <1>10, <1>11, <1>12 DEF Tally, j

LEMMA TallyEmpty ==
    ASSUME NEW l, IsList(l), DOMAIN l = {}, NEW d
    PROVE  Tally(l, d) = 0
PROOF
<1>1. Places(l, d) = {}
    BY DEF Places
<1>. QED  BY <1>1, PlacesFinite

-----------------------------------------------------------------------------
(* The lists of the agents, joined in the order of the agents.               *)

Flat(rs) == FlattenSeq([i \in DOMAIN AgentOrder |-> rs[AgentOrder[i]]])

FlatBy(f, rs) ==
    \A i \in 1 .. Len(AgentOrder) : f[i] = IF i = 1 THEN rs[AgentOrder[i]]
                                           ELSE f[i - 1] \o rs[AgentOrder[i]]

LEMMA OrderFacts ==
    /\ Len(AgentOrder) \in Nat /\ DOMAIN AgentOrder = 1 .. Len(AgentOrder)
    /\ \A i \in 1 .. Len(AgentOrder) : AgentOrder[i] \in Agents
    /\ \A a \in Agents : \E i \in 1 .. Len(AgentOrder) : AgentOrder[i] = a
    /\ \A i, j \in 1 .. Len(AgentOrder) : i # j => AgentOrder[i] # AgentOrder[j]
PROOF
    BY EngineAssumption DEF ToSet

LEMMA FlatString ==
    ASSUME NEW rs
    PROVE  /\ Len(AgentOrder) = 0 => IsList(Flat(rs)) /\ DOMAIN Flat(rs) = {}
           /\ Len(AgentOrder) # 0 => \E f : FlatBy(f, rs) /\ Flat(rs) = f[Len(AgentOrder)]
PROOF
<1>. DEFINE seqs == [i \in DOMAIN AgentOrder |-> rs[AgentOrder[i]]]
            N == Len(AgentOrder)
            f == CHOOSE g : Strung(g, seqs, Len(seqs))
<1>0. N \in Nat /\ DOMAIN AgentOrder = 1 .. N
    BY OrderFacts
<1>1. /\ DOMAIN seqs = 1 .. N /\ \A i \in 1 .. N : seqs[i] = rs[AgentOrder[i]]
    BY <1>0
<1>2. Len(seqs) = N /\ IsList(seqs)
    <2>. DEFINE S == {rs[AgentOrder[i]] : i \in 1 .. N}
    <2>1. seqs \in [1 .. N -> S]
        BY <1>0
    <2>. HIDE DEF seqs, N, S
    <2>2. seqs \in Seq(S)
        BY <1>0, <2>1
    <2>. QED  BY <1>0, <1>1, <2>2 DEF IsList
<1>3. Flat(rs) = IF N = 0 THEN seqs ELSE f[N]
    <2>1. Flat(rs) = FlattenSeq(seqs)
        BY DEF Flat
    <2>2. FlattenSeq(seqs) = IF Len(seqs) = 0 THEN seqs ELSE f[Len(seqs)]
        BY Flattened
    <2>. QED  BY <1>2, <2>1, <2>2, Zenon
<1>. HIDE DEF seqs
<1>4. Strung(f, seqs, N)
    <2>1. \E g : Strung(g, seqs, Len(seqs))
        BY <1>0, <1>2, StringUnfolds
    <2>. QED  BY <1>2, <2>1
<1>. HIDE DEF f
<1>5. \A i \in 1 .. N : f[i] = IF i = 1 THEN seqs[i] ELSE f[i - 1] \o seqs[i]
    BY <1>4 DEF Strung
<1>6. FlatBy(f, rs)
    BY <1>1, <1>5 DEF FlatBy
<1>7. N = 0 => DOMAIN seqs = {}
    BY <1>0, <1>1
<1>. QED  BY <1>2, <1>3, <1>6, <1>7

FromOne(l, rs) == \A i \in DOMAIN l : \E a \in Agents : \E j \in DOMAIN rs[a] : l[i] = rs[a][j]

LEMMA FlatElements ==
    ASSUME NEW rs, \A a \in Agents : IsList(rs[a])
    PROVE  IsList(Flat(rs)) /\ FromOne(Flat(rs), rs)
PROOF
<1>. DEFINE N == Len(AgentOrder)
<1>0. /\ N \in Nat /\ \A i \in 1 .. N : AgentOrder[i] \in Agents
    BY OrderFacts
<1>1. CASE N = 0
    BY <1>1, FlatString DEF FromOne
<1>2. CASE N # 0
    <2>1. PICK f : FlatBy(f, rs) /\ Flat(rs) = f[N]
        BY <1>2, FlatString
    <2>. DEFINE Good(k) == IsList(f[k]) /\ FromOne(f[k], rs)
                Bad == {k \in 1 .. N : ~Good(k)}
    <2>2. \A k \in 1 .. N : f[k] = IF k = 1 THEN rs[AgentOrder[k]] ELSE f[k - 1] \o rs[AgentOrder[k]]
        BY <2>1 DEF FlatBy
    <2>. HIDE DEF N
    <2>3. ASSUME NEW k \in 1 .. N, k = 1 \/ Good(k - 1) PROVE Good(k)
        <3>. DEFINE b == AgentOrder[k]
        <3>1. b \in Agents /\ IsList(rs[b]) /\ FromOne(rs[b], rs)
            BY <1>0 DEF FromOne
        <3>2. CASE k = 1
            BY <2>2, <3>1, <3>2
        <3>3. CASE k # 1
            <4>. DEFINE g == f[k - 1]
                        h == rs[b]
            <4>1. f[k] = g \o h
                BY <2>2, <3>3
            <4>2. IsList(g) /\ FromOne(g, rs)
                BY <2>3, <3>3
            <4>. HIDE DEF g
            <4>3. /\ IsList(g \o h) /\ Len(g) \in Nat /\ Len(h) \in Nat
                  /\ DOMAIN g = 1 .. Len(g) /\ DOMAIN h = 1 .. Len(h)
                  /\ DOMAIN (g \o h) = 1 .. Len(g) + Len(h)
                  /\ \A i \in 1 .. Len(g) : (g \o h)[i] = g[i]
                  /\ \A i \in 1 .. Len(h) : (g \o h)[Len(g) + i] = h[i]
                BY <3>1, <4>2, ListDomain, ListJoin
            <4>4. ASSUME NEW i \in DOMAIN (g \o h)
                  PROVE  \E a \in Agents : \E j \in DOMAIN rs[a] : (g \o h)[i] = rs[a][j]
                <5>1. CASE i \in 1 .. Len(g)
                    BY <4>2, <4>3, <5>1 DEF FromOne
                <5>2. CASE i \notin 1 .. Len(g)
                    <6>1. i - Len(g) \in 1 .. Len(h) /\ i = Len(g) + (i - Len(g))
                        BY <4>3, <5>2
                    <6>2. (g \o h)[i] = h[i - Len(g)]
                        BY <4>3, <6>1
                    <6>. QED  BY <3>1, <4>3, <6>1, <6>2
                <5>. QED  BY <5>1, <5>2
            <4>5. FromOne(g \o h, rs)
                BY <4>4 DEF FromOne
            <4>. QED  BY <4>1, <4>3, <4>5
        <3>. QED  BY <3>2, <3>3
    <2>. HIDE DEF Good
    <2>4. ASSUME NEW k \in Bad PROVE \E j \in Bad : j < k
        <3>1. k \in 1 .. N /\ k # 1
            BY <2>3
        <3>2. k - 1 \in 1 .. N /\ k - 1 < k
            BY <1>0, <3>1
        <3>. QED  BY <2>3, <3>1, <3>2
    <2>5. Bad = {}
        <3>1. Bad \in SUBSET Nat
            BY <1>0
        <3>. HIDE DEF Bad
        <3>. QED  BY <2>4, <3>1, Descent
    <2>6. N \in 1 .. N
        BY <1>0, <1>2
    <2>7. Good(N)
        BY <2>5, <2>6
    <2>. QED  BY <2>1, <2>7 DEF Good
<1>. QED  BY <1>1, <1>2

\* When an agent that had none gets records, the joined list tells of these in addition.
LEMMA FlatTallies ==
    ASSUME NEW rs, NEW rt, NEW a \in Agents, \A b \in Agents : IsList(rs[b]) /\ IsList(rt[b]),
           rs[a] = <<>>, \A b \in Agents \ {a} : rt[b] = rs[b], NEW d
    PROVE  Tally(Flat(rt), d) = Tally(Flat(rs), d) + Tally(rt[a], d)
PROOF
<1>. DEFINE N == Len(AgentOrder)
<1>0. /\ N \in Nat /\ \A i \in 1 .. N : AgentOrder[i] \in Agents
      /\ \A i, j \in 1 .. N : i # j => AgentOrder[i] # AgentOrder[j]
    BY OrderFacts
<1>1. PICK p \in 1 .. N : AgentOrder[p] = a
    BY OrderFacts
<1>2. N # 0
    BY <1>0, <1>1
<1>3. PICK f : FlatBy(f, rs) /\ Flat(rs) = f[N]
    BY <1>2, FlatString
<1>4. PICK g : FlatBy(g, rt) /\ Flat(rt) = g[N]
    BY <1>2, FlatString
<1>5. \A k \in 1 .. N : /\ f[k] = IF k = 1 THEN rs[AgentOrder[k]] ELSE f[k - 1] \o rs[AgentOrder[k]]
                        /\ g[k] = IF k = 1 THEN rt[AgentOrder[k]] ELSE g[k - 1] \o rt[AgentOrder[k]]
    BY <1>3, <1>4 DEF FlatBy
<1>. HIDE DEF N
<1>. DEFINE more == Tally(rt[a], d)
            Good(k) == /\ IsList(f[k]) /\ IsList(g[k]) /\ Tally(f[k], d) \in Nat
                       /\ Tally(g[k], d) = Tally(f[k], d) + (IF p <= k THEN more ELSE 0)
            Bad == {k \in 1 .. N : ~Good(k)}
<1>6. more \in Nat /\ Tally(rs[a], d) = 0
    <2>1. DOMAIN <<>> = {}
        OBVIOUS
    <2>. QED  BY <2>1, PlacesFinite, TallyEmpty
<1>7. ASSUME NEW k \in 1 .. N
      PROVE  /\ IsList(rs[AgentOrder[k]]) /\ IsList(rt[AgentOrder[k]])
             /\ Tally(rs[AgentOrder[k]], d) \in Nat
             /\ Tally(rt[AgentOrder[k]], d) = Tally(rs[AgentOrder[k]], d) + (IF p = k THEN more ELSE 0)
    <2>1. AgentOrder[k] \in Agents /\ (AgentOrder[k] = a <=> p = k)
        BY <1>0, <1>1
    <2>2. IsList(rs[AgentOrder[k]]) /\ IsList(rt[AgentOrder[k]]) /\ Tally(rs[AgentOrder[k]], d) \in Nat
        BY <2>1, PlacesFinite
    <2>3. CASE p = k
        BY <1>1, <1>6, <2>2, <2>3
    <2>4. CASE p # k
        <3>1. rt[AgentOrder[k]] = rs[AgentOrder[k]]
            BY <2>1, <2>4
        <3>. QED  BY <2>2, <2>4, <3>1
    <2>. QED  BY <2>2, <2>3, <2>4
<1>. HIDE DEF more
<1>8. ASSUME NEW k \in 1 .. N, k = 1 \/ Good(k - 1) PROVE Good(k)
    <2>. DEFINE u == rs[AgentOrder[k]]
                v == rt[AgentOrder[k]]
    <2>1. /\ IsList(u) /\ IsList(v) /\ Tally(u, d) \in Nat
          /\ Tally(v, d) = Tally(u, d) + (IF p = k THEN more ELSE 0)
        BY <1>7
    <2>2. CASE k = 1
        <3>1. f[k] = u /\ g[k] = v
            BY <1>5, <2>2
        <3>2. p = k <=> p <= k
            BY <2>2
        <3>. QED  BY <2>1, <3>1, <3>2
    <2>3. CASE k # 1
        <3>1. f[k] = f[k - 1] \o u /\ g[k] = g[k - 1] \o v
            BY <1>5, <2>3
        <3>. HIDE DEF u, v
        <3>2. /\ IsList(f[k - 1]) /\ IsList(g[k - 1]) /\ Tally(f[k - 1], d) \in Nat
              /\ Tally(g[k - 1], d) = Tally(f[k - 1], d) + (IF p <= k - 1 THEN more ELSE 0)
            BY <1>8, <2>3
        <3>3. /\ Tally(f[k], d) = Tally(f[k - 1], d) + Tally(u, d)
              /\ Tally(g[k], d) = Tally(g[k - 1], d) + Tally(v, d)
              /\ IsList(f[k]) /\ IsList(g[k])
            BY <2>1, <3>1, <3>2, TallyJoined, ListJoin
        <3>4. /\ p = k => p <= k /\ ~(p <= k - 1)
              /\ p # k => (p <= k <=> p <= k - 1)
            BY <1>0
        <3>. QED  BY <1>6, <2>1, <3>2, <3>3, <3>4
    <2>. QED  BY <2>2, <2>3
<1>. HIDE DEF Good
<1>9. ASSUME NEW k \in Bad PROVE \E j \in Bad : j < k
    <2>1. k \in 1 .. N /\ k # 1
        BY <1>8
    <2>2. k - 1 \in 1 .. N /\ k - 1 < k
        BY <1>0, <2>1
    <2>. QED  BY <1>8, <2>1, <2>2
<1>10. Bad = {}
    <2>1. Bad \in SUBSET Nat
        BY <1>0
    <2>. HIDE DEF Bad
    <2>. QED  BY <1>9, <2>1, Descent
<1>11. N \in 1 .. N /\ p <= N
    BY <1>0, <1>1
<1>12. Good(N)
    BY <1>10, <1>11
<1>. QED  BY <1>3, <1>4, <1>11, <1>12 DEF Good, more

-----------------------------------------------------------------------------
(* What the social platform holds, told by a list of records.                *)

NoDeed == <<"none", 0, 0, 0>>

LEMMA DeedFacts ==
    /\ \A a, p, n, b, q, m : WroteDeed(a, p, n) = WroteDeed(b, q, m) <=> a = b /\ p = q /\ n = m
    /\ \A a, p, n, b, q, m : RepliedDeed(a, p, n) = RepliedDeed(b, q, m) <=> a = b /\ p = q /\ n = m
    /\ \A a, p, b, q : VotedDeed(a, p) = VotedDeed(b, q) <=> a = b /\ p = q
    /\ \A p, q : SharedDeed(p) = SharedDeed(q) <=> p = q
    /\ \A a, p, b, q : FollowedDeed(a, p) = FollowedDeed(b, q) <=> a = b /\ p = q
PROOF
    BY DEF WroteDeed, RepliedDeed, VotedDeed, SharedDeed, FollowedDeed

Kind(d) == d[1]

LEMMA DeedKinds ==
    /\ \A a, p, n : Kind(WroteDeed(a, p, n)) = "create_post"
    /\ \A a, p, n : Kind(RepliedDeed(a, p, n)) = "reply"
    /\ \A a, p : Kind(VotedDeed(a, p)) = "vote"
    /\ \A p : Kind(SharedDeed(p)) = "repost"
    /\ \A a, p : Kind(FollowedDeed(a, p)) = "follow"
    /\ Kind(NoDeed) = "none"
PROOF
    BY DEF WroteDeed, RepliedDeed, VotedDeed, SharedDeed, FollowedDeed, NoDeed, Kind

WritesTold(s, l) ==
    \A a, p, n : Tally(l, WroteDeed(a, p, n))
        = IF /\ p \in DOMAIN s.posts /\ s.posts[p].parent = NoPost
             /\ s.posts[p].author = a /\ s.posts[p].created = n THEN 1 ELSE 0

RepliesTold(s, l) ==
    \A a, p, q : Tally(l, RepliedDeed(a, p, q))
        = IF /\ p \in DOMAIN s.posts /\ s.posts[p].parent = q /\ q # NoPost
             /\ s.posts[p].author = a THEN 1 ELSE 0

VotesTold(s, l) ==
    \A a, p : Tally(l, VotedDeed(a, p))
        = IF p \in DOMAIN s.posts /\ a \in s.posts[p].voters THEN 1 ELSE 0

SharesTold(s, l) ==
    \A p : Tally(l, SharedDeed(p)) = IF p \in DOMAIN s.posts THEN s.posts[p].reposts ELSE 0

FollowsTold(s, l) ==
    \A a, b : Tally(l, FollowedDeed(a, b)) > 0 <=> a \in Agents /\ b \in s.follows[a]

Told(s, l) ==
    /\ WritesTold(s, l) /\ RepliesTold(s, l) /\ VotesTold(s, l)
    /\ SharesTold(s, l) /\ FollowsTold(s, l)

Adds(l, k, d) ==
    \A e : Tally(l, e) \in Nat /\ Tally(k, e) = Tally(l, e) + (IF d = e THEN 1 ELSE 0)

\* A list that tells of the same, and posts alike but for what no tally tells.
LEMMA ToldAlike ==
    ASSUME NEW s, NEW t, NEW l, NEW k, Told(s, l), \A e : Tally(k, e) = Tally(l, e),
           t.posts = s.posts, t.follows = s.follows
    PROVE  Told(t, k)
PROOF
    BY DEF Told, WritesTold, RepliesTold, VotesTold, SharesTold, FollowsTold

\* A deed of one kind changes the tallies of that kind only.
LEMMA OtherKinds ==
    ASSUME NEW l, NEW k, NEW d, Adds(l, k, d), NEW e, Kind(e) # Kind(d)
    PROVE  Tally(k, e) = Tally(l, e)
PROOF
    BY DEF Adds

LEMMA ToldWritten ==
    ASSUME NEW s, NEW t, NEW l, NEW k, NEW d, NEW a, NEW p, Told(s, l), Adds(l, k, d),
           p \notin DOMAIN s.posts, DOMAIN t.posts = DOMAIN s.posts \cup {p},
           \A q \in DOMAIN s.posts : t.posts[q] = s.posts[q],
           t.posts[p].author = a, t.posts[p].voters = {}, t.posts[p].reposts = 0,
           t.follows = s.follows,
           d = IF t.posts[p].parent = NoPost THEN WroteDeed(a, p, t.posts[p].created)
               ELSE RepliedDeed(a, p, t.posts[p].parent)
    PROVE  Told(t, k)
PROOF
<1>1. VotesTold(t, k) /\ SharesTold(t, k) /\ FollowsTold(t, k)
    <2>1. Kind(d) \in {"create_post", "reply"}
        BY DeedKinds
    <2>2. /\ \A b, q : Tally(k, VotedDeed(b, q)) = Tally(l, VotedDeed(b, q))
          /\ \A q : Tally(k, SharedDeed(q)) = Tally(l, SharedDeed(q))
          /\ \A b, q : Tally(k, FollowedDeed(b, q)) = Tally(l, FollowedDeed(b, q))
        BY <2>1, DeedKinds, OtherKinds
    <2>3. VotesTold(t, k)
        BY <2>2 DEF Told, VotesTold
    <2>4. SharesTold(t, k)
        BY <2>2 DEF Told, SharesTold
    <2>5. FollowsTold(t, k)
        BY <2>2 DEF Told, FollowsTold
    <2>. QED  BY <2>3, <2>4, <2>5
<1>2. CASE t.posts[p].parent = NoPost
    <2>1. d = WroteDeed(a, p, t.posts[p].created)
        BY <1>2
    <2>2. \A b, q, m : Tally(k, RepliedDeed(b, q, m)) = Tally(l, RepliedDeed(b, q, m))
        BY <2>1, DeedKinds, OtherKinds
    <2>3. RepliesTold(t, k)
        BY <1>2, <2>2 DEF Told, RepliesTold
    <2>4. ASSUME NEW b, NEW q, NEW m
          PROVE  Tally(k, WroteDeed(b, q, m))
                    = IF /\ q \in DOMAIN t.posts /\ t.posts[q].parent = NoPost
                         /\ t.posts[q].author = b /\ t.posts[q].created = m THEN 1 ELSE 0
        <3>1. /\ Tally(k, WroteDeed(b, q, m))
                   = Tally(l, WroteDeed(b, q, m)) + (IF d = WroteDeed(b, q, m) THEN 1 ELSE 0)
              /\ Tally(l, WroteDeed(b, q, m))
                   = IF /\ q \in DOMAIN s.posts /\ s.posts[q].parent = NoPost
                        /\ s.posts[q].author = b /\ s.posts[q].created = m THEN 1 ELSE 0
            BY DEF Adds, Told, WritesTold
        <3>2. d = WroteDeed(b, q, m) <=> a = b /\ p = q /\ t.posts[p].created = m
            BY <2>1, DeedFacts
        <3>. QED  BY <1>2, <3>1, <3>2
    <2>5. WritesTold(t, k)
        BY <2>4 DEF WritesTold
    <2>. QED  BY <1>1, <2>3, <2>5 DEF Told
<1>3. CASE t.posts[p].parent # NoPost
    <2>1. d = RepliedDeed(a, p, t.posts[p].parent)
        BY <1>3
    <2>2. \A b, q, m : Tally(k, WroteDeed(b, q, m)) = Tally(l, WroteDeed(b, q, m))
        BY <2>1, DeedKinds, OtherKinds
    <2>3. WritesTold(t, k)
        BY <1>3, <2>2 DEF Told, WritesTold
    <2>4. ASSUME NEW b, NEW q, NEW m
          PROVE  Tally(k, RepliedDeed(b, q, m))
                    = IF /\ q \in DOMAIN t.posts /\ t.posts[q].parent = m /\ m # NoPost
                         /\ t.posts[q].author = b THEN 1 ELSE 0
        <3>1. /\ Tally(k, RepliedDeed(b, q, m))
                   = Tally(l, RepliedDeed(b, q, m)) + (IF d = RepliedDeed(b, q, m) THEN 1 ELSE 0)
              /\ Tally(l, RepliedDeed(b, q, m))
                   = IF /\ q \in DOMAIN s.posts /\ s.posts[q].parent = m /\ m # NoPost
                        /\ s.posts[q].author = b THEN 1 ELSE 0
            BY DEF Adds, Told, RepliesTold
        <3>2. d = RepliedDeed(b, q, m) <=> a = b /\ p = q /\ t.posts[p].parent = m
            BY <2>1, DeedFacts
        <3>. QED  BY <1>3, <3>1, <3>2
    <2>5. RepliesTold(t, k)
        BY <2>4 DEF RepliesTold
    <2>. QED  BY <1>1, <2>3, <2>5 DEF Told
<1>. QED  BY <1>2, <1>3

LEMMA ToldNothing ==
    ASSUME NEW s, NEW l, NEW k, Told(s, l), Adds(l, k, NoDeed)
    PROVE  Told(s, k)
PROOF
<1>1. /\ \A a, p, n : Tally(k, WroteDeed(a, p, n)) = Tally(l, WroteDeed(a, p, n))
      /\ \A a, p, n : Tally(k, RepliedDeed(a, p, n)) = Tally(l, RepliedDeed(a, p, n))
      /\ \A a, p : Tally(k, VotedDeed(a, p)) = Tally(l, VotedDeed(a, p))
      /\ \A p : Tally(k, SharedDeed(p)) = Tally(l, SharedDeed(p))
      /\ \A a, p : Tally(k, FollowedDeed(a, p)) = Tally(l, FollowedDeed(a, p))
    BY DeedKinds, OtherKinds
<1>. QED  BY <1>1 DEF Told, WritesTold, RepliesTold, VotesTold, SharesTold, FollowsTold

\* Two states of the platform with the same posts, up to votes and reposts.
SamePosts(s, t) ==
    /\ DOMAIN t.posts = DOMAIN s.posts
    /\ \A q \in DOMAIN s.posts : /\ t.posts[q].parent = s.posts[q].parent
                                 /\ t.posts[q].author = s.posts[q].author
                                 /\ t.posts[q].created = s.posts[q].created

LEMMA ToldWrites ==
    ASSUME NEW s, NEW t, NEW l, NEW k, NEW d, Told(s, l), Adds(l, k, d), SamePosts(s, t),
           Kind(d) \notin {"create_post", "reply"}
    PROVE  WritesTold(t, k) /\ RepliesTold(t, k)
PROOF
<1>1. /\ \A b, q, m : Tally(k, WroteDeed(b, q, m)) = Tally(l, WroteDeed(b, q, m))
      /\ \A b, q, m : Tally(k, RepliedDeed(b, q, m)) = Tally(l, RepliedDeed(b, q, m))
    BY DeedKinds, OtherKinds
<1>2. WritesTold(t, k)
    BY <1>1 DEF Told, WritesTold, SamePosts
<1>3. RepliesTold(t, k)
    BY <1>1 DEF Told, RepliesTold, SamePosts
<1>. QED  BY <1>2, <1>3

Plus(S, x) == S \cup {x}

LEMMA ToldVote ==
    ASSUME NEW s, NEW t, NEW l, NEW k, NEW a, NEW p \in DOMAIN s.posts, Told(s, l),
           Adds(l, k, VotedDeed(a, p)), SamePosts(s, t), t.follows = s.follows,
           a \notin s.posts[p].voters,
           \A q \in DOMAIN s.posts :
              /\ t.posts[q].reposts = s.posts[q].reposts
              /\ t.posts[q].voters = IF q = p THEN Plus(s.posts[q].voters, a) ELSE s.posts[q].voters
    PROVE  Told(t, k)
PROOF
<1>. DEFINE d == VotedDeed(a, p)
<1>1. Kind(d) = "vote"
    BY DeedKinds
<1>. HIDE DEF d
<1>2. Adds(l, k, d)
    BY DEF d
<1>3. WritesTold(t, k) /\ RepliesTold(t, k)
    BY <1>1, <1>2, ToldWrites
<1>4. /\ \A q : Tally(k, SharedDeed(q)) = Tally(l, SharedDeed(q))
      /\ \A b, q : Tally(k, FollowedDeed(b, q)) = Tally(l, FollowedDeed(b, q))
    BY <1>1, <1>2, DeedKinds, OtherKinds
<1>5. SharesTold(t, k)
    BY <1>4 DEF Told, SharesTold, SamePosts
<1>6. FollowsTold(t, k)
    BY <1>4 DEF Told, FollowsTold
<1>7. ASSUME NEW b, NEW q
      PROVE  Tally(k, VotedDeed(b, q))
                = IF q \in DOMAIN t.posts /\ b \in t.posts[q].voters THEN 1 ELSE 0
    <2>1. /\ Tally(k, VotedDeed(b, q)) = Tally(l, VotedDeed(b, q)) + (IF d = VotedDeed(b, q) THEN 1 ELSE 0)
          /\ Tally(l, VotedDeed(b, q))
               = IF q \in DOMAIN s.posts /\ b \in s.posts[q].voters THEN 1 ELSE 0
        BY <1>2 DEF Adds, Told, VotesTold
    <2>2. d = VotedDeed(b, q) <=> a = b /\ p = q
        BY DeedFacts DEF d
    <2>3. DOMAIN t.posts = DOMAIN s.posts
        BY DEF SamePosts
    <2>4. CASE q = p
        <3>1. t.posts[q].voters = s.posts[p].voters \cup {a} /\ q \in DOMAIN s.posts
            BY <2>4 DEF Plus
        <3>2. b \in t.posts[q].voters <=> b = a \/ b \in s.posts[p].voters
            BY <3>1
        <3>. QED  BY <2>1, <2>2, <2>3, <2>4, <3>1, <3>2
    <2>5. CASE q # p
        <3>1. q \in DOMAIN s.posts => t.posts[q].voters = s.posts[q].voters
            BY <2>5
        <3>. QED  BY <2>1, <2>2, <2>3, <2>5, <3>1
    <2>. QED  BY <2>4, <2>5
<1>8. VotesTold(t, k)
    BY <1>7 DEF VotesTold
<1>. QED  BY <1>3, <1>5, <1>6, <1>8 DEF Told

LEMMA ToldShare ==
    ASSUME NEW s, NEW t, NEW l, NEW k, NEW p \in DOMAIN s.posts, Told(s, l),
           Adds(l, k, SharedDeed(p)), SamePosts(s, t), t.follows = s.follows,
           \A q \in DOMAIN s.posts :
              /\ t.posts[q].voters = s.posts[q].voters
              /\ t.posts[q].reposts = IF q = p THEN s.posts[q].reposts + 1 ELSE s.posts[q].reposts
    PROVE  Told(t, k)
PROOF
<1>. DEFINE d == SharedDeed(p)
<1>1. Kind(d) = "repost"
    BY DeedKinds
<1>. HIDE DEF d
<1>2. Adds(l, k, d)
    BY DEF d
<1>3. WritesTold(t, k) /\ RepliesTold(t, k)
    BY <1>1, <1>2, ToldWrites
<1>4. /\ \A b, q : Tally(k, VotedDeed(b, q)) = Tally(l, VotedDeed(b, q))
      /\ \A b, q : Tally(k, FollowedDeed(b, q)) = Tally(l, FollowedDeed(b, q))
    BY <1>1, <1>2, DeedKinds, OtherKinds
<1>5. VotesTold(t, k)
    BY <1>4 DEF Told, VotesTold, SamePosts
<1>6. FollowsTold(t, k)
    BY <1>4 DEF Told, FollowsTold
<1>7. ASSUME NEW q
      PROVE  Tally(k, SharedDeed(q)) = IF q \in DOMAIN t.posts THEN t.posts[q].reposts ELSE 0
    <2>1. /\ Tally(k, SharedDeed(q)) = Tally(l, SharedDeed(q)) + (IF d = SharedDeed(q) THEN 1 ELSE 0)
          /\ Tally(l, SharedDeed(q)) = IF q \in DOMAIN s.posts THEN s.posts[q].reposts ELSE 0
          /\ Tally(l, SharedDeed(q)) \in Nat
        BY <1>2 DEF Adds, Told, SharesTold
    <2>2. d = SharedDeed(q) <=> p = q
        BY DeedFacts DEF d
    <2>. QED  BY <2>1, <2>2 DEF SamePosts
<1>8. SharesTold(t, k)
    BY <1>7 DEF SharesTold
<1>. QED  BY <1>3, <1>5, <1>6, <1>8 DEF Told

LEMMA ToldFollow ==
    ASSUME NEW s, NEW t, NEW l, NEW k, NEW a \in Agents, NEW b, Told(s, l),
           Adds(l, k, FollowedDeed(a, b)), t.posts = s.posts,
           \A c \in Agents : t.follows[c] = IF c = a THEN Plus(s.follows[c], b) ELSE s.follows[c]
    PROVE  Told(t, k)
PROOF
<1>. DEFINE d == FollowedDeed(a, b)
<1>1. Kind(d) = "follow"
    BY DeedKinds
<1>. HIDE DEF d
<1>2. Adds(l, k, d)
    BY DEF d
<1>3. WritesTold(t, k) /\ RepliesTold(t, k)
    BY <1>1, <1>2, ToldWrites DEF SamePosts
<1>4. /\ \A c, q : Tally(k, VotedDeed(c, q)) = Tally(l, VotedDeed(c, q))
      /\ \A q : Tally(k, SharedDeed(q)) = Tally(l, SharedDeed(q))
    BY <1>1, <1>2, DeedKinds, OtherKinds
<1>5. VotesTold(t, k)
    BY <1>4 DEF Told, VotesTold
<1>6. SharesTold(t, k)
    BY <1>4 DEF Told, SharesTold
<1>7. ASSUME NEW c, NEW q
      PROVE  Tally(k, FollowedDeed(c, q)) > 0 <=> c \in Agents /\ q \in t.follows[c]
    <2>1. /\ Tally(k, FollowedDeed(c, q)) = Tally(l, FollowedDeed(c, q)) + (IF d = FollowedDeed(c, q) THEN 1 ELSE 0)
          /\ Tally(l, FollowedDeed(c, q)) > 0 <=> c \in Agents /\ q \in s.follows[c]
          /\ Tally(l, FollowedDeed(c, q)) \in Nat
        BY <1>2 DEF Adds, Told, FollowsTold
    <2>2. d = FollowedDeed(c, q) <=> a = c /\ b = q
        BY DeedFacts DEF d
    <2>3. c \in Agents => (q \in t.follows[c] <=> q \in s.follows[c] \/ (c = a /\ q = b))
        <3>1. c \in Agents => t.follows[c] = IF c = a THEN s.follows[c] \cup {b} ELSE s.follows[c]
            BY DEF Plus
        <3>. QED  BY <3>1
    <2>4. Tally(k, FollowedDeed(c, q)) > 0 <=> Tally(l, FollowedDeed(c, q)) > 0 \/ (a = c /\ b = q)
        BY <2>1, <2>2
    <2>. QED  BY <2>1, <2>3, <2>4
<1>8. FollowsTold(t, k)
    BY <1>7 DEF FollowsTold
<1>. QED  BY <1>3, <1>5, <1>6, <1>8 DEF Told

\* A call to the platform is told by its record.
LEMMA SocialTold ==
    ASSUME NEW s, SocialOK(s), NEW a \in Agents, NEW c, CallOK(c),
           NEW out, out = SocialExecute(s, a, c),
           NEW r, r.agent = a, r.type = c.name, r.args = c, r.success = out.success,
           r.data = out.data, r.round - 1 = s.round,
           NEW l, NEW k, Told(s, l), Adds(l, k, Deed(r))
    PROVE  Told(out.env, k) /\ out.env.round = s.round
PROOF
<1>0. /\ s \in SocialState /\ s.posts \in Seq(Post) /\ s.round \in Nat
    BY DEF SocialOK, SocialState
<1>9. out.env.round = s.round
    BY SocialHandler
<1>1. ASSUME NEW text \in Texts, NEW parent \in Nat,
             out = Written(s, a, text, parent),
             c.name \in {"create_post", "reply"}, c.name = "create_post" <=> parent = NoPost,
             c.name = "reply" => c.post = parent
      PROVE  Told(out.env, k)
    <2>. DEFINE new == NewPost(a, text, parent, s.round)
                posts == Append(s.posts, new)
                p == Len(s.posts) + 1
    <2>1. /\ new \in Post /\ new.parent = parent /\ new.created = s.round /\ new.author = a
          /\ new.voters = {} /\ new.reposts = 0
        BY <1>0 DEF NewPost, Post
    <2>. HIDE DEF new
    <2>2. /\ DOMAIN posts = DOMAIN s.posts \cup {p} /\ p \notin DOMAIN s.posts
          /\ \A q \in DOMAIN s.posts : posts[q] = s.posts[q]
          /\ posts[p] = new
        BY <1>0, <2>1
    <2>3. out.env = [s EXCEPT !.posts = posts] /\ out.data.post = p /\ out.success
        BY <1>1 DEF Written, Done, NoData, new
    <2>. HIDE DEF posts, p
    <2>4. out.env.posts = posts /\ out.env.follows = s.follows
        BY <1>0, <2>3 DEF SocialState
    <2>5. Deed(r) = IF parent = NoPost THEN WroteDeed(a, p, s.round) ELSE RepliedDeed(a, p, parent)
        BY <1>1, <2>3 DEF Deed
    <2>. QED  BY <2>1, <2>2, <2>4, <2>5, ToldWritten
<1>2. CASE c.name = "create_post"
    <2>1. out = Written(s, a, c.text, NoPost) /\ c.text \in Texts
        BY <1>2 DEF SocialExecute, CreatePost, CallOK
    <2>2. NoPost \in Nat
        BY DEF NoPost
    <2>3. Told(out.env, k)
        BY <1>1, <1>2, <2>1, <2>2
    <2>. QED  BY <1>9, <2>3
<1>3. CASE c.name = "reply" /\ Exists(s, c.post)
    <2>1. out = Written(s, a, c.text, c.post) /\ c.text \in Texts
        BY <1>3 DEF SocialExecute, Reply, CallOK
    <2>2. c.post \in Nat /\ c.post # NoPost
        BY <1>0, <1>3 DEF Exists, NoPost
    <2>. QED  BY <1>9, <1>1, <1>3, <2>1, <2>2
<1>4. ASSUME NEW q \in DOMAIN s.posts, NEW p, NEW t, t = out.env, t = [s EXCEPT !.posts = [@ EXCEPT ![q] = p]],
             p.parent = s.posts[q].parent, p.author = s.posts[q].author,
             p.created = s.posts[q].created
      PROVE  /\ SamePosts(s, t) /\ t.follows = s.follows
             /\ \A i \in DOMAIN s.posts : t.posts[i] = IF i = q THEN p ELSE s.posts[i]
    <2>. DEFINE posts == [s.posts EXCEPT ![q] = p]
    <2>1. /\ DOMAIN posts = DOMAIN s.posts
          /\ \A i \in DOMAIN s.posts : posts[i] = IF i = q THEN p ELSE s.posts[i]
        BY <1>0
    <2>2. t = [s EXCEPT !.posts = posts]
        BY <1>4
    <2>. HIDE DEF posts
    <2>3. t.posts = posts /\ t.follows = s.follows
        BY <1>0, <2>2 DEF SocialState
    <2>. QED  BY <1>4, <2>1, <2>3 DEF SamePosts
<1>5. CASE c.name = "vote" /\ Exists(s, c.post) /\ a \notin s.posts[c.post].voters
    <2>. DEFINE p == WithVote(s.posts[c.post], a, VoteValue(c) > 0)
    <2>1. s.posts[c.post] \in Post /\ c.post \in DOMAIN s.posts
        BY <1>0, <1>5 DEF Exists
    <2>2. /\ p.parent = s.posts[c.post].parent /\ p.created = s.posts[c.post].created
          /\ p.author = s.posts[c.post].author /\ p.reposts = s.posts[c.post].reposts
          /\ p.voters = s.posts[c.post].voters \cup {a}
        BY <2>1 DEF WithVote, Post
    <2>3. out.env = [s EXCEPT !.posts[c.post] = p] /\ out.success
        BY <1>5 DEF SocialExecute, Vote, Voted, Done
    <2>. HIDE DEF p
    <2>4. out.env = [s EXCEPT !.posts = [@ EXCEPT ![c.post] = p]]
        BY <1>0, <2>1, <2>3 DEF SocialState
    <2>5. Deed(r) = VotedDeed(a, c.post)
        BY <1>5, <2>3 DEF Deed
    <2>6. /\ SamePosts(s, out.env) /\ out.env.follows = s.follows
          /\ \A i \in DOMAIN s.posts : out.env.posts[i] = IF i = c.post THEN p ELSE s.posts[i]
        BY <1>4, <2>1, <2>2, <2>4
    <2>7. Adds(l, k, VotedDeed(a, c.post))
        BY <2>5
    <2>8. \A q \in DOMAIN s.posts :
             /\ out.env.posts[q].reposts = s.posts[q].reposts
             /\ out.env.posts[q].voters = IF q = c.post THEN Plus(s.posts[q].voters, a)
                                          ELSE s.posts[q].voters
        BY <2>2, <2>6 DEF Plus
    <2>9. a \notin s.posts[c.post].voters
        BY <1>5
    <2>10. PICK t : t = out.env
        OBVIOUS
    <2>11. PICK p1 : p1 = c.post
        OBVIOUS
    <2>12. /\ p1 \in DOMAIN s.posts /\ Adds(l, k, VotedDeed(a, p1)) /\ SamePosts(s, t)
           /\ t.follows = s.follows /\ a \notin s.posts[p1].voters
           /\ \A q \in DOMAIN s.posts :
                /\ t.posts[q].reposts = s.posts[q].reposts
                /\ t.posts[q].voters = IF q = p1 THEN Plus(s.posts[q].voters, a) ELSE s.posts[q].voters
        BY <2>1, <2>6, <2>7, <2>8, <2>9, <2>10, <2>11
    <2>13. Told(t, k)
        BY <2>12, ToldVote
    <2>. QED  BY <1>9, <2>10, <2>13
<1>6. CASE c.name = "repost" /\ Exists(s, c.post)
    <2>. DEFINE p == [s.posts[c.post] EXCEPT !.reposts = @ + 1]
    <2>1. s.posts[c.post] \in Post /\ c.post \in DOMAIN s.posts
        BY <1>0, <1>6 DEF Exists
    <2>2. /\ p.parent = s.posts[c.post].parent /\ p.created = s.posts[c.post].created
          /\ p.author = s.posts[c.post].author /\ p.voters = s.posts[c.post].voters
          /\ p.reposts = s.posts[c.post].reposts + 1
        BY <2>1 DEF Post
    <2>3. out.env = [s EXCEPT !.posts = [@ EXCEPT ![c.post] = p]] /\ out.success
        BY <1>0, <1>6, <2>1 DEF SocialExecute, Repost, Done, SocialState, Post
    <2>. HIDE DEF p
    <2>5. Deed(r) = SharedDeed(c.post)
        BY <1>6, <2>3 DEF Deed
    <2>6. /\ SamePosts(s, out.env) /\ out.env.follows = s.follows
          /\ \A i \in DOMAIN s.posts : out.env.posts[i] = IF i = c.post THEN p ELSE s.posts[i]
        BY <1>4, <2>1, <2>2, <2>3
    <2>7. Adds(l, k, SharedDeed(c.post))
        BY <2>5
    <2>8. \A q \in DOMAIN s.posts :
             /\ out.env.posts[q].voters = s.posts[q].voters
             /\ out.env.posts[q].reposts = IF q = c.post THEN s.posts[q].reposts + 1
                                           ELSE s.posts[q].reposts
        BY <2>2, <2>6
    <2>. QED  BY <1>9, <2>1, <2>6, <2>7, <2>8, ToldShare
<1>7. CASE c.name = "follow"
    <2>1. /\ out.env = [s EXCEPT !.follows[a] = @ \cup {c.agent}] /\ c.agent \in Targets
          /\ out.success
        BY <1>7 DEF SocialExecute, Follow, Done, CallOK
    <2>. DEFINE follows == [s.follows EXCEPT ![a] = @ \cup {c.agent}]
    <2>3. \A b \in Agents : follows[b] = IF b = a THEN s.follows[b] \cup {c.agent} ELSE s.follows[b]
        BY <1>0, <2>1 DEF SocialState
    <2>4. out.env = [s EXCEPT !.follows = follows]
        BY <1>0, <2>1 DEF SocialState
    <2>. HIDE DEF follows
    <2>5. out.env.posts = s.posts /\ out.env.follows = follows
        BY <1>0, <2>4 DEF SocialState
    <2>6. Deed(r) = FollowedDeed(a, c.agent)
        BY <1>7, <2>1 DEF Deed
    <2>7. Adds(l, k, FollowedDeed(a, c.agent))
        BY <2>6
    <2>8. \A b \in Agents : out.env.follows[b]
                              = IF b = a THEN Plus(s.follows[b], c.agent) ELSE s.follows[b]
        BY <2>3, <2>5 DEF Plus
    <2>9. Told(out.env, k)
        BY <2>5, <2>7, <2>8, ToldFollow
    <2>. QED  BY <1>9, <2>9
<1>8. CASE \/ c.name \notin {"create_post", "reply", "vote", "repost", "follow"}
           \/ c.name \in {"reply", "repost"} /\ ~Exists(s, c.post)
           \/ c.name = "vote" /\ ~(Exists(s, c.post) /\ a \notin s.posts[c.post].voters)
    <2>1. out.env = s /\ (out.success => c.name \notin {"create_post", "reply", "vote", "repost", "follow"})
        BY <1>8 DEF SocialExecute, Reply, Vote, Repost, Done, Refused
    <2>2. Deed(r) = NoDeed
        BY <2>1 DEF Deed, NoDeed
    <2>. QED  BY <1>9, <2>1, <2>2, ToldNothing
<1>10. Told(out.env, k)
    BY <1>2, <1>3, <1>5, <1>6, <1>7, <1>8
<1>. QED  BY <1>9, <1>10

-----------------------------------------------------------------------------
(* Reports: what every record says, and what the records of a run tell.      *)

PostTools == {"create_post", "reply", "vote", "repost", "follow"}

Fine(r, names) ==
    /\ r.agent \in Agents /\ r.round \in Nat \ {0}
    /\ r.type \in {"vote", "reply", "repost"} => "post" \in DOMAIN r.args /\ "agent" \notin DOMAIN r.args
    /\ r.type = "follow" => "agent" \in DOMAIN r.args /\ "post" \notin DOMAIN r.args
    /\ "social" \in names /\ r.type = "create_post" => r.success
    /\ "social" \in names /\ r.type \in {"reply", "repost"} => r.success \/ r.args.post = NoPost

AllFine(l, names) == IsList(l) /\ \A i \in DOMAIN l : Fine(l[i], names)

LEMMA CallShape ==
    ASSUME NEW a \in Agents, NEW c \in Calls(a)
    PROVE  /\ c.name \in {"vote", "reply", "repost"} => "post" \in DOMAIN c /\ "agent" \notin DOMAIN c
           /\ c.name \in {"reply", "repost"} => c.post \in seen[a] \cup {NoPost}
           /\ c.name = "follow" => "agent" \in DOMAIN c /\ "post" \notin DOMAIN c
PROOF
<1>1. CASE c \in {[name |-> "do_nothing"]} \cup StrayCalls
    BY <1>1 DEF StrayCalls
<1>2. CASE c \in SocialCalls(a)
    BY <1>2 DEF SocialCalls
<1>3. CASE c \in MarketCalls
    BY <1>3 DEF MarketCalls, TradeCalls
<1>4. CASE c \in EconomicCalls
    BY <1>4 DEF EconomicCalls
<1>. QED  BY <1>1, <1>2, <1>3, <1>4 DEF Calls

LEMMA SocialFound ==
    ASSUME EnvsOK, "social" \in Environments, NEW name \in PostTools
    PROVE  FindEnvForAction(name) = "social"
PROOF
<1>. DEFINE having == {i \in DOMAIN envs : name \in Tools(envs[i])}
            i == CHOOSE k \in having : \A j \in having : k <= j
<1>0. /\ \A k \in DOMAIN envs : envs[k] \in Named
      /\ DOMAIN envs \subseteq Nat
      /\ \E k \in DOMAIN envs : envs[k] = "social"
    BY DEF EnvsOK, Environments, ToSet
<1>1. name \in Tools("social") /\ name \notin Tools("market") /\ name \notin Tools("economic")
    BY DEF Tools, PostTools, SocialTools, MarketTools, EconomicTools
<1>2. having # {}
    BY <1>0, <1>1
<1>3. \E k \in having : \A j \in having : k <= j
    <2>1. having \in SUBSET Nat
        BY <1>0
    <2>. HIDE DEF having
    <2>. QED  BY <1>2, <2>1, LeastOf
<1>4. i \in having
    <2>. HIDE DEF having
    <2>. QED  BY <1>3
<1>5. FindEnvForAction(name) = envs[i]
    BY <1>2 DEF FindEnvForAction
<1>6. i \in DOMAIN envs /\ name \in Tools(envs[i])
    BY <1>4
<1>. HIDE DEF i
<1>. QED  BY <1>0, <1>1, <1>5, <1>6 DEF Named

LEMMA OthersPostNot ==
    ASSUME NEW s, NEW a, NEW c, c.name \in PostTools
    PROVE  ~MarketExecute(s, a, c).success /\ ~EconomicExecute(s, a, c).success
PROOF
    BY DEF PostTools, MarketExecute, EconomicExecute, Refused

LEMMA SocialTakes ==
    ASSUME NEW s, NEW a, NEW c, c.name \in {"create_post", "reply", "repost"},
           c.name \in {"reply", "repost"} => c.post \in DOMAIN s.posts
    PROVE  SocialExecute(s, a, c).success
PROOF
    BY DEF SocialExecute, CreatePost, Reply, Repost, Exists, Written, Done

\* What a turn has come to, x, after it began at st with what base told.
Reported(base, st, x) ==
    /\ AllFine(x.records, Environments)
    /\ DOMAIN st.social.posts \subseteq DOMAIN x.social.posts
    /\ x.social.round = st.social.round
    /\ Told(x.social, base \o x.records)

LEMMA AppendAdds ==
    ASSUME NEW base, IsList(base), NEW l, IsList(l), NEW r
    PROVE  Adds(base \o l, base \o Append(l, r), Deed(r))
PROOF
<1>. SUFFICES ASSUME NEW e
              PROVE  /\ Tally(base \o l, e) \in Nat
                     /\ Tally(base \o Append(l, r), e)
                          = Tally(base \o l, e) + (IF Deed(r) = e THEN 1 ELSE 0)
    BY DEF Adds
<1>1. IsList(Append(l, r)) /\ IsList(base \o l)
    BY ListAppend, ListJoin
<1>2. /\ Tally(base \o l, e) = Tally(base, e) + Tally(l, e)
      /\ Tally(base \o Append(l, r), e) = Tally(base, e) + Tally(Append(l, r), e)
    BY <1>1, TallyJoined
<1>3. Tally(Append(l, r), e) = Tally(l, e) + (IF Deed(r) = e THEN 1 ELSE 0)
    BY TallyAppended
<1>4. Tally(base, e) \in Nat /\ Tally(l, e) \in Nat
    BY PlacesFinite
<1>. QED  BY <1>2, <1>3, <1>4

LEMMA FineAppended ==
    ASSUME NEW names, NEW l, AllFine(l, names), NEW r, Fine(r, names)
    PROVE  AllFine(Append(l, r), names)
PROOF
<1>1. /\ IsList(Append(l, r)) /\ Len(l) \in Nat
      /\ DOMAIN l = 1 .. Len(l) /\ DOMAIN Append(l, r) = 1 .. Len(l) + 1
      /\ \A i \in DOMAIN l : Append(l, r)[i] = l[i]
      /\ Append(l, r)[Len(l) + 1] = r
    BY ListAppend DEF AllFine
<1>2. \A i \in DOMAIN Append(l, r) : i \in DOMAIN l \/ i = Len(l) + 1
    BY <1>1
<1>. QED  BY <1>1, <1>2 DEF AllFine

LEMMA FineJoined ==
    ASSUME NEW names, NEW l, AllFine(l, names), NEW k, AllFine(k, names)
    PROVE  AllFine(l \o k, names)
PROOF
<1>1. /\ Len(l) \in Nat /\ Len(k) \in Nat /\ DOMAIN l = 1 .. Len(l) /\ DOMAIN k = 1 .. Len(k)
      /\ IsList(l \o k) /\ DOMAIN (l \o k) = 1 .. Len(l) + Len(k)
      /\ \A i \in 1 .. Len(l) : (l \o k)[i] = l[i]
      /\ \A i \in 1 .. Len(k) : (l \o k)[Len(l) + i] = k[i]
    BY ListDomain, ListJoin DEF AllFine
<1>2. ASSUME NEW i \in 1 .. Len(l) + Len(k) PROVE Fine((l \o k)[i], names)
    <2>1. CASE i \in 1 .. Len(l)
        BY <1>1, <2>1 DEF AllFine
    <2>2. CASE i \notin 1 .. Len(l)
        <3>1. PICK j \in 1 .. Len(k) : i = Len(l) + j
            <4>1. i - Len(l) \in 1 .. Len(k) /\ i = Len(l) + (i - Len(l))
                BY <1>1, <2>2
            <4>. QED  BY <4>1
        <3>. QED  BY <1>1, <3>1 DEF AllFine
    <2>. QED  BY <2>1, <2>2
<1>. QED  BY <1>1, <1>2 DEF AllFine

\* One call of a turn.
LEMMA ReportCall ==
    ASSUME EnvsOK, round \in Nat \ {0}, NEW base, IsList(base), NEW st, NEW x, TurnOK(x),
           NEW a \in Agents, Reported(base, st, x), seen[a] \subseteq DOMAIN st.social.posts,
           "social" \in Environments => st.social.round = round - 1,
           NEW c \in Calls(a), NEW next, next = Execute(x, a, c)
    PROVE  Reported(base, st, next)
PROOF
<1>. DEFINE env == FindEnvForAction(c.name)
            out == CASE env = "social"   -> SocialExecute(x.social, a, c)
                     [] env = "market"   -> MarketExecute(x.market, a, c)
                     [] env = "economic" -> EconomicExecute(x.economy, a, c)
            then == CASE env = "social"   -> [x EXCEPT !.social = out.env]
                      [] env = "market"   -> [x EXCEPT !.market = out.env]
                      [] env = "economic" -> [x EXCEPT !.economy = out.env]
            r == Record(a, c.name, env, c, out.success, out.data)
            recs == Append(x.records, r)
<1>0. Shape(x) /\ SocialOK(x.social) /\ IsList(x.records) /\ CallOK(c)
    BY CallFacts DEF TurnOK, WorldOK
<1>1. next = [then EXCEPT !.records = Append(@, r)]
    BY DEF Execute
<1>2. /\ env \in Environments /\ env \in Named
      /\ "social" \in Environments /\ c.name \in PostTools => env = "social"
    BY FoundEnv, SocialFound
<1>3. /\ r.agent = a /\ r.success = out.success /\ r.type = c.name /\ r.args = c
      /\ r.data = out.data /\ r.round = round
    BY DEF Record
<1>. HIDE DEF env, r
<1>4. Adds(base \o x.records, base \o recs, Deed(r))
    BY <1>0, AppendAdds
<1>5. /\ c.name = "create_post" /\ env = "social" => out.success
      /\ c.name \in {"reply", "repost"} /\ env = "social" => out.success \/ c.post = NoPost
    <2>1. c.name \in {"reply", "repost"} => c.post \in DOMAIN x.social.posts \/ c.post = NoPost
        BY CallShape DEF Reported
    <2>. QED  BY <2>1, SocialTakes
<1>6. Fine(r, Environments)
    <2>1. c.name \in {"create_post", "reply", "repost"} => c.name \in PostTools
        BY DEF PostTools
    <2>. HIDE DEF out
    <2>. QED  BY <1>2, <1>3, <1>5, <2>1, CallShape DEF Fine
<1>7. AllFine(recs, Environments)
    BY <1>6, FineAppended DEF Reported
<1>8. ASSUME NEW s, NEW m, NEW e,
             then = [social |-> s, market |-> m, economy |-> e, records |-> x.records],
             DOMAIN x.social.posts \subseteq DOMAIN s.posts, s.round = x.social.round,
             Told(s, base \o recs)
      PROVE  Reported(base, st, next)
    <2>. HIDE DEF then, out
    <2>1. next.social = s /\ next.records = recs
        BY <1>1, <1>8
    <2>. QED  BY <1>7, <1>8, <2>1 DEF Reported
<1>9. ASSUME c.name \in PostTools => ~out.success
      PROVE  Told(x.social, base \o recs)
    <2>. HIDE DEF out
    <2>1. Deed(r) = NoDeed
        BY <1>3, <1>9 DEF Deed, NoDeed, PostTools
    <2>. QED  BY <1>4, <2>1, ToldNothing DEF Reported
<1>10. CASE env = "social"
    <2>1. out = SocialExecute(x.social, a, c) /\ then = [x EXCEPT !.social = out.env]
        BY <1>10
    <2>. HIDE DEF out, then
    <2>2. then = [social |-> out.env, market |-> x.market, economy |-> x.economy,
                  records |-> x.records]
        BY <1>0, <2>1 DEF Shape
    <2>3. DOMAIN x.social.posts \subseteq DOMAIN out.env.posts
        BY <1>0, <2>1, SocialHandler
    <2>4. r.round - 1 = x.social.round
        BY <1>2, <1>3, <1>10 DEF Reported
    <2>5. Told(x.social, base \o x.records)
        BY DEF Reported
    <2>. HIDE DEF recs
    <2>6. Told(out.env, base \o recs) /\ out.env.round = x.social.round
        BY <1>0, <1>3, <1>4, <2>1, <2>4, <2>5, SocialTold
    <2>. QED  BY <1>8, <2>2, <2>3, <2>6
<1>11. CASE env = "market"
    <2>1. out = MarketExecute(x.market, a, c) /\ then = [x EXCEPT !.market = out.env]
        BY <1>11
    <2>. HIDE DEF out, then
    <2>2. then = [social |-> x.social, market |-> out.env, economy |-> x.economy,
                  records |-> x.records]
        BY <1>0, <2>1 DEF Shape
    <2>3. Told(x.social, base \o recs)
        BY <1>9, <2>1, OthersPostNot
    <2>. QED  BY <1>8, <2>2, <2>3
<1>12. CASE env = "economic"
    <2>1. out = EconomicExecute(x.economy, a, c) /\ then = [x EXCEPT !.economy = out.env]
        BY <1>12
    <2>. HIDE DEF out, then
    <2>2. then = [social |-> x.social, market |-> x.market, economy |-> out.env,
                  records |-> x.records]
        BY <1>0, <2>1 DEF Shape
    <2>3. Told(x.social, base \o recs)
        BY <1>9, <2>1, OthersPostNot
    <2>. QED  BY <1>8, <2>2, <2>3
<1>. QED  BY <1>2, <1>10, <1>11, <1>12 DEF Named

LEMMA ReportAnswer ==
    ASSUME EnvsOK, round \in Nat \ {0}, NEW base, IsList(base), NEW st, TurnOK(st),
           NEW a \in Agents, Reported(base, st, st), seen[a] \subseteq DOMAIN st.social.posts,
           "social" \in Environments => st.social.round = round - 1,
           NEW answer \in Answers(a), NEW after, Unfolded(after, st, a, answer, Len(answer)),
           NEW end, end = after[Len(answer)]
    PROVE  Reported(base, st, end)
PROOF
<1>. DEFINE k == Len(answer)
            Good(x) == TurnOK(x) /\ Reported(base, st, x)
            Bad == {n \in 0 .. k : ~Good(after[n])}
<1>0. k \in Nat /\ answer \in [1 .. k -> Calls(a)]
    BY AnswerFacts
<1>1. \A n \in 0 .. k : after[n] = IF n = 0 THEN st ELSE Execute(after[n - 1], a, answer[n])
    BY DEF Unfolded
<1>. HIDE DEF k
<1>2. ASSUME NEW n \in Bad PROVE \E m \in Bad : m < n
    <2>1. n \in 0 .. k /\ ~Good(after[n])
        OBVIOUS
    <2>2. n # 0
        BY <1>0, <1>1, <2>1
    <2>3. n - 1 \in 0 .. k /\ n - 1 < n /\ n \in 1 .. k
        BY <1>0, <2>1, <2>2
    <2>4. after[n] = Execute(after[n - 1], a, answer[n])
        BY <1>1, <2>1, <2>2
    <2>5. answer[n] \in Calls(a) /\ CallOK(answer[n])
        BY <1>0, <2>3, CallFacts
    <2>6. ASSUME Good(after[n - 1]) PROVE FALSE
        <3>1. TurnOK(after[n])
            BY <2>4, <2>5, <2>6, Executed
        <3>2. Reported(base, st, after[n])
            BY <2>4, <2>5, <2>6, ReportCall
        <3>. QED  BY <2>1, <3>1, <3>2
    <2>. QED  BY <2>3, <2>6
<1>3. Bad = {}
    <2>1. Bad \in SUBSET Nat
        BY <1>0
    <2>. HIDE DEF Bad
    <2>. QED  BY <1>2, <2>1, Descent
<1>4. Good(end)
    BY <1>0, <1>3 DEF k
<1>. QED  BY <1>4

ReportInv ==
    /\ AllFine(log, Environments) /\ \A a \in Agents : AllFine(records[a], Environments)
    /\ "social" \in Environments => social.round = round - 1
    /\ Told(social, log \o RoundRecords)

LEMMA JoinedEmpty ==
    ASSUME NEW l, IsList(l), NEW k, IsList(k), DOMAIN k = {}, NEW s, Told(s, l)
    PROVE  Told(s, l \o k)
PROOF
<1>1. \A d : Tally(l \o k, d) = Tally(l, d)
    <2>. SUFFICES ASSUME NEW d PROVE Tally(l \o k, d) = Tally(l, d)
        OBVIOUS
    <2>1. Tally(l \o k, d) = Tally(l, d) + Tally(k, d) /\ Tally(k, d) = 0 /\ Tally(l, d) \in Nat
        BY TallyJoined, TallyEmpty, PlacesFinite
    <2>. QED  BY <2>1
<1>. QED  BY <1>1, ToldAlike

LEMMA EmptyList == IsList(<<>>) /\ DOMAIN <<>> = {}
PROOF
<1>1. <<>> \in Seq({}) /\ DOMAIN <<>> = {}
    OBVIOUS
<1>. QED  BY <1>1 DEF IsList

LEMMA FlatEmpty ==
    ASSUME NEW rs, \A a \in Agents : rs[a] = <<>>
    PROVE  IsList(Flat(rs)) /\ DOMAIN Flat(rs) = {}
PROOF
<1>1. IsList(Flat(rs)) /\ FromOne(Flat(rs), rs)
    BY EmptyList, FlatElements
<1>. QED  BY <1>1, EmptyList DEF FromOne

LEMMA ToldNew == Told(NewSocial, <<>>)
PROOF
<1>1. \A d : Tally(<<>>, d) = 0
    BY EmptyList, TallyEmpty
<1>2. DOMAIN NewSocial.posts = {} /\ \A a \in Agents : NewSocial.follows[a] = {}
    BY EmptyList DEF NewSocial
<1>. QED  BY <1>1, <1>2 DEF Told, WritesTold, RepliesTold, VotesTold, SharesTold, FollowsTold

LEMMA ReportBlank ==
    ASSUME NEW rs, rs = [a \in Agents |-> <<>>], NEW names
    PROVE  /\ AllFine(<<>>, names) /\ \A a \in Agents : AllFine(rs[a], names)
           /\ NewSocial.round = 0
           /\ Told(NewSocial, <<>> \o Flat(rs))
PROOF
<1>1. AllFine(<<>>, names)
    BY EmptyList DEF AllFine
<1>2. IsList(Flat(rs)) /\ DOMAIN Flat(rs) = {}
    BY FlatEmpty
<1>3. Told(NewSocial, <<>> \o Flat(rs))
    BY <1>2, EmptyList, ToldNew, JoinedEmpty
<1>. QED  BY <1>1, <1>3 DEF NewSocial

LEMMA ReportInit == Init => ReportInv
PROOF
<1>. SUFFICES ASSUME Init PROVE ReportInv
    OBVIOUS
<1>1. /\ social = NewSocial /\ records = [a \in Agents |-> <<>>] /\ log = <<>> /\ round = 1
    BY DEF Init
<1>2. RoundRecords = Flat(records)
    BY DEF RoundRecords, Flat
<1>. QED  BY <1>1, <1>2, ReportBlank DEF ReportInv

LEMMA ReportReset == RunFails => ReportInv'
PROOF
<1>. SUFFICES ASSUME RunFails PROVE ReportInv'
    OBVIOUS
<1>1. /\ social' = NewSocial /\ records' = [a \in Agents |-> <<>>] /\ log' = <<>> /\ round' = 1
    BY DEF RunFails
<1>2. RoundRecords' = Flat(records')
    BY DEF RoundRecords, Flat
<1>. QED  BY <1>1, <1>2, ReportBlank DEF ReportInv

LEMMA FlatFine ==
    ASSUME NEW rs, NEW names, \A a \in Agents : AllFine(rs[a], names)
    PROVE  AllFine(Flat(rs), names)
PROOF
<1>1. IsList(Flat(rs)) /\ FromOne(Flat(rs), rs)
    BY FlatElements DEF AllFine
<1>. QED  BY <1>1 DEF FromOne, AllFine

LEMMA ReportTurn ==
    ASSUME ControlInv, WorldInv, ReportInv, NEW a \in Agents, NEW answer \in Answers(a),
           StepAgent(a, answer)
    PROVE  ReportInv'
PROOF
<1>. DEFINE start == [social |-> social, market |-> market, economy |-> economy, records |-> <<>>]
            after == CHOOSE f : Unfolded(f, start, a, answer, Len(answer))
            end == after[Len(answer)]
            r == Record(a, "do_nothing", envs[1], <<>>, TRUE, NoData)
            idle == <<r>>
            recs == IF answer # <<>> THEN end.records ELSE idle
            base == log \o Flat(records)
<1>1. /\ InFlight(a)
      /\ social' = end.social /\ records' = [records EXCEPT ![a] = recs] /\ log' = log
      /\ envs' = envs /\ round' = round
    BY DEF StepAgent, Unfolded
<1>2. /\ phase = "act" /\ a \notin acted /\ EnvsOK /\ round \in Nat \ {0}
      /\ seen[a] \subseteq DOMAIN social.posts /\ DOMAIN records = Agents
    BY <1>1, EnvsNamed DEF InFlight, ControlInv, WorldInv
<1>3. /\ records[a] = <<>> /\ Environments' = Environments
      /\ RoundRecords = Flat(records) /\ RoundRecords' = Flat(records')
    BY <1>1, <1>2 DEF WorldInv, Environments, RoundRecords, Flat
<1>4. /\ IsList(log) /\ IsList(Flat(records)) /\ IsList(base) /\ Told(social, base)
      /\ \A b \in Agents : IsList(records[b])
    BY <1>3, FlatElements, ListJoin DEF ReportInv, AllFine
<1>. HIDE DEF base
<1>5. TurnOK(start) /\ Reported(base, start, start)
    <2>1. /\ start.social = social /\ start.market = market /\ start.economy = economy
          /\ start.records = <<>> /\ Shape(start)
        BY DEF Shape
    <2>. HIDE DEF start
    <2>2. TurnOK(start)
        BY <1>2, <2>1, EmptyList DEF TurnOK, WorldInv
    <2>3. Told(social, base \o <<>>)
        BY <1>4, EmptyList, JoinedEmpty
    <2>. QED  BY <2>1, <2>2, <2>3, EmptyList DEF Reported, AllFine
<1>6. start.social = social /\ start.records = <<>>
    OBVIOUS
<1>. HIDE DEF start
<1>7. Unfolded(after, start, a, answer, Len(answer))
    <2>1. \E f : Unfolded(f, start, a, answer, Len(answer))
        BY AnswerFacts, TurnUnfolds
    <2>. QED  BY <2>1
<1>. HIDE DEF after
<1>8. Reported(base, start, end)
    BY <1>2, <1>4, <1>5, <1>6, <1>7, ReportAnswer DEF ReportInv
<1>9. answer = <<>> => end = start
    <2>1. Len(answer) = 0 => after[Len(answer)] = start
        BY <1>7 DEF Unfolded
    <2>2. answer = <<>> => Len(answer) = 0
        BY AnswerFacts
    <2>. QED  BY <2>1, <2>2
<1>. HIDE DEF end
<1>10. /\ AllFine(recs, Environments) /\ Told(social', base \o recs) /\ social'.round = social.round
    <2>1. CASE answer # <<>>
        BY <1>1, <1>6, <1>8, <2>1 DEF Reported
    <2>2. CASE answer = <<>>
        <3>1. social' = social
            BY <1>1, <1>6, <1>9, <2>2
        <3>2. r.agent = a /\ r.type = "do_nothing" /\ r.round = round
            BY DEF Record
        <3>. HIDE DEF r
        <3>3. Fine(r, Environments) /\ Deed(r) = NoDeed
            BY <1>2, <3>2 DEF Fine, Deed, NoDeed
        <3>4. Append(<<>>, r) = idle /\ AllFine(<<>>, Environments)
            BY EmptyList DEF AllFine
        <3>5. AllFine(Append(<<>>, r), Environments)
            BY <3>3, <3>4, FineAppended
        <3>6. Told(social, base \o <<>>)
            BY <1>4, EmptyList, JoinedEmpty
        <3>7. Told(social, base \o Append(<<>>, r))
            BY <1>4, <3>3, <3>6, EmptyList, AppendAdds, ToldNothing
        <3>. QED  BY <2>2, <3>1, <3>4, <3>5, <3>7
    <2>. QED  BY <2>1, <2>2
<1>. HIDE DEF recs
<1>11. records'[a] = recs /\ \A b \in Agents : b # a => records'[b] = records[b]
    BY <1>1, <1>2
<1>12. \A b \in Agents : AllFine(records'[b], Environments)
    BY <1>10, <1>11 DEF ReportInv
<1>13. ASSUME NEW d PROVE Tally(log \o Flat(records'), d) = Tally(base \o recs, d)
    <2>1. \A b \in Agents : IsList(records'[b])
        BY <1>12 DEF AllFine
    <2>2. Tally(Flat(records'), d) = Tally(Flat(records), d) + Tally(recs, d)
        <3>1. PICK rs : rs = records
            OBVIOUS
        <3>2. PICK rt : rt = records'
            OBVIOUS
        <3>3. \A b \in Agents : IsList(rs[b]) /\ IsList(rt[b])
            BY <1>4, <2>1, <3>1, <3>2
        <3>4. rs[a] = <<>> /\ rt[a] = recs /\ \A b \in Agents \ {a} : rt[b] = rs[b]
            BY <1>3, <1>11, <3>1, <3>2
        <3>5. Tally(Flat(rt), d) = Tally(Flat(rs), d) + Tally(rt[a], d)
            BY <3>3, <3>4, FlatTallies
        <3>. QED  BY <3>1, <3>2, <3>4, <3>5
    <2>3. IsList(Flat(records')) /\ IsList(recs)
        BY <1>10, <2>1, FlatElements DEF AllFine
    <2>4. /\ Tally(log \o Flat(records'), d) = Tally(log, d) + Tally(Flat(records'), d)
          /\ Tally(base \o recs, d) = Tally(base, d) + Tally(recs, d)
          /\ Tally(base, d) = Tally(log, d) + Tally(Flat(records), d)
        BY <1>4, <2>3, TallyJoined DEF base
    <2>5. /\ Tally(log, d) \in Nat /\ Tally(Flat(records), d) \in Nat /\ Tally(recs, d) \in Nat
        BY <1>4, <2>3, PlacesFinite
    <2>. QED  BY <2>2, <2>4, <2>5
<1>14. Told(social', log' \o Flat(records'))
    BY <1>1, <1>10, <1>13, ToldAlike
<1>. QED  BY <1>1, <1>3, <1>10, <1>12, <1>14 DEF ReportInv

LEMMA ReportEnd == ControlInv /\ WorldInv /\ ReportInv /\ EndRound => ReportInv'
PROOF
<1>. SUFFICES ASSUME ControlInv, WorldInv, ReportInv, EndRound PROVE ReportInv'
    OBVIOUS
<1>1. /\ TickAll /\ log' = log \o RoundRecords /\ records' = [a \in Agents |-> <<>>]
      /\ envs' = envs /\ round' = round + 1 /\ round \in Nat
    BY AtLeastOne DEF EndRound, ControlInv
<1>2. /\ Environments' = Environments
      /\ RoundRecords = Flat(records) /\ RoundRecords' = Flat(records')
    BY <1>1 DEF Environments, RoundRecords, Flat
<1>3. AllFine(Flat(records), Environments)
    BY FlatFine DEF ReportInv
<1>4. AllFine(log', Environments)
    BY <1>1, <1>2, <1>3, FineJoined DEF ReportInv
<1>5. IsList(Flat(records')) /\ DOMAIN Flat(records') = {} /\ \A a \in Agents : records'[a] = <<>>
    BY <1>1, FlatEmpty
<1>6. Told(social, log')
    BY <1>1 DEF ReportInv
<1>7. /\ social'.posts = social.posts /\ social'.follows = social.follows
      /\ "social" \in Environments => social'.round = social.round + 1
    <2>1. SocialOK(social) /\ social \in SocialState
        BY DEF WorldInv, WorldOK, SocialOK
    <2>2. /\ SocialPublished(SocialTick(social)).posts = social.posts
          /\ SocialPublished(SocialTick(social)).follows = social.follows
          /\ SocialPublished(SocialTick(social)).round = social.round + 1
        BY <2>1 DEF SocialPublished, SocialTick, SocialState
    <2>. QED  BY <1>1, <2>2 DEF TickAll
<1>8. Told(social', log')
    BY <1>6, <1>7, ToldAlike
<1>9. Told(social', log' \o Flat(records'))
    BY <1>4, <1>5, <1>8, JoinedEmpty DEF AllFine
<1>10. \A a \in Agents : AllFine(records'[a], Environments)
    BY <1>5, EmptyList DEF AllFine
<1>11. "social" \in Environments' => social'.round = round' - 1
    BY <1>1, <1>2, <1>7 DEF ReportInv
<1>. QED  BY <1>2, <1>4, <1>9, <1>10, <1>11 DEF ReportInv

LEMMA ReportStep == ControlInv /\ WorldInv /\ ReportInv /\ [Next]_vars => ReportInv'
PROOF
<1>. SUFFICES ASSUME ControlInv, WorldInv, ReportInv, [Next]_vars PROVE ReportInv'
    OBVIOUS
<1>1. ASSUME UNCHANGED <<envs, social, round, records, log>>
      PROVE  ReportInv'
    <2>1. Environments' = Environments /\ RoundRecords' = RoundRecords
        BY <1>1 DEF Environments, RoundRecords
    <2>. QED  BY <1>1, <2>1 DEF ReportInv
<1>2. ASSUME NEW a \in Agents, NEW answer \in Answers(a), StepAgent(a, answer)
      PROVE  ReportInv'
    BY <1>2, ReportTurn
<1>3. ASSUME NEW a \in Agents, ChatDrops(a)
      PROVE  ReportInv'
    <2>1. RunFails \/ UNCHANGED <<envs, social, round, records, log>>
        BY <1>3 DEF ChatDrops, world
    <2>. QED  BY <1>1, <2>1, ReportReset
<1>4. ASSUME NEW a \in Agents, ToolRaises(a)
      PROVE  ReportInv'
    BY <1>4, ReportReset DEF ToolRaises
<1>5. CASE EndRound
    BY <1>5, ReportEnd
<1>6. CASE UNCHANGED vars
    BY <1>1, <1>6 DEF vars, world
<1>7. CASE ObserveRound
    BY <1>1, <1>7 DEF ObserveRound
<1>. QED  BY <1>2, <1>3, <1>4, <1>5, <1>6, <1>7 DEF Next

\* Between rounds the log alone tells all of it.
LEMMA LogTells ==
    ASSUME ControlInv, WorldInv, ReportInv, Between
    PROVE  Told(social, log) /\ AllFine(log, Environments)
PROOF
<1>1. \A a \in Agents : records[a] = <<>>
    BY DEF ControlInv, WorldInv, Between
<1>2. IsList(Flat(records)) /\ DOMAIN Flat(records) = {}
    BY <1>1, FlatEmpty
<1>3. RoundRecords = Flat(records) /\ IsList(log)
    BY DEF RoundRecords, Flat, ReportInv, AllFine
<1>4. \A d : Tally(log, d) = Tally(log \o Flat(records), d)
    <2>. SUFFICES ASSUME NEW d PROVE Tally(log, d) = Tally(log \o Flat(records), d)
        OBVIOUS
    <2>1. Tally(log \o Flat(records), d) = Tally(log, d) + Tally(Flat(records), d)
        BY <1>2, <1>3, TallyJoined
    <2>2. Tally(Flat(records), d) = 0 /\ Tally(log, d) \in Nat
        BY <1>2, <1>3, TallyEmpty, PlacesFinite
    <2>. QED  BY <2>1, <2>2
<1>5. Told(social, log)
    BY <1>3, <1>4, ToldAlike DEF ReportInv
<1>. QED  BY <1>5 DEF ReportInv

(* Between rounds the story is consistent whatever was said: the blocs      *)
(* hold every poster once, each round is in one phase, and each quote is   *)
(* of an agent quoted once, for a post of that agent with that stance in   *)
(* that phase (story_signals.py extract_stakeholder_positions(),           *)
(* extract_phase_boundaries(), extract_quotable_posts()).                  *)
THEOREM StoryIsConsistentTheorem == Spec => []StoryIsConsistent
PROOF
<1>. DEFINE Inv == ControlInv /\ WorldInv /\ ReportInv
<1>1. Init => Inv
    BY ControlInit, WorldInit, ReportInit
<1>2. Inv /\ [Next]_vars => Inv'
    BY ControlStep, WorldStep, ReportStep
<1>3. Inv => StoryIsConsistent
    BY StoryTold DEF ReportInv, AllFine, Fine, Dated
<1>. HIDE DEF Inv
<1>. QED  BY <1>1, <1>2, <1>3, PTL DEF Spec

-----------------------------------------------------------------------------
(* The graph: every edge is a deed, counted by the posts it was done to.     *)

\* Two sets whose members pair off are of the same size.
LEMMA Paired ==
    ASSUME NEW S, IsFiniteSet(S), NEW T, NEW f \in [S -> T],
           \A x, y \in S : f[x] = f[y] => x = y, \A t \in T : \E x \in S : f[x] = t
    PROVE  IsFiniteSet(T) /\ Cardinality(S) = Cardinality(T) /\ Cardinality(S) \in Nat
PROOF
<1>1. f \in Bijection(S, T)
    BY DEF Bijection, Injection, Surjection, IsInjective
<1>. QED  BY <1>1, FS_Bijection, FS_CardinalityType DEF ExistsBijection

LEMMA DeedOf ==
    ASSUME NEW r
    PROVE  /\ \A a, p, n : Deed(r) = WroteDeed(a, p, n) <=>
                /\ r.success /\ r.type = "create_post"
                /\ r.agent = a /\ r.data.post = p /\ r.round - 1 = n
           /\ \A a, p, q : Deed(r) = RepliedDeed(a, p, q) <=>
                r.success /\ r.type = "reply" /\ r.agent = a /\ r.data.post = p /\ r.args.post = q
           /\ \A a, p : Deed(r) = VotedDeed(a, p) <=>
                r.success /\ r.type = "vote" /\ r.agent = a /\ r.args.post = p
           /\ \A p : Deed(r) = SharedDeed(p) <=> r.success /\ r.type = "repost" /\ r.args.post = p
           /\ \A a, b : Deed(r) = FollowedDeed(a, b) <=>
                r.success /\ r.type = "follow" /\ r.agent = a /\ r.args.agent = b
PROOF
    BY DEF Deed, WroteDeed, RepliedDeed, VotedDeed, SharedDeed, FollowedDeed

LEMMA TallyOne ==
    ASSUME NEW l, IsList(l), NEW d
    PROVE  /\ Tally(l, d) = 1 => \E i \in DOMAIN l : Deed(l[i]) = d
           /\ Tally(l, d) > 0 <=> \E i \in DOMAIN l : Deed(l[i]) = d
           /\ Tally(l, d) = 1 => \A i, j \in DOMAIN l : Deed(l[i]) = d /\ Deed(l[j]) = d => i = j
PROOF
<1>1. PICK A : A = Places(l, d)
    OBVIOUS
<1>2. IsFiniteSet(A) /\ Cardinality(A) \in Nat /\ (Cardinality(A) = 0 <=> A = {}) /\ Tally(l, d) = Cardinality(A)
    BY <1>1, PlacesFinite DEF Tally
<1>3. Cardinality(A) = 1 => \E x : A = {x}
    BY <1>2, FS_Singleton
<1>4. \A i : i \in A <=> i \in DOMAIN l /\ Deed(l[i]) = d
    BY <1>1 DEF Places
<1>. QED  BY <1>2, <1>3, <1>4

Posted(l) == {i \in DOMAIN l : l[i].success /\ l[i].type \in {"create_post", "reply"}}

\* What the platform holds of the post a record tells of.
Holds(s, r) ==
    /\ r.data.post \in DOMAIN s.posts /\ s.posts[r.data.post].author = r.agent
    /\ r.type = "create_post" => /\ s.posts[r.data.post].parent = NoPost
                                 /\ s.posts[r.data.post].created = r.round - 1
    /\ r.type = "reply" => s.posts[r.data.post].parent = r.args.post /\ r.args.post # NoPost

\* One record per post, and one post per record.
LEMMA PostsRecorded ==
    ASSUME NEW s, NEW l, IsList(l), Told(s, l)
    PROVE  /\ \A i \in Posted(l) : Holds(s, l[i])
           /\ \A p \in DOMAIN s.posts : \E i \in Posted(l) : l[i].data.post = p
           /\ \A i, j \in Posted(l) : l[i].data.post = l[j].data.post => i = j
PROOF
<1>1. \A i \in Posted(l) : Holds(s, l[i])
    <2>. SUFFICES ASSUME NEW i \in Posted(l) PROVE Holds(s, l[i])
        OBVIOUS
    <2>1. i \in DOMAIN l /\ l[i].success
        BY DEF Posted
    <2>2. CASE l[i].type = "create_post"
        <3>1. PICK n : n = l[i].round - 1
            OBVIOUS
        <3>2. Tally(l, WroteDeed(l[i].agent, l[i].data.post, n)) > 0
            BY <2>1, <2>2, <3>1, DeedOf, TallyOne
        <3>. QED  BY <2>2, <3>1, <3>2 DEF Told, WritesTold, Holds
    <2>3. CASE l[i].type = "reply"
        <3>1. Tally(l, RepliedDeed(l[i].agent, l[i].data.post, l[i].args.post)) > 0
            BY <2>1, <2>3, DeedOf, TallyOne
        <3>. QED  BY <2>3, <3>1 DEF Told, RepliesTold, Holds
    <2>. QED  BY <2>2, <2>3 DEF Posted
<1>2. ASSUME NEW p \in DOMAIN s.posts PROVE \E i \in Posted(l) : l[i].data.post = p
    <2>1. CASE s.posts[p].parent = NoPost
        <3>1. Tally(l, WroteDeed(s.posts[p].author, p, s.posts[p].created)) = 1
            BY <2>1 DEF Told, WritesTold
        <3>2. PICK i \in DOMAIN l : Deed(l[i]) = WroteDeed(s.posts[p].author, p, s.posts[p].created)
            BY <3>1, TallyOne
        <3>. QED  BY <3>2, DeedOf DEF Posted
    <2>2. CASE s.posts[p].parent # NoPost
        <3>1. Tally(l, RepliedDeed(s.posts[p].author, p, s.posts[p].parent)) = 1
            BY <2>2 DEF Told, RepliesTold
        <3>2. PICK i \in DOMAIN l : Deed(l[i]) = RepliedDeed(s.posts[p].author, p, s.posts[p].parent)
            BY <3>1, TallyOne
        <3>. QED  BY <3>2, DeedOf DEF Posted
    <2>. QED  BY <2>1, <2>2
<1>3. ASSUME NEW i \in Posted(l), NEW j \in Posted(l), l[i].data.post = l[j].data.post PROVE i = j
    <2>1. PICK p : p = l[i].data.post /\ p = l[j].data.post
        BY <1>3
    <2>2. /\ i \in DOMAIN l /\ j \in DOMAIN l /\ Holds(s, l[i]) /\ Holds(s, l[j])
          /\ l[i].success /\ l[i].type \in {"create_post", "reply"}
          /\ l[j].success /\ l[j].type \in {"create_post", "reply"}
        BY <1>1 DEF Posted
    <2>3. CASE s.posts[p].parent = NoPost
        <3>0. l[i].type = "create_post" /\ l[j].type = "create_post"
            BY <2>1, <2>2, <2>3 DEF Holds
        <3>1. /\ Deed(l[i]) = WroteDeed(s.posts[p].author, p, s.posts[p].created)
              /\ Deed(l[j]) = WroteDeed(s.posts[p].author, p, s.posts[p].created)
            BY <2>1, <2>2, <3>0 DEF Deed, Holds
        <3>2. Tally(l, WroteDeed(s.posts[p].author, p, s.posts[p].created)) = 1
            BY <2>1, <2>2, <2>3 DEF Told, WritesTold, Holds
        <3>. QED  BY <2>2, <3>1, <3>2, TallyOne
    <2>4. CASE s.posts[p].parent # NoPost
        <3>0. l[i].type = "reply" /\ l[j].type = "reply"
            BY <2>1, <2>2, <2>4 DEF Holds
        <3>1. /\ Deed(l[i]) = RepliedDeed(s.posts[p].author, p, s.posts[p].parent)
              /\ Deed(l[j]) = RepliedDeed(s.posts[p].author, p, s.posts[p].parent)
            BY <2>1, <2>2, <3>0 DEF Deed, Holds
        <3>2. Tally(l, RepliedDeed(s.posts[p].author, p, s.posts[p].parent)) = 1
            BY <2>1, <2>2, <2>4 DEF Told, RepliesTold, Holds
        <3>. QED  BY <2>2, <3>1, <3>2, TallyOne
    <2>. QED  BY <2>3, <2>4
<1>. QED  BY <1>1, <1>2, <1>3

LEMMA AuthorsKnown ==
    ASSUME NEW s, NEW l, IsList(l), Told(s, l)
    PROVE  /\ DOMAIN PostAuthor(l) = DOMAIN s.posts
           /\ \A p \in DOMAIN s.posts : PostAuthor(l)[p] = s.posts[p].author
PROOF
<1>. DEFINE who(p) == CHOOSE i \in Posted(l) : l[i].data.post = p
<1>1. PostAuthor(l) = [p \in {l[i].data.post : i \in Posted(l)} |-> l[who(p)].agent]
    BY DEF PostAuthor, Matching, Posted
<1>2. {l[i].data.post : i \in Posted(l)} = DOMAIN s.posts
    BY PostsRecorded DEF Holds
<1>3. ASSUME NEW p \in DOMAIN s.posts PROVE l[who(p)].agent = s.posts[p].author
    <2>1. who(p) \in Posted(l) /\ l[who(p)].data.post = p
        BY PostsRecorded
    <2>. QED  BY <2>1, PostsRecorded DEF Holds
<1>. HIDE DEF who
<1>. QED  BY <1>1, <1>2, <1>3

Leading(l, e) == {i \in DOMAIN l : e \in EdgesOf(PostAuthor(l), l[i])}

LEMMA WeightCounts ==
    ASSUME NEW l, IsList(l), NEW a, NEW b, NEW kind
    PROVE  /\ Weight(BuildEdges(l), a, b, kind) = Cardinality(Leading(l, <<a, b, kind>>))
           /\ IsFiniteSet(Leading(l, <<a, b, kind>>))
PROOF
<1>. DEFINE e == <<a, b, kind>>
            found == UNION {EdgesOf(PostAuthor(l), l[i]) : i \in DOMAIN l}
<1>1. BuildEdges(l) = [x \in found |-> Cardinality(Leading(l, x))]
    BY DEF BuildEdges, Count, Matching, Leading
<1>2. IsFiniteSet(DOMAIN l) /\ Leading(l, e) \in SUBSET DOMAIN l
    BY ListDomain, FS_Interval DEF Leading
<1>3. e \notin found => Leading(l, e) = {}
    BY DEF Leading
<1>. HIDE DEF found, e
<1>4. Cardinality({}) = 0
    BY FS_EmptySet
<1>. QED  BY <1>1, <1>2, <1>3, <1>4, FS_Subset DEF Weight, e

LEMMA EdgesAre ==
    ASSUME NEW authors, NEW r, NEW names, Fine(r, names), NEW a, NEW b, a # b
    PROVE  /\ \A kind \in {"like", "dislike"} : <<a, b, kind>> \in EdgesOf(authors, r) <=>
                /\ r.success /\ r.type = "vote" /\ r.agent = a /\ kind = EdgeKind(r)
                /\ r.args.post \in DOMAIN authors /\ authors[r.args.post] = b
           /\ <<a, b, "reply">> \in EdgesOf(authors, r) <=>
                /\ r.success /\ r.type = "reply" /\ r.agent = a
                /\ r.args.post \in DOMAIN authors /\ authors[r.args.post] = b
           /\ <<a, b, "follow">> \in EdgesOf(authors, r) <=>
                r.success /\ r.type = "follow" /\ r.agent = a /\ b \in StandsFor(r.args.agent)
PROOF
<1>1. CASE r.type = "vote"
    <2>1. /\ EdgeKind(r) \in {"like", "dislike"}
          /\ ResolveTarget(authors, r)
               = IF r.args.post \in DOMAIN authors THEN {authors[r.args.post]} ELSE {}
        BY <1>1 DEF EdgeKind, ResolveTarget, Fine
    <2>2. EdgesOf(authors, r) = IF ~r.success THEN {}
            ELSE {<<r.agent, t, EdgeKind(r)>> : t \in ResolveTarget(authors, r) \ {r.agent}}
        BY <2>1 DEF EdgesOf, EdgesOfAny
    <2>. QED  BY <1>1, <2>1, <2>2
<1>2. CASE r.type = "reply"
    <2>1. /\ EdgeKind(r) = "reply"
          /\ ResolveTarget(authors, r)
               = IF r.args.post \in DOMAIN authors THEN {authors[r.args.post]} ELSE {}
        BY <1>2 DEF EdgeKind, ResolveTarget, Fine
    <2>2. EdgesOf(authors, r) = IF ~r.success THEN {}
            ELSE {<<r.agent, t, EdgeKind(r)>> : t \in ResolveTarget(authors, r) \ {r.agent}}
        BY <2>1 DEF EdgesOf, EdgesOfAny
    <2>. QED  BY <1>2, <2>1, <2>2
<1>3. CASE r.type = "follow"
    <2>1. /\ EdgeKind(r) = "follow" /\ ResolveTarget(authors, r) = StandsFor(r.args.agent)
        BY <1>3 DEF EdgeKind, ResolveTarget, Fine
    <2>2. EdgesOf(authors, r) = IF ~r.success THEN {}
            ELSE {<<r.agent, t, EdgeKind(r)>> : t \in ResolveTarget(authors, r) \ {r.agent}}
        BY <2>1 DEF EdgesOf, EdgesOfAny
    <2>. QED  BY <1>3, <2>1, <2>2
<1>4. CASE r.type \notin {"vote", "reply", "follow"}
    <2>1. EdgeKind(r) \in {"repost", "mention", "none"}
        BY <1>4 DEF EdgeKind
    <2>2. \A e \in EdgesOf(authors, r) : e[3] \in {"repost", "mention", "none"}
        BY <2>1 DEF EdgesOf, EdgesOfAny
    <2>. QED  BY <1>4, <2>2
<1>. QED  BY <1>1, <1>2, <1>3, <1>4

VotesOn(l, a, W) ==
    {i \in DOMAIN l : l[i].success /\ l[i].type = "vote" /\ l[i].agent = a /\ l[i].args.post \in W}
VotedOn(s, a, W) == {p \in W : a \in s.posts[p].voters}

RepliesTo(l, V, W) ==
    {i \in Posted(l) : l[i].type = "reply" /\ l[i].data.post \in V /\ l[i].args.post \in W}
Answering(s, V, W) == {p \in V : s.posts[p].parent \in W}

\* The votes on an author's posts, each by the post it was cast on.
LEMMA VotesPaired ==
    ASSUME NEW s, NEW l, IsList(l), Told(s, l), NEW a, NEW W, W \subseteq DOMAIN s.posts
    PROVE  Cardinality(VotesOn(l, a, W)) = Cardinality(VotedOn(s, a, W))
PROOF
<1>. DEFINE S == VotesOn(l, a, W)
            T == VotedOn(s, a, W)
            f == [i \in S |-> l[i].args.post]
<1>1. \A i : i \in S <=> /\ i \in DOMAIN l /\ l[i].success /\ l[i].type = "vote"
                         /\ l[i].agent = a /\ l[i].args.post \in W
    BY DEF VotesOn
<1>2. \A p : p \in T <=> p \in W /\ a \in s.posts[p].voters
    BY DEF VotedOn
<1>3. f = [i \in S |-> l[i].args.post]
    OBVIOUS
<1>4. IsFiniteSet(S)
    <2>1. S \subseteq DOMAIN l
        BY <1>1
    <2>. HIDE DEF S
    <2>. QED  BY <2>1, ListDomain, FS_Interval, FS_Subset
<1>. HIDE DEF S, T, f
<1>5. ASSUME NEW i \in S
      PROVE  /\ i \in DOMAIN l /\ f[i] \in T /\ f[i] = l[i].args.post
             /\ Deed(l[i]) = VotedDeed(a, f[i]) /\ Tally(l, VotedDeed(a, f[i])) = 1
    <2>1. /\ i \in DOMAIN l /\ f[i] = l[i].args.post /\ f[i] \in W
          /\ l[i].success /\ l[i].type = "vote" /\ l[i].agent = a
        BY <1>1, <1>3
    <2>2. Deed(l[i]) = VotedDeed(a, f[i])
        BY <2>1, DeedOf
    <2>3. Tally(l, VotedDeed(a, f[i])) > 0
        BY <2>1, <2>2, TallyOne
    <2>. QED  BY <1>2, <2>1, <2>2, <2>3 DEF Told, VotesTold
<1>6. f \in [S -> T]
    BY <1>3, <1>5
<1>7. \A x, y \in S : f[x] = f[y] => x = y
    BY <1>5, TallyOne
<1>8. ASSUME NEW p \in T PROVE \E x \in S : f[x] = p
    <2>1. p \in W /\ Tally(l, VotedDeed(a, p)) = 1
        BY <1>2 DEF Told, VotesTold
    <2>2. PICK i \in DOMAIN l : Deed(l[i]) = VotedDeed(a, p)
        BY <2>1, TallyOne
    <2>. QED  BY <1>1, <1>3, <2>1, <2>2, DeedOf
<1>9. Cardinality(S) = Cardinality(T)
    BY <1>4, <1>6, <1>7, <1>8, Paired
<1>. QED  BY <1>9 DEF S, T

\* The replies to posts of a set, each by the post it wrote.
LEMMA RepliesPaired ==
    ASSUME NEW s, NEW l, IsList(l), Told(s, l), NEW V, V \subseteq DOMAIN s.posts,
           NEW W, NoPost \notin W
    PROVE  Cardinality(RepliesTo(l, V, W)) = Cardinality(Answering(s, V, W))
PROOF
<1>. DEFINE S == RepliesTo(l, V, W)
            T == Answering(s, V, W)
            f == [i \in S |-> l[i].data.post]
<1>1. \A i : i \in S <=>
         i \in Posted(l) /\ l[i].type = "reply" /\ l[i].data.post \in V /\ l[i].args.post \in W
    BY DEF RepliesTo
<1>2. \A p : p \in T <=> p \in V /\ s.posts[p].parent \in W
    BY DEF Answering
<1>3. f = [i \in S |-> l[i].data.post]
    OBVIOUS
<1>4. IsFiniteSet(S)
    <2>1. S \subseteq DOMAIN l
        BY <1>1 DEF Posted
    <2>. HIDE DEF S
    <2>. QED  BY <2>1, ListDomain, FS_Interval, FS_Subset
<1>. HIDE DEF S, T, f
<1>5. f \in [S -> T]
    BY <1>1, <1>2, <1>3, PostsRecorded DEF Holds
<1>6. \A x, y \in S : f[x] = f[y] => x = y
    BY <1>1, <1>3, PostsRecorded
<1>7. ASSUME NEW p \in T PROVE \E x \in S : f[x] = p
    <2>1. PICK i \in Posted(l) : l[i].data.post = p
        BY <1>2, PostsRecorded
    <2>2. Holds(s, l[i]) /\ p \in V /\ s.posts[p].parent \in W /\ s.posts[p].parent # NoPost
        BY <1>2, <2>1, PostsRecorded
    <2>3. l[i].type = "reply"
        BY <2>1, <2>2 DEF Holds, Posted
    <2>. QED  BY <1>1, <1>3, <2>1, <2>2, <2>3 DEF Holds
<1>8. Cardinality(S) = Cardinality(T)
    BY <1>4, <1>5, <1>6, <1>7, Paired
<1>. QED  BY <1>8 DEF S, T

LEMMA GraphTold ==
    ASSUME SocialOK(social), NEW names, AllFine(log, names), Told(social, log)
    PROVE  GraphAgrees
PROOF
<1>. DEFINE posts == social.posts
            written(b) == {p \in DOMAIN posts : posts[p].author = b}
            edges == BuildEdges(log)
            E(a, b, kind) == Leading(log, <<a, b, kind>>)
<1>0. /\ IsList(log) /\ DOMAIN PostAuthor(log) = DOMAIN posts
      /\ \A p \in DOMAIN posts : PostAuthor(log)[p] = posts[p].author
      /\ NoPost \notin DOMAIN posts
    <2>1. IsList(log)
        BY DEF AllFine
    <2>2. posts \in Seq(Post)
        BY DEF SocialOK, SocialState
    <2>3. NoPost \notin DOMAIN posts
        BY <2>2 DEF NoPost
    <2>. QED  BY <2>1, <2>3, AuthorsKnown
<1>. SUFFICES ASSUME NEW a \in Agents, NEW b \in Agents, a # b
              PROVE  /\ Weight(edges, a, b, "like") + Weight(edges, a, b, "dislike")
                          = Cardinality({p \in written(b) : a \in posts[p].voters})
                     /\ Weight(edges, a, b, "follow") > 0
                          <=> \E t \in social.follows[a] : b \in StandsFor(t)
                     /\ Weight(edges, a, b, "reply")
                          = Cardinality({p \in written(a) : posts[p].parent \in written(b)})
    BY DEF GraphAgrees
<1>. HIDE DEF posts
<1>1. /\ written(b) \in SUBSET DOMAIN posts /\ written(a) \in SUBSET DOMAIN posts
      /\ NoPost \notin written(b)
      /\ \A p : p \in written(b) <=> p \in DOMAIN posts /\ posts[p].author = b
      /\ \A p : p \in written(a) <=> p \in DOMAIN posts /\ posts[p].author = a
    BY <1>0
<1>. HIDE DEF written
<1>2. ASSUME NEW kind
      PROVE  /\ Weight(edges, a, b, kind) = Cardinality(E(a, b, kind))
             /\ IsFiniteSet(E(a, b, kind)) /\ Cardinality(E(a, b, kind)) \in Nat
             /\ Cardinality(E(a, b, kind)) = 0 <=> E(a, b, kind) = {}
    BY <1>0, WeightCounts, FS_CardinalityType, FS_EmptySet
<1>3. ASSUME NEW i \in DOMAIN log
      PROVE  /\ \A kind \in {"like", "dislike"} : i \in E(a, b, kind) <=>
                  /\ log[i].success /\ log[i].type = "vote" /\ log[i].agent = a
                  /\ kind = EdgeKind(log[i]) /\ log[i].args.post \in written(b)
             /\ i \in E(a, b, "reply") <=>
                  /\ log[i].success /\ log[i].type = "reply" /\ log[i].agent = a
                  /\ log[i].args.post \in written(b)
             /\ i \in E(a, b, "follow") <=>
                  /\ log[i].success /\ log[i].type = "follow" /\ log[i].agent = a
                  /\ b \in StandsFor(log[i].args.agent)
    <2>1. Fine(log[i], names)
        BY DEF AllFine
    <2>2. \A kind : i \in E(a, b, kind) <=> <<a, b, kind>> \in EdgesOf(PostAuthor(log), log[i])
        BY DEF Leading
    <2>3. log[i].args.post \in written(b) <=> /\ log[i].args.post \in DOMAIN PostAuthor(log)
                                              /\ PostAuthor(log)[log[i].args.post] = b
        BY <1>0, <1>1
    <2>. HIDE DEF E
    <2>4. PICK au : au = PostAuthor(log)
        OBVIOUS
    <2>5. PICK r : r = log[i]
        OBVIOUS
    <2>6. /\ \A kind \in {"like", "dislike"} : <<a, b, kind>> \in EdgesOf(au, r) <=>
                /\ r.success /\ r.type = "vote" /\ r.agent = a /\ kind = EdgeKind(r)
                /\ r.args.post \in DOMAIN au /\ au[r.args.post] = b
          /\ <<a, b, "reply">> \in EdgesOf(au, r) <=>
                /\ r.success /\ r.type = "reply" /\ r.agent = a
                /\ r.args.post \in DOMAIN au /\ au[r.args.post] = b
          /\ <<a, b, "follow">> \in EdgesOf(au, r) <=>
                r.success /\ r.type = "follow" /\ r.agent = a /\ b \in StandsFor(r.args.agent)
        BY <2>1, <2>5, EdgesAre
    <2>7. /\ \A kind : i \in E(a, b, kind) <=> <<a, b, kind>> \in EdgesOf(au, r)
          /\ r.args.post \in written(b) <=> r.args.post \in DOMAIN au /\ au[r.args.post] = b
        BY <2>2, <2>3, <2>4, <2>5
    <2>. QED  BY <2>5, <2>6, <2>7
<1>4. \A kind : E(a, b, kind) \subseteq DOMAIN log
    BY DEF Leading
<1>. HIDE DEF E, edges
<1>5. Weight(edges, a, b, "like") + Weight(edges, a, b, "dislike")
        = Cardinality({p \in written(b) : a \in posts[p].voters})
    <2>1. PICK V : V = VotesOn(log, a, written(b))
        OBVIOUS
    <2>2. Cardinality(V) = Cardinality({p \in written(b) : a \in posts[p].voters})
        <3>1. Cardinality(V) = Cardinality(VotedOn(social, a, written(b)))
            BY <1>0, <1>1, <2>1, VotesPaired DEF posts
        <3>. QED  BY <3>1 DEF VotedOn, posts
    <2>3. \A i \in DOMAIN log : log[i].type = "vote" => EdgeKind(log[i]) \in {"like", "dislike"}
        BY DEF EdgeKind
    <2>4. V = E(a, b, "like") \cup E(a, b, "dislike")
        BY <1>3, <1>4, <2>1, <2>3 DEF VotesOn
    <2>5. E(a, b, "like") \cap E(a, b, "dislike") = {}
        BY <1>3, <1>4
    <2>6. Cardinality(V) = Cardinality(E(a, b, "like")) + Cardinality(E(a, b, "dislike")) - 0
        BY <1>2, <2>4, <2>5, FS_Union, FS_EmptySet
    <2>. QED  BY <1>2, <2>2, <2>6
<1>6. Weight(edges, a, b, "follow") > 0 <=> \E t \in social.follows[a] : b \in StandsFor(t)
    <2>1. Weight(edges, a, b, "follow") > 0 <=> E(a, b, "follow") # {}
        BY <1>2
    <2>2. \A t : t \in social.follows[a] <=> \E i \in DOMAIN log : Deed(log[i]) = FollowedDeed(a, t)
        BY <1>0, TallyOne DEF Told, FollowsTold
    <2>3. ASSUME NEW i \in DOMAIN log
          PROVE  i \in E(a, b, "follow") <=>
                   \E t : b \in StandsFor(t) /\ Deed(log[i]) = FollowedDeed(a, t)
        <3>1. \A t : Deed(log[i]) = FollowedDeed(a, t) <=>
                 log[i].success /\ log[i].type = "follow" /\ log[i].agent = a /\ log[i].args.agent = t
            BY DeedOf
        <3>. QED  BY <1>3, <3>1
    <2>. QED  BY <1>4, <2>1, <2>2, <2>3
<1>7. Weight(edges, a, b, "reply")
        = Cardinality({p \in written(a) : posts[p].parent \in written(b)})
    <2>1. PICK S : S = RepliesTo(log, written(a), written(b))
        OBVIOUS
    <2>2. Cardinality(S) = Cardinality({p \in written(a) : posts[p].parent \in written(b)})
        <3>1. Cardinality(S) = Cardinality(Answering(social, written(a), written(b)))
            BY <1>0, <1>1, <2>1, RepliesPaired DEF posts
        <3>. QED  BY <3>1 DEF Answering, posts
    <2>3. \A i \in DOMAIN log : i \in S <=> /\ log[i].success /\ log[i].type = "reply"
                                            /\ log[i].agent = a /\ log[i].args.post \in written(b)
        BY <1>0, <1>1, <2>1, PostsRecorded DEF RepliesTo, Posted, Holds, posts
    <2>4. S = E(a, b, "reply")
        BY <1>3, <1>4, <2>1, <2>3 DEF RepliesTo, Posted
    <2>. QED  BY <1>2, <2>2, <2>4
<1>. QED  BY <1>5, <1>6, <1>7

(* Between rounds the weights of the graph built from the log are what the *)
(* platform holds: the votes one agent cast on another's posts, whether it *)
(* follows something that stands for the other, its id or its name, and its*)
(* replies to the other's posts (graph.py against environments/social.py). *)
THEOREM GraphAgreesTheorem == Spec => []GraphAgrees
PROOF
<1>. DEFINE Inv == ControlInv /\ WorldInv /\ ReportInv
<1>1. Init => Inv
    BY ControlInit, WorldInit, ReportInit
<1>2. Inv /\ [Next]_vars => Inv'
    BY ControlStep, WorldStep, ReportStep
<1>3. Inv => GraphAgrees
    <2>1. WorldInv => SocialOK(social)
        BY DEF WorldInv, WorldOK
    <2>2. Inv /\ ~Between => GraphAgrees
        BY DEF GraphAgrees
    <2>. QED  BY <2>1, <2>2, LogTells, GraphTold
<1>. HIDE DEF Inv
<1>. QED  BY <1>1, <1>2, <1>3, PTL DEF Spec

-----------------------------------------------------------------------------
(* The first of a ranking: by the marks e, and among equals by the places w. *)

Before(e, w, q, p) == e[q] > e[p] \/ (e[q] = e[p] /\ w[q] < w[p])
Betters(D, e, w, p) == {q \in D : Before(e, w, q, p)}
Firsts(D, e, w, n) == {p \in D : Cardinality(Betters(D, e, w, p)) < n}
Marked(D, e, w) ==
    /\ \A p \in D : e[p] \in Nat /\ w[p] \in Nat
    /\ \A p, q \in D : w[p] = w[q] => p = q

LEMMA BeforeOrders ==
    ASSUME NEW D, NEW e, NEW w, Marked(D, e, w)
    PROVE  /\ \A p \in D : ~Before(e, w, p, p)
           /\ \A p, q \in D : p # q => Before(e, w, p, q) \/ Before(e, w, q, p)
           /\ \A p, q \in D : Before(e, w, p, q) => ~Before(e, w, q, p)
           /\ \A p, q, r \in D : Before(e, w, p, q) /\ Before(e, w, q, r) => Before(e, w, p, r)
PROOF
    BY DEF Marked, Before

\* A part of the ranking that is not empty has a first.
LEMMA FirstOf ==
    ASSUME NEW D, IsFiniteSet(D), NEW e, NEW w, Marked(D, e, w), NEW S \in SUBSET D, S # {}
    PROVE  \E m \in S : \A q \in S \ {m} : Before(e, w, m, q)
PROOF
<1>. DEFINE Leads(s, m) == m \in s /\ \A q \in s \ {m} : Before(e, w, m, q)
            Bad == {s \in SUBSET D : s # {} /\ ~ \E m \in D : Leads(s, m)}
<1>1. ASSUME NEW s \in Bad PROVE \E x \in s : s \ {x} \in Bad
    <2>1. PICK x \in s : TRUE
        OBVIOUS
    <2>2. x \in D /\ s \in SUBSET D /\ ~ \E m \in D : Leads(s, m)
        BY <2>1
    <2>3. ASSUME s \ {x} = {} PROVE FALSE
        BY <2>1, <2>2, <2>3
    <2>4. ASSUME NEW m \in D, Leads(s \ {x}, m) PROVE FALSE
        <3>1. m \in s /\ m # x
            BY <2>4
        <3>2. CASE Before(e, w, m, x)
            <4>1. Leads(s, m)
                BY <2>4, <3>1, <3>2
            <4>. QED  BY <2>2, <4>1
        <3>3. CASE Before(e, w, x, m)
            <4>1. \A q \in s \ {x} : q \in D /\ (q = m \/ Before(e, w, m, q))
                BY <2>2, <2>4
            <4>2. \A q \in s \ {x} : Before(e, w, x, q)
                BY <2>2, <3>3, <4>1, BeforeOrders
            <4>3. Leads(s, x)
                BY <2>1, <4>2
            <4>. QED  BY <2>2, <4>3
        <3>. QED  BY <2>2, <3>1, <3>2, <3>3, BeforeOrders
    <2>. QED  BY <2>1, <2>2, <2>3, <2>4
<1>2. Bad = {}
    <2>1. Bad \in SUBSET (SUBSET D)
        OBVIOUS
    <2>. HIDE DEF Bad
    <2>. QED  BY <1>1, <2>1, SetDescent
<1>. QED  BY <1>2

LEMMA FirstsGrow ==
    ASSUME NEW D, IsFiniteSet(D), NEW e, NEW w, Marked(D, e, w), NEW n \in Nat, n < Cardinality(D),
           Cardinality(Firsts(D, e, w, n)) = n
    PROVE  Cardinality(Firsts(D, e, w, n + 1)) = n + 1
PROOF
<1>. DEFINE F == Firsts(D, e, w, n)
            B(p) == Betters(D, e, w, p)
<1>1. /\ F \in SUBSET D /\ IsFiniteSet(F)
      /\ \A p \in D : B(p) \in SUBSET D /\ IsFiniteSet(B(p)) /\ Cardinality(B(p)) \in Nat
      /\ \A p, q \in D : q \in B(p) <=> Before(e, w, q, p)
      /\ \A p \in D : p \in F <=> Cardinality(B(p)) < n
      /\ \A p \in D : p \in Firsts(D, e, w, n + 1) <=> Cardinality(B(p)) < n + 1
      /\ Firsts(D, e, w, n + 1) \subseteq D
    <2>1. \A p \in D : B(p) \in SUBSET D
        BY DEF Betters
    <2>2. \A p \in D : IsFiniteSet(B(p)) /\ Cardinality(B(p)) \in Nat
        <3>. HIDE DEF B
        <3>. QED  BY <2>1, SmallerSet
    <2>3. F \in SUBSET D
        BY DEF Firsts
    <2>4. IsFiniteSet(F)
        <3>. HIDE DEF F
        <3>. QED  BY <2>3, SmallerSet
    <2>5. \A p, q \in D : q \in B(p) <=> Before(e, w, q, p)
        BY DEF Betters
    <2>. QED  BY <2>1, <2>2, <2>3, <2>4, <2>5 DEF Firsts
<1>2. Cardinality(F) = n
    OBVIOUS
<1>. HIDE DEF F, B
<1>3. D \ F # {} /\ D \ F \in SUBSET D
    <2>1. F # D
        BY <1>2
    <2>. QED  BY <1>1, <2>1
<1>4. PICK m \in D \ F : \A q \in (D \ F) \ {m} : Before(e, w, m, q)
    BY <1>3, FirstOf
<1>5. \A p, q \in D : Before(e, w, p, q) => Cardinality(B(p)) < Cardinality(B(q))
    <2>. SUFFICES ASSUME NEW p \in D, NEW q \in D, Before(e, w, p, q)
                  PROVE  Cardinality(B(p)) < Cardinality(B(q))
        OBVIOUS
    <2>1. B(p) \subseteq B(q) /\ p \in B(q) /\ p \notin B(p)
        BY <1>1, BeforeOrders
    <2>2. Cardinality(B(p)) <= Cardinality(B(q)) /\ B(p) # B(q)
        BY <1>1, <2>1, FS_Subset
    <2>3. Cardinality(B(p)) = Cardinality(B(q)) => B(p) = B(q)
        BY <1>1, <2>1, FS_Subset
    <2>. QED  BY <1>1, <2>2, <2>3
<1>6. B(m) = F
    <2>1. ASSUME NEW p \in F PROVE p \in B(m)
        <3>1. p \in D /\ p # m
            BY <1>1, <1>4
        <3>2. ~Before(e, w, m, p)
            BY <1>1, <1>4, <1>5, <3>1
        <3>. QED  BY <1>1, <1>4, <3>1, <3>2, BeforeOrders
    <2>2. ASSUME NEW p \in B(m), p \notin F PROVE FALSE
        <3>1. p \in D /\ Before(e, w, p, m)
            BY <1>1, <1>4
        <3>2. p # m /\ ~Before(e, w, m, p)
            BY <1>4, <3>1, BeforeOrders
        <3>. QED  BY <1>4, <2>2, <3>1, <3>2
    <2>. QED  BY <2>1, <2>2
<1>7. Firsts(D, e, w, n + 1) = F \cup {m}
    <2>1. m \in Firsts(D, e, w, n + 1)
        BY <1>1, <1>2, <1>4, <1>6
    <2>2. \A p \in F : p \in Firsts(D, e, w, n + 1)
        BY <1>1
    <2>3. ASSUME NEW p \in Firsts(D, e, w, n + 1), p \notin F, p # m PROVE FALSE
        <3>1. p \in D /\ Before(e, w, m, p)
            BY <1>1, <1>4, <2>3
        <3>2. Cardinality(B(m)) < Cardinality(B(p)) /\ Cardinality(B(p)) < n + 1
            BY <1>1, <1>4, <1>5, <3>1
        <3>. QED  BY <1>1, <1>2, <1>6, <3>1, <3>2
    <2>. QED  BY <2>1, <2>2, <2>3
<1>8. Cardinality(F \cup {m}) = Cardinality(F) + 1
    BY <1>1, <1>4, FS_AddElement
<1>. QED  BY <1>2, <1>7, <1>8

\* There are as many firsts as are asked for, or all there are.
LEMMA FirstsCounted ==
    ASSUME NEW D, IsFiniteSet(D), NEW e, NEW w, Marked(D, e, w), NEW k \in Nat
    PROVE  Cardinality(Firsts(D, e, w, k)) = IF Cardinality(D) <= k THEN Cardinality(D) ELSE k
PROOF
<1>. DEFINE Wrong == {n \in Nat : n <= Cardinality(D) /\ Cardinality(Firsts(D, e, w, n)) # n}
<1>0. Cardinality(D) \in Nat
    BY FS_CardinalityType
<1>1. Cardinality(Firsts(D, e, w, 0)) = 0
    <2>1. \A p \in D : Cardinality(Betters(D, e, w, p)) \in Nat
        BY SmallerSet DEF Betters
    <2>2. Firsts(D, e, w, 0) = {}
        BY <2>1 DEF Firsts
    <2>. QED  BY <2>2, FS_EmptySet
<1>2. ASSUME NEW n \in Wrong PROVE \E j \in Wrong : j < n
    <2>1. n \in Nat /\ n # 0 /\ n <= Cardinality(D)
        BY <1>1
    <2>2. PICK j \in Nat : n = j + 1
        <3>1. n - 1 \in Nat /\ n = (n - 1) + 1
            BY <2>1
        <3>. QED  BY <3>1
    <2>3. Cardinality(Firsts(D, e, w, j)) = j => Cardinality(Firsts(D, e, w, n)) = n
        <3>1. j < Cardinality(D)
            BY <1>0, <2>1, <2>2
        <3>. QED  BY <2>2, <3>1, FirstsGrow
    <2>. QED  BY <1>0, <2>1, <2>2, <2>3
<1>3. Wrong = {}
    <2>1. Wrong \in SUBSET Nat
        OBVIOUS
    <2>. HIDE DEF Wrong
    <2>. QED  BY <1>2, <2>1, Descent
<1>4. CASE Cardinality(D) <= k
    <2>1. ASSUME NEW p \in D PROVE Cardinality(Betters(D, e, w, p)) < k
        <3>1. Betters(D, e, w, p) \subseteq D \ {p}
            BY BeforeOrders DEF Betters
        <3>2. IsFiniteSet(D \ {p}) /\ Cardinality(D \ {p}) = Cardinality(D) - 1
            BY FS_RemoveElement
        <3>3. /\ Cardinality(Betters(D, e, w, p)) <= Cardinality(D \ {p})
              /\ Cardinality(Betters(D, e, w, p)) \in Nat
            BY <3>1, <3>2, FS_Subset, FS_CardinalityType
        <3>. QED  BY <1>0, <1>4, <3>2, <3>3
    <2>2. Firsts(D, e, w, k) = D
        BY <2>1 DEF Firsts
    <2>. QED  BY <1>4, <2>2
<1>5. CASE ~(Cardinality(D) <= k)
    BY <1>0, <1>3, <1>5
<1>. QED  BY <1>4, <1>5

\* Nothing left out has a greater mark than a first.
LEMMA FirstsLead ==
    ASSUME NEW D, IsFiniteSet(D), NEW e, NEW w, Marked(D, e, w), NEW k \in Nat,
           NEW p \in Firsts(D, e, w, k), NEW q \in D, q \notin Firsts(D, e, w, k)
    PROVE  e[q] <= e[p]
PROOF
<1>0. p \in D /\ e[p] \in Nat /\ e[q] \in Nat
    BY DEF Firsts, Marked
<1>1. ASSUME e[q] > e[p] PROVE FALSE
    <2>1. Before(e, w, q, p)
        BY <1>1 DEF Before
    <2>2. Betters(D, e, w, q) \subseteq Betters(D, e, w, p)
        BY <1>0, <2>1, BeforeOrders DEF Betters
    <2>3. IsFiniteSet(Betters(D, e, w, p)) /\ IsFiniteSet(Betters(D, e, w, q))
        BY SmallerSet DEF Betters
    <2>4. Cardinality(Betters(D, e, w, q)) <= Cardinality(Betters(D, e, w, p))
        BY <2>2, <2>3, FS_Subset
    <2>5. /\ Cardinality(Betters(D, e, w, q)) \in Nat /\ Cardinality(Betters(D, e, w, p)) \in Nat
          /\ Cardinality(Betters(D, e, w, p)) < k /\ ~(Cardinality(Betters(D, e, w, q)) < k)
        BY <2>3, FS_CardinalityType DEF Firsts
    <2>. QED  BY <2>4, <2>5
<1>. QED  BY <1>0, <1>1

-----------------------------------------------------------------------------
(* The tables: every record is counted in one place, and the feed has what   *)
(* the platform has.                                                         *)

\* The members of a set, counted by the value they have.
LEMMA Fibres ==
    ASSUME NEW S, IsFiniteSet(S), NEW V, IsFiniteSet(V), NEW f, \A i \in S : f[i] \in V
    PROVE  Sum([v \in V |-> Cardinality({i \in S : f[i] = v})]) = Cardinality(S)
PROOF
<1>. DEFINE Of(s, v) == {i \in s : f[i] = v}
            F(s) == [v \in V |-> Cardinality(Of(s, v))]
            Bad == {s \in SUBSET S : Sum(F(s)) # Cardinality(s)}
<1>1. ASSUME NEW s \in SUBSET S, NEW v \in V
      PROVE  F(s)[v] = Cardinality(Of(s, v)) /\ F(s)[v] \in Int /\ IsFiniteSet(Of(s, v))
    <2>1. Of(s, v) \in SUBSET S
        OBVIOUS
    <2>. HIDE DEF Of
    <2>. QED  BY <2>1, SmallerSet
<1>2. ASSUME NEW s \in Bad PROVE \E x \in s : s \ {x} \in Bad
    <2>1. s \in SUBSET S /\ Sum(F(s)) # Cardinality(s)
        OBVIOUS
    <2>2. s # {}
        <3>1. ASSUME s = {} PROVE Sum(F(s)) = 0
            <4>1. \A v \in V : Of(s, v) = {}
                BY <3>1
            <4>. HIDE DEF Of
            <4>2. F(s) = [v \in V |-> 0]
                BY <4>1, FS_EmptySet
            <4>3. Sum([v \in V |-> 0]) = 0
                <5>1. Numbers([v \in V |-> 0]) /\ \A v \in V : [w \in V |-> 0][v] = 0
                    BY DEF Numbers
                <5>2. PICK z : z = [v \in V |-> 0]
                    OBVIOUS
                <5>3. Numbers(z) /\ \A v \in DOMAIN z : z[v] >= 0 /\ z[v] <= 0
                    BY <5>1, <5>2
                <5>4. Sum(z) \in Int /\ Sum(z) >= 0 /\ Sum(z) <= 0
                    BY <5>3, SumFacts
                <5>. QED  BY <5>2, <5>4
            <4>. HIDE DEF F
            <4>. QED  BY <4>2, <4>3
        <3>. QED  BY <2>1, <3>1, FS_EmptySet
    <2>3. PICK x \in s : TRUE
        BY <2>2
    <2>4. PICK t : t = s \ {x}
        OBVIOUS
    <2>4a. t \in SUBSET S /\ Cardinality(t) = Cardinality(s) - 1 /\ Cardinality(s) \in Nat
        BY <2>1, <2>3, <2>4, SmallerSet
    <2>5. f[x] \in V
        BY <2>1, <2>3
    <2>6. \A v \in V : v # f[x] => Of(s, v) = Of(t, v)
        BY <2>4
    <2>7. x \notin Of(t, f[x]) /\ Of(s, f[x]) = Of(t, f[x]) \cup {x}
        BY <2>3, <2>4
    <2>. HIDE DEF Of
    <2>8. F(s)[f[x]] = F(t)[f[x]] + 1 /\ F(t)[f[x]] \in Int
        <3>1. PICK T : T = Of(t, f[x])
            OBVIOUS
        <3>2. /\ F(t)[f[x]] = Cardinality(T) /\ F(t)[f[x]] \in Int /\ IsFiniteSet(T)
              /\ F(s)[f[x]] = Cardinality(T \cup {x}) /\ x \notin T
            BY <1>1, <2>1, <2>4a, <2>5, <2>7, <3>1
        <3>3. Cardinality(T \cup {x}) = Cardinality(T) + 1
            BY <3>2, FS_AddElement
        <3>. QED  BY <3>2, <3>3
    <2>9. \A v \in V : v # f[x] => F(s)[v] = F(t)[v]
        BY <2>6
    <2>10. F(s) \in [V -> Int] /\ F(t) \in [V -> Int]
        BY <1>1, <2>1, <2>4a
    <2>11. PICK h \in [V -> Int] : h = F(s)
        BY <2>10
    <2>12. PICK g \in [V -> Int] : g = F(t)
        BY <2>10
    <2>13. PICK y \in V : y = f[x]
        BY <2>5
    <2>14. h[y] = g[y] + 1 /\ \A v \in V : v # y => h[v] = g[v]
        BY <2>8, <2>9, <2>11, <2>12, <2>13
    <2>15. Sum(h) = Sum(g) - g[y] + h[y] /\ Sum(g) \in Int /\ g[y] \in Int
        <3>1. Numbers(g)
            BY DEF Numbers
        <3>2. Sum(g) \in Int /\ g[y] \in Int
            BY <3>1, SumFacts
        <3>3. Sum(h) = Sum(g) - g[y] + h[y]
            BY <2>14, SumChange
        <3>. QED  BY <3>2, <3>3
    <2>16. Sum(h) = Sum(g) + 1
        BY <2>14, <2>15
    <2>17. Sum(F(t)) # Cardinality(t)
        BY <2>1, <2>4a, <2>11, <2>12, <2>15, <2>16
    <2>. QED  BY <2>3, <2>4, <2>4a, <2>17
<1>3. Bad = {}
    <2>1. Bad \in SUBSET (SUBSET S)
        OBVIOUS
    <2>. HIDE DEF Bad
    <2>. QED  BY <1>2, <2>1, SetDescent
<1>. QED  BY <1>3

By(l, a) == {i \in DOMAIN l : l[i].agent = a}
ByIn(l, a, n) == {i \in DOMAIN l : l[i].agent = a /\ l[i].round = n /\ l[i].type = "create_post"}
Wrote(l, a) == {i \in DOMAIN l : l[i].agent = a /\ l[i].type = "create_post"}
Acting(l) == {l[i].agent : i \in DOMAIN l}
RoundsOf(l, a) == {l[i].round : i \in By(l, a)}

LEMMA CardsAndPaths ==
    ASSUME NEW l, IsList(l)
    PROVE  /\ DOMAIN Profiles(l) = Acting(l)
           /\ \A a \in Acting(l) :
                /\ Profiles(l)[a].actions = Cardinality(By(l, a))
                /\ Profiles(l)[a].posts = Cardinality(Wrote(l, a))
                /\ Profiles(l)[a].rounds = Cardinality(RoundsOf(l, a))
                /\ DOMAIN Trajectories(l)[a] = RoundsOf(l, a)
                /\ \A n \in RoundsOf(l, a) : Trajectories(l)[a][n].posts = Cardinality(ByIn(l, a, n))
           /\ \A a \in Agents : BuildNodes(l)[a] =
                [actions |-> Cardinality(By(l, a)), posts |-> Cardinality(Wrote(l, a)),
                 rounds |-> Cardinality(RoundsOf(l, a))]
PROOF
    BY DEF Profiles, Trajectories, BuildNodes, Count, Matching, By, ByIn, Wrote, Acting, RoundsOf

LEMMA ActivityTold ==
    ASSUME NEW names, AllFine(log, names)
    PROVE  ActivityAddsUp
PROOF
<1>. DEFINE cards == Profiles(log)
            paths == Trajectories(log)
<1>0. IsList(log) /\ IsFiniteSet(DOMAIN log) /\ Cardinality(DOMAIN log) = Len(log)
    BY ListDomain, FS_Interval DEF AllFine
<1>1. Sum([a \in DOMAIN cards |-> cards[a].actions]) = Len(log)
    <2>1. PICK f : f = [i \in DOMAIN log |-> log[i].agent]
        OBVIOUS
    <2>2. PICK V : V = Acting(log)
        OBVIOUS
    <2>3. IsFiniteSet(V)
        BY <2>2, BaseAssumption, FS_Subset DEF Acting, AllFine, Fine
    <2>4. \A i \in DOMAIN log : f[i] \in V
        BY <2>1, <2>2 DEF Acting
    <2>5. PICK D : D = DOMAIN log
        OBVIOUS
    <2>6. Sum([v \in V |-> Cardinality({i \in D : f[i] = v})]) = Cardinality(D)
        BY <1>0, <2>3, <2>4, <2>5, Fibres
    <2>7. \A v \in V : {i \in D : f[i] = v} = By(log, v)
        BY <2>1, <2>5 DEF By
    <2>8. [v \in V |-> Cardinality({i \in D : f[i] = v})] = [a \in DOMAIN cards |-> cards[a].actions]
        <3>1. DOMAIN cards = V /\ \A v \in V : cards[v].actions = Cardinality(By(log, v))
            BY <1>0, <2>2, CardsAndPaths
        <3>. HIDE DEF cards
        <3>. QED  BY <2>7, <3>1
    <2>. QED  BY <1>0, <2>5, <2>6, <2>8
<1>2. ASSUME NEW a \in DOMAIN cards
      PROVE  /\ cards[a].rounds = Cardinality(DOMAIN paths[a])
             /\ cards[a].posts = Sum([n \in DOMAIN paths[a] |-> paths[a][n].posts])
             /\ BuildNodes(log)[a] = [actions |-> cards[a].actions, posts |-> cards[a].posts,
                                      rounds |-> cards[a].rounds]
    <2>1. a \in Acting(log) /\ a \in Agents
        <3>1. a \in Acting(log)
            BY <1>0, CardsAndPaths
        <3>. QED  BY <3>1 DEF AllFine, Fine, Acting
    <2>2. PICK D : D = Wrote(log, a)
        OBVIOUS
    <2>3. PICK f : f = [i \in D |-> log[i].round]
        OBVIOUS
    <2>4. PICK V : V = RoundsOf(log, a)
        OBVIOUS
    <2>5. IsFiniteSet(By(log, a)) /\ IsFiniteSet(D)
        BY <1>0, <2>2, FS_Subset DEF By, Wrote
    <2>6. IsFiniteSet(V)
        <3>1. PICK B : B = By(log, a)
            OBVIOUS
        <3>2. PICK g : g = [i \in B |-> log[i].round]
            OBVIOUS
        <3>3. g \in Surjection(B, V)
            BY <2>4, <3>1, <3>2 DEF RoundsOf, Surjection
        <3>. QED  BY <2>5, <3>1, <3>3, FS_Surjection
    <2>7. \A i \in D : f[i] \in V
        BY <2>2, <2>3, <2>4 DEF Wrote, RoundsOf, By
    <2>8. Sum([v \in V |-> Cardinality({i \in D : f[i] = v})]) = Cardinality(D)
        BY <2>5, <2>6, <2>7, Fibres
    <2>9. \A v \in V : {i \in D : f[i] = v} = ByIn(log, a, v)
        BY <2>2, <2>3 DEF Wrote, ByIn
    <2>10. [v \in V |-> Cardinality({i \in D : f[i] = v})] = [n \in DOMAIN paths[a] |-> paths[a][n].posts]
        <3>1. DOMAIN paths[a] = V /\ \A v \in V : paths[a][v].posts = Cardinality(ByIn(log, a, v))
            BY <1>0, <2>1, <2>4, CardsAndPaths
        <3>. HIDE DEF paths
        <3>. QED  BY <2>9, <3>1
    <2>11. cards[a].posts = Sum([n \in DOMAIN paths[a] |-> paths[a][n].posts])
        BY <1>0, <2>1, <2>2, <2>8, <2>10, CardsAndPaths
    <2>. QED  BY <1>0, <2>1, <2>11, CardsAndPaths
<1>. QED  BY <1>1, <1>2 DEF ActivityAddsUp

Sharing(l, p) == {i \in DOMAIN l : Aims(l[i], p) /\ l[i].type \in {"repost", "reply"}}
Liking(l, p) == {i \in DOMAIN l : Aims(l[i], p) /\ Liked(l[i])}
Disliking(l, p) == {i \in DOMAIN l : Aims(l[i], p) /\ l[i].type = "vote" /\ ~Liked(l[i])}
CreatedIn(l, n) == {i \in DOMAIN l : l[i].round = n /\ l[i].type = "create_post"}

LEMMA TablesCount ==
    ASSUME NEW l, IsList(l)
    PROVE  /\ CreatedPosts(l) = {l[i].data.post : i \in PostsIn(l)}
           /\ \A p \in DOMAIN TopPosts(l) :
                TopPosts(l)[p] = [likes |-> Cardinality(Liking(l, p)),
                                  dislikes |-> Cardinality(Disliking(l, p)),
                                  shares |-> Cardinality(Sharing(l, p))]
           /\ DOMAIN EngagementSummary(l) = RoundsIn(l)
           /\ \A n \in RoundsIn(l) : EngagementSummary(l)[n].posts = Cardinality(CreatedIn(l, n))
PROOF
<1>1. /\ CreatedPosts(l) = {l[i].data.post : i \in PostsIn(l)}
      /\ \A p \in DOMAIN TopPosts(l) :
           TopPosts(l)[p] = [likes |-> Cardinality(Liking(l, p)),
                             dislikes |-> Cardinality(Disliking(l, p)),
                             shares |-> Cardinality(Sharing(l, p))]
    BY DEF TopPosts, Likes, Dislikes, Shares, CreatedPosts, Created, Count, Matching,
           Sharing, Liking, Disliking, PostsIn
<1>2. /\ DOMAIN EngagementSummary(l) = RoundsIn(l)
      /\ \A n \in RoundsIn(l) : EngagementSummary(l)[n].posts = Cardinality(CreatedIn(l, n))
    BY DEF EngagementSummary, Count, Matching, CreatedIn
<1>. QED  BY <1>1, <1>2

\* The feed is the first of a ranking of the posts.
LEMMA FeedRanked ==
    ASSUME NEW l, IsList(l), NEW D, D = CreatedPosts(l)
    PROVE  \E e, w : /\ Marked(D, e, w)
                     /\ DOMAIN TopPosts(l) = Firsts(D, e, w, TopLimit)
                     /\ \A p \in D : e[p] = Cardinality(Liking(l, p)) + Cardinality(Sharing(l, p))
PROOF
<1>1. PICK e : e = [p \in D |-> Engagement(l, p)]
    OBVIOUS
<1>2. PICK w : w = [p \in D |-> Place(l, p)]
    OBVIOUS
<1>3. \A p \in D : e[p] = Engagement(l, p) /\ w[p] = Place(l, p)
    BY <1>1, <1>2
<1>4. ASSUME NEW p
      PROVE  /\ Engagement(l, p) = Cardinality(Liking(l, p)) + Cardinality(Sharing(l, p))
             /\ Cardinality(Liking(l, p)) \in Nat /\ Cardinality(Sharing(l, p)) \in Nat
    <2>1. IsFiniteSet(DOMAIN l)
        BY ListDomain, FS_Interval
    <2>2. IsFiniteSet(Liking(l, p)) /\ IsFiniteSet(Sharing(l, p))
        BY <2>1, FS_Subset DEF Liking, Sharing
    <2>3. Likes(l, p) = Cardinality(Liking(l, p)) /\ Shares(l, p) = Cardinality(Sharing(l, p))
        BY DEF Likes, Shares, Liking, Sharing, Count, Matching
    <2>. QED  BY <2>2, <2>3, FS_CardinalityType DEF Engagement
<1>5. ASSUME NEW p \in D PROVE Place(l, p) \in Nat /\ l[Place(l, p)].data.post = p
    <2>1. \E i \in Created(l) : l[i].data.post = p
        BY DEF CreatedPosts
    <2>2. Place(l, p) \in Created(l) /\ l[Place(l, p)].data.post = p
        BY <2>1 DEF Place
    <2>3. Created(l) \subseteq DOMAIN l /\ DOMAIN l \subseteq Nat
        BY ListDomain DEF Created, Matching
    <2>. QED  BY <2>2, <2>3
<1>6. Marked(D, e, w)
    <2>1. \A p \in D : e[p] \in Nat /\ w[p] \in Nat
        BY <1>3, <1>4, <1>5
    <2>2. \A p, q \in D : w[p] = w[q] => p = q
        BY <1>3, <1>5
    <2>. QED  BY <2>1, <2>2 DEF Marked
<1>7. DOMAIN TopPosts(l) = {p \in D : Cardinality({q \in D : Ahead(l, q, p)}) < TopLimit}
    BY DEF TopPosts
<1>8. ASSUME NEW p \in D PROVE {q \in D : Ahead(l, q, p)} = Betters(D, e, w, p)
    <2>1. \A q \in D : Ahead(l, q, p) <=> Before(e, w, q, p)
        BY <1>3 DEF Ahead, Before
    <2>. QED  BY <2>1 DEF Betters
<1>9. DOMAIN TopPosts(l) = Firsts(D, e, w, TopLimit)
    BY <1>7, <1>8 DEF Firsts
<1>. QED  BY <1>3, <1>4, <1>6, <1>9

\* Whoever voted on a post has a vote call on it in the list.
LEMMA VotersCounted ==
    ASSUME NEW s, SocialOK(s), NEW l, NEW names, AllFine(l, names), Told(s, l), NEW p \in DOMAIN s.posts
    PROVE  Cardinality(Liking(l, p)) + Cardinality(Disliking(l, p)) >= Cardinality(s.posts[p].voters)
PROOF
<1>. DEFINE S == {i \in DOMAIN l : l[i].success /\ l[i].type = "vote" /\ l[i].args.post = p}
            T == s.posts[p].voters
            f == [i \in S |-> l[i].agent]
            A == Liking(l, p)
            B == Disliking(l, p)
<1>0. IsList(l) /\ IsFiniteSet(DOMAIN l)
    BY ListDomain, FS_Interval DEF AllFine
<1>1. ASSUME NEW i \in S
      PROVE  /\ i \in DOMAIN l /\ f[i] \in T
             /\ Deed(l[i]) = VotedDeed(f[i], p) /\ Tally(l, VotedDeed(f[i], p)) = 1
    <2>1. /\ i \in DOMAIN l /\ f[i] = l[i].agent
          /\ l[i].success /\ l[i].type = "vote" /\ l[i].args.post = p
        OBVIOUS
    <2>. HIDE DEF S, f
    <2>2. Deed(l[i]) = VotedDeed(f[i], p)
        BY <2>1, DeedOf
    <2>3. Tally(l, VotedDeed(f[i], p)) > 0
        BY <1>0, <2>1, <2>2, TallyOne
    <2>. QED  BY <2>1, <2>2, <2>3 DEF Told, VotesTold
<1>2. ASSUME NEW a \in T PROVE \E i \in S : f[i] = a
    <2>1. Tally(l, VotedDeed(a, p)) = 1
        BY DEF Told, VotesTold
    <2>2. PICK i \in DOMAIN l : Deed(l[i]) = VotedDeed(a, p)
        BY <1>0, <2>1, TallyOne
    <2>3. l[i].success /\ l[i].type = "vote" /\ l[i].args.post = p /\ l[i].agent = a
        BY <2>2, DeedOf
    <2>. QED  BY <2>3
<1>3. S \subseteq A \cup B /\ A \cap B = {} /\ A \subseteq DOMAIN l /\ B \subseteq DOMAIN l
    BY DEF Liking, Disliking, Liked, Aims, AllFine, Fine
<1>4. IsFiniteSet(S) /\ DOMAIN f = S
    BY <1>0, FS_Subset
<1>. HIDE DEF S, T, f, A, B
<1>5. f \in [S -> T]
    <2>1. f = [i \in S |-> f[i]]
        BY DEF f
    <2>. QED  BY <1>1, <2>1
<1>6. \A x, y \in S : f[x] = f[y] => x = y
    BY <1>0, <1>1, TallyOne
<1>7. Cardinality(S) = Cardinality(T) /\ Cardinality(S) \in Nat
    BY <1>2, <1>4, <1>5, <1>6, Paired
<1>8. IsFiniteSet(A) /\ IsFiniteSet(B) /\ Cardinality(A) \in Nat /\ Cardinality(B) \in Nat
    BY <1>0, <1>3, FS_Subset, FS_CardinalityType
<1>9. IsFiniteSet(A \cup B) /\ Cardinality(A \cup B) = Cardinality(A) + Cardinality(B) - 0
    BY <1>3, <1>8, FS_Union, FS_EmptySet
<1>10. Cardinality(S) <= Cardinality(A \cup B)
    BY <1>3, <1>9, FS_Subset
<1>11. Cardinality(A) + Cardinality(B) >= Cardinality(T)
    BY <1>7, <1>8, <1>9, <1>10
<1>. QED  BY <1>11 DEF A, B, T

\* The shares of a post are its accepted reposts and its replies: a refused call names no post.
LEMMA SharesCounted ==
    ASSUME NEW s, SocialOK(s), NEW l, NEW names, AllFine(l, names), "social" \in names, Told(s, l),
           NEW p \in DOMAIN s.posts, p # NoPost
    PROVE  Cardinality(Sharing(l, p)) = s.posts[p].reposts + Cardinality(Replies(s, p))
PROOF
<1>. DEFINE A == Places(l, SharedDeed(p))
            B == RepliesTo(l, DOMAIN s.posts, {p})
<1>0. IsList(l)
    BY DEF AllFine
<1>1. IsFiniteSet(A) /\ Cardinality(A) = s.posts[p].reposts /\ Cardinality(A) \in Nat
    BY <1>0, PlacesFinite DEF Told, SharesTold, Tally
<1>2. B \subseteq DOMAIN l /\ IsFiniteSet(DOMAIN l)
    <2>1. IsFiniteSet(DOMAIN l)
        BY <1>0, ListDomain, FS_Interval
    <2>. QED  BY <2>1 DEF RepliesTo, Posted
<1>3. IsFiniteSet(B) /\ Cardinality(B) \in Nat
    BY <1>2, FS_Subset, FS_CardinalityType
<1>4. Cardinality(B) = Cardinality(Replies(s, p))
    <2>1. Cardinality(B) = Cardinality(Answering(s, DOMAIN s.posts, {p}))
        BY <1>0, RepliesPaired
    <2>2. Answering(s, DOMAIN s.posts, {p}) = Replies(s, p)
        BY DEF Answering, Replies
    <2>. QED  BY <2>1, <2>2
<1>5. ASSUME NEW i \in DOMAIN l
      PROVE  /\ i \in Sharing(l, p) <=> i \in A \/ i \in B
             /\ ~(i \in A /\ i \in B)
    <2>1. l[i].type \in {"reply", "repost"} =>
             "post" \in DOMAIN l[i].args /\ (l[i].args.post = p => l[i].success)
        BY DEF AllFine, Fine
    <2>2. i \in A <=> l[i].success /\ l[i].type = "repost" /\ l[i].args.post = p
        BY DeedOf DEF Places
    <2>3. i \in B <=> l[i].success /\ l[i].type = "reply" /\ l[i].args.post = p
        <3>1. i \in Posted(l) => Holds(s, l[i])
            BY <1>0, PostsRecorded
        <3>. QED  BY <3>1 DEF RepliesTo, Posted, Holds
    <2>4. i \in Sharing(l, p) <=> "post" \in DOMAIN l[i].args /\ l[i].args.post = p
                                   /\ l[i].type \in {"repost", "reply"}
        BY DEF Sharing, Aims
    <2>. QED  BY <2>1, <2>2, <2>3, <2>4
<1>6. A \subseteq DOMAIN l /\ Sharing(l, p) \subseteq DOMAIN l
    BY DEF Places, Sharing
<1>. HIDE DEF A, B
<1>7. Sharing(l, p) = A \cup B /\ A \cap B = {}
    BY <1>2, <1>5, <1>6
<1>8. Cardinality(A \cup B) = Cardinality(A) + Cardinality(B) - Cardinality(A \cap B)
    BY <1>1, <1>3, FS_Union
<1>9. Cardinality(A \cap B) = 0
    BY <1>7, FS_EmptySet
<1>. QED  BY <1>1, <1>3, <1>4, <1>7, <1>8, <1>9

\* The posts written in a round, each by its record.
LEMMA CreatedCounted ==
    ASSUME NEW s, SocialOK(s), NEW l, NEW names, AllFine(l, names), "social" \in names, Told(s, l), NEW n \in Nat
    PROVE  Cardinality(CreatedIn(l, n)) = Cardinality({p \in TopLevel(s) : s.posts[p].created = n - 1})
PROOF
<1>. DEFINE S == CreatedIn(l, n)
            T == {p \in TopLevel(s) : s.posts[p].created = n - 1}
            f == [i \in S |-> l[i].data.post]
<1>0. IsList(l) /\ IsFiniteSet(DOMAIN l)
    BY ListDomain, FS_Interval DEF AllFine
<1>1. ASSUME NEW i \in S
      PROVE  i \in Posted(l) /\ f[i] = l[i].data.post /\ f[i] \in T
    <2>1. i \in DOMAIN l /\ l[i].type = "create_post" /\ l[i].round = n /\ l[i].success
        BY DEF CreatedIn, AllFine, Fine
    <2>2. i \in Posted(l) /\ Holds(s, l[i])
        BY <1>0, <2>1, PostsRecorded DEF Posted
    <2>. QED  BY <2>1, <2>2 DEF Holds, TopLevel
<1>2. ASSUME NEW p \in T PROVE \E i \in S : f[i] = p
    <2>1. p \in DOMAIN s.posts /\ s.posts[p].parent = NoPost /\ s.posts[p].created = n - 1
        BY DEF TopLevel
    <2>2. PICK i \in Posted(l) : l[i].data.post = p
        BY <1>0, <2>1, PostsRecorded
    <2>3. Holds(s, l[i]) /\ i \in DOMAIN l /\ l[i].type \in {"create_post", "reply"} /\ l[i].round \in Nat
        BY <1>0, <2>2, PostsRecorded DEF Posted, AllFine, Fine
    <2>4. l[i].type = "create_post" /\ l[i].round - 1 = n - 1
        BY <2>1, <2>2, <2>3 DEF Holds
    <2>5. i \in S
        BY <2>3, <2>4 DEF CreatedIn
    <2>. QED  BY <2>2, <2>5
<1>3. IsFiniteSet(S)
    BY <1>0, FS_Subset DEF CreatedIn
<1>4. f = [i \in S |-> f[i]]
    OBVIOUS
<1>. HIDE DEF S, T, f
<1>5. f \in [S -> T]
    BY <1>1, <1>4
<1>6. \A x, y \in S : f[x] = f[y] => x = y
    BY <1>0, <1>1, PostsRecorded
<1>7. Cardinality(S) = Cardinality(T)
    BY <1>2, <1>3, <1>5, <1>6, Paired
<1>. QED  BY <1>7 DEF S, T

\* The follow calls of the list are the follows of the platform.
LEMMA FollowsRecorded ==
    ASSUME NEW s, SocialOK(s), NEW l, NEW names, AllFine(l, names), Told(s, l)
    PROVE  /\ \A g \in Follows(l) : g = <<g[1], g[2]>>
           /\ \A a, b : <<a, b>> \in Follows(l) <=>
                a \in Agents /\ b \in s.follows[a] /\ b # NoHandle
PROOF
<1>0. IsList(l)
    BY DEF AllFine
<1>1. ASSUME NEW g \in Follows(l) PROVE g = <<g[1], g[2]>>
    <2>1. PICK i : g = <<l[i].agent, l[i].args.agent>>
        BY DEF Follows
    <2>. QED  BY <2>1
<1>2. ASSUME NEW a, NEW b
      PROVE  <<a, b>> \in Follows(l) <=>
               b # NoHandle /\ \E i \in DOMAIN l : Deed(l[i]) = FollowedDeed(a, b)
    BY DeedOf DEF Follows, Matching
<1>3. \A a, b : <<a, b>> \in Follows(l) <=> a \in Agents /\ b \in s.follows[a] /\ b # NoHandle
    <2>. SUFFICES ASSUME NEW a, NEW b
                  PROVE  <<a, b>> \in Follows(l) <=> a \in Agents /\ b \in s.follows[a] /\ b # NoHandle
        OBVIOUS
    <2>. DEFINE d == FollowedDeed(a, b)
    <2>1. Tally(l, d) > 0 <=> a \in Agents /\ b \in s.follows[a]
        BY DEF Told, FollowsTold
    <2>2. <<a, b>> \in Follows(l) <=> b # NoHandle /\ \E i \in DOMAIN l : Deed(l[i]) = d
        BY <1>2
    <2>. HIDE DEF d
    <2>3. Tally(l, d) > 0 <=> \E i \in DOMAIN l : Deed(l[i]) = d
        BY <1>0, TallyOne
    <2>. QED  BY <2>1, <2>2, <2>3
<1>. QED  BY <1>1, <1>3

LEMMA FeedTold ==
    ASSUME SocialOK(social), NEW names, AllFine(log, names), "social" \in names, Told(social, log)
    PROVE  FeedAgrees
PROOF
<1>. DEFINE feed == TopPosts(log)
            summary == EngagementSummary(log)
            mutual == {e \in Agents \X Agents : /\ e[2] \in social.follows[e[1]]
                                                /\ e[1] \in social.follows[e[2]]}
            shared(p) == social.posts[p].reposts + Cardinality(Replies(social, p))
            written == Cardinality(TopLevel(social))
<1>0. IsList(log) /\ NoPost \notin DOMAIN social.posts
    <2>1. IsList(log)
        BY DEF AllFine
    <2>2. social.posts \in Seq(Post)
        BY DEF SocialOK, SocialState
    <2>. QED  BY <2>1, <2>2 DEF NoPost
<1>1. CreatedPosts(log) = TopLevel(social)
    <2>1. \A i \in PostsIn(log) : i \in Posted(log) /\ log[i].type = "create_post"
        BY DEF PostsIn, Posted, AllFine, Fine
    <2>2. \A i \in Posted(log) : log[i].type # "create_post" => log[i].type = "reply"
        BY DEF Posted
    <2>3. \A i \in Posted(log) : log[i].type = "create_post" => i \in PostsIn(log)
        BY DEF Posted, PostsIn
    <2>4. \A p \in TopLevel(social) : \E i \in PostsIn(log) : log[i].data.post = p
        BY <1>0, <2>2, <2>3, PostsRecorded DEF Holds, TopLevel
    <2>5. \A i \in PostsIn(log) : log[i].data.post \in TopLevel(social)
        BY <1>0, <2>1, PostsRecorded DEF Holds, TopLevel
    <2>6. CreatedPosts(log) = {log[i].data.post : i \in PostsIn(log)}
        BY <1>0, TablesCount
    <2>. QED  BY <2>4, <2>5, <2>6
<1>5. PICK D : D = TopLevel(social)
    OBVIOUS
<1>6. IsFiniteSet(D) /\ D \subseteq DOMAIN social.posts
    <2>1. IsFiniteSet(DOMAIN social.posts)
        BY ListDomain, FS_Interval DEF SocialOK, SocialState, IsList
    <2>. QED  BY <1>5, <2>1, FS_Subset DEF TopLevel
<1>7. PICK marks, places : /\ Marked(D, marks, places) /\ DOMAIN feed = Firsts(D, marks, places, TopLimit)
                  /\ \A p \in D : marks[p] = Cardinality(Liking(log, p)) + Cardinality(Sharing(log, p))
    BY <1>0, <1>1, <1>5, FeedRanked
<1>8. DOMAIN feed \subseteq D
    BY <1>7 DEF Firsts
<1>9. Cardinality(DOMAIN feed) = IF written <= TopLimit THEN written ELSE TopLimit
    <2>. HIDE DEF feed
    <2>. QED  BY <1>5, <1>6, <1>7, ExtractionAssumption, FirstsCounted
<1>2. ASSUME NEW p \in DOMAIN feed
      PROVE  /\ feed[p].shares = social.posts[p].reposts + Cardinality(Replies(social, p))
             /\ feed[p].likes + feed[p].dislikes >= Cardinality(social.posts[p].voters)
    <2>1. p \in DOMAIN social.posts /\ p # NoPost
        BY <1>0, <1>6, <1>8
    <2>2. /\ feed[p].likes = Cardinality(Liking(log, p))
          /\ feed[p].dislikes = Cardinality(Disliking(log, p))
          /\ feed[p].shares = Cardinality(Sharing(log, p))
        <3>1. feed[p] = [likes |-> Cardinality(Liking(log, p)),
                         dislikes |-> Cardinality(Disliking(log, p)),
                         shares |-> Cardinality(Sharing(log, p))]
            BY <1>0, TablesCount
        <3>. HIDE DEF feed
        <3>. QED  BY <3>1
    <2>. HIDE DEF feed
    <2>. QED  BY <2>1, <2>2, VotersCounted, SharesCounted
<1>10. ASSUME NEW p \in DOMAIN feed, NEW q \in D \ DOMAIN feed
       PROVE  shared(q) <= feed[p].likes + feed[p].shares
    <2>1. feed[p].likes = Cardinality(Liking(log, p)) /\ feed[p].shares = Cardinality(Sharing(log, p))
        <3>1. feed[p] = [likes |-> Cardinality(Liking(log, p)),
                         dislikes |-> Cardinality(Disliking(log, p)),
                         shares |-> Cardinality(Sharing(log, p))]
            BY <1>0, TablesCount
        <3>. HIDE DEF feed
        <3>. QED  BY <3>1
    <2>2. Cardinality(Sharing(log, q)) = shared(q)
        BY <1>0, <1>6, SharesCounted
    <2>. HIDE DEF feed, shared
    <2>3. marks[q] <= marks[p]
        BY <1>6, <1>7, ExtractionAssumption, FirstsLead
    <2>4. /\ marks[q] = Cardinality(Liking(log, q)) + Cardinality(Sharing(log, q))
          /\ marks[p] = Cardinality(Liking(log, p)) + Cardinality(Sharing(log, p))
        BY <1>7, <1>8
    <2>5. /\ Cardinality(Liking(log, q)) \in Nat /\ Cardinality(Sharing(log, q)) \in Nat
          /\ Cardinality(Liking(log, p)) \in Nat /\ Cardinality(Sharing(log, p)) \in Nat
        <3>1. IsFiniteSet(DOMAIN log)
            BY <1>0, ListDomain, FS_Interval
        <3>. QED  BY <3>1, FS_Subset, FS_CardinalityType DEF Liking, Sharing
    <2>. QED  BY <2>1, <2>2, <2>3, <2>4, <2>5
<1>3. ASSUME NEW n \in DOMAIN summary
      PROVE  summary[n].posts = Cardinality({p \in TopLevel(social) : social.posts[p].created = n - 1})
    <2>1. n \in RoundsIn(log) /\ summary[n].posts = Cardinality(CreatedIn(log, n))
        BY <1>0, TablesCount
    <2>2. n \in Nat
        BY <2>1 DEF RoundsIn, AllFine, Fine
    <2>. QED  BY <2>1, <2>2, CreatedCounted
<1>4. MutualFollows(log) = {{e[1], e[2]} : e \in mutual}
    <2>1. {g \in Follows(log) : <<g[2], g[1]>> \in Follows(log)} = mutual
        <3>1. PICK F : F = Follows(log)
            OBVIOUS
        <3>2. /\ \A g \in F : g = <<g[1], g[2]>>
              /\ \A a, b : <<a, b>> \in F <=>
                   a \in Agents /\ b \in social.follows[a] /\ b # NoHandle
              /\ NoHandle \notin Agents
            BY <3>1, BaseAssumption, FollowsRecorded
        <3>3. ASSUME NEW g \in F, <<g[2], g[1]>> \in F PROVE g \in mutual
            <4>1. g = <<g[1], g[2]>>
                BY <3>2
            <4>. QED  BY <3>2, <3>3, <4>1
        <3>4. ASSUME NEW g \in mutual PROVE g \in F /\ <<g[2], g[1]>> \in F
            <4>1. g = <<g[1], g[2]>> /\ g[1] \in Agents /\ g[2] \in Agents
                OBVIOUS
            <4>. QED  BY <3>2, <4>1
        <3>. QED  BY <3>1, <3>3, <3>4
    <2>. HIDE DEF mutual
    <2>. QED  BY <2>1 DEF MutualFollows
<1>. QED  BY <1>2, <1>3, <1>4, <1>5, <1>8, <1>9, <1>10 DEF FeedAgrees

(* Between rounds no record is lost or counted twice by the cards, the     *)
(* trajectories and the nodes, the feed is the most engaged posts up to its*)
(* limit with the platform's counts, and the summary and the mutual follows*)
(* are those of the platform (extractor_*.py against environments/         *)
(* social.py).                                                             *)
THEOREM TablesAgreeTheorem == Spec => []TablesAgree
PROOF
<1>. DEFINE Inv == ControlInv /\ WorldInv /\ ReportInv
<1>1. Init => Inv
    BY ControlInit, WorldInit, ReportInit
<1>2. Inv /\ [Next]_vars => Inv'
    BY ControlStep, WorldStep, ReportStep
<1>3. Inv => TablesAgree
    <2>1. WorldInv => SocialOK(social)
        BY DEF WorldInv, WorldOK
    <2>2. Inv /\ Between => ActivityAddsUp
        BY LogTells, ActivityTold
    <2>3. Inv /\ Between /\ "social" \in Environments => FeedAgrees
        BY <2>1, LogTells, FeedTold
    <2>. QED  BY <2>2, <2>3 DEF TablesAgree
<1>. HIDE DEF Inv
<1>. QED  BY <1>1, <1>2, <1>3, PTL DEF Spec
=============================================================================
