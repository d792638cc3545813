------------------------- MODULE SocialEnvironment -------------------------
(***************************************************************************)
(* simswarm/environments/social.py: the social platform of a simulation,   *)
(* as operators from one state of the environment to the next.  A text is  *)
(* a member of Texts; a post is known by its place in the order of         *)
(* creation, which stands for its uuid: nobody can name a post that does   *)
(* not exist yet, and 0 is an id no post has.                              *)
(***************************************************************************)
EXTENDS EnvironmentBase

CONSTANTS ViralThreshold,  \* config.viral_threshold
          FeedLimit,       \* top-level posts shown in a feed (20)
          ReplyLimit       \* replies shown under each of them (3)

NewPost(author, text, parent, round) ==
  [author |-> author, text |-> text, parent |-> parent, likes |-> 0,
   dislikes |-> 0, reposts |-> 0, created |-> round, voters |-> {}]

NewSocial == [round |-> 0, posts |-> <<>>, follows |-> [a \in Agents |-> {}],
              viral |-> {}, events |-> {}]

SocialTypeOK(s) ==
  /\ s.round \in Nat
  /\ \A p \in DOMAIN s.posts :
       /\ s.posts[p].author \in Agents
       /\ s.posts[p].text \in Texts
       /\ s.posts[p].parent \in 0 .. p - 1
       /\ s.posts[p].voters \subseteq Agents
       /\ {s.posts[p].likes, s.posts[p].dislikes, s.posts[p].reposts} \subseteq Nat
       /\ s.posts[p].created \in 0 .. s.round
  /\ s.follows \in [Agents -> SUBSET Targets]
  /\ s.viral \subseteq DOMAIN s.posts

SocialTools == {"create_post", "reply", "vote", "repost", "follow", "do_nothing"}

----------------------------------------------------------------------------
(* Handlers: what a tool call makes of the environment, and the result the *)
(* chat log keeps of it.                                                   *)

Exists(s, post) == post \in DOMAIN s.posts

(* Both handlers that write a post give it the next id.                    *)
Written(s, agent, text, parent) ==
  Done([s EXCEPT !.posts = Append(@, NewPost(agent, text, parent, s.round))],
       [NoData EXCEPT !.post = Len(s.posts) + 1])

CreatePost(s, agent, call) == Written(s, agent, call.text, NoPost)

Reply(s, agent, call) ==
  IF Exists(s, call.post) THEN Written(s, agent, call.text, call.post)
                          ELSE Refused(s)

(* An agent votes once on a post; a call without a value is a like, and    *)
(* anything that is not positive is a dislike.                             *)
VoteValue(call) == IF "value" \in DOMAIN call THEN call.value ELSE 1

WithVote(post, agent, liked) ==
  [post EXCEPT !.voters = @ \cup {agent},
               !.likes = @ + (IF liked THEN 1 ELSE 0),
               !.dislikes = @ + (IF liked THEN 0 ELSE 1)]

Voted(s, agent, call) ==
  Done([s EXCEPT !.posts[call.post] = WithVote(@, agent, VoteValue(call) > 0)],
       [NoData EXCEPT !.post = call.post])

Vote(s, agent, call) ==
  IF Exists(s, call.post) /\ agent \notin s.posts[call.post].voters
  THEN Voted(s, agent, call)
  ELSE Refused(s)

Repost(s, agent, call) ==
  IF Exists(s, call.post)
  THEN Done([s EXCEPT !.posts[call.post].reposts = @ + 1],
            [NoData EXCEPT !.post = call.post])
  ELSE Refused(s)

(* Whatever is given to be followed is kept as it is given.                *)
Follow(s, agent, call) == Done([s EXCEPT !.follows[agent] = @ \cup {call.agent}], NoData)

SocialExecute(s, agent, call) ==
  CASE call.name = "create_post" -> CreatePost(s, agent, call)
    [] call.name = "reply"       -> Reply(s, agent, call)
    [] call.name = "vote"        -> Vote(s, agent, call)
    [] call.name = "repost"      -> Repost(s, agent, call)
    [] call.name = "follow"      -> Follow(s, agent, call)
    [] call.name = "do_nothing"  -> Done(s, NoData)
    [] OTHER                     -> Refused(s)

----------------------------------------------------------------------------
(* Observations.  The feed shows the FeedLimit best-ranked top-level posts *)
(* and under each its first replies.  The ranking's weights are left out:  *)
(* when there are more posts than places, any of them may be the ones      *)
(* shown.  A reply to a reply is in no feed.                               *)

TopLevel(s) == {p \in DOMAIN s.posts : s.posts[p].parent = NoPost}
Replies(s, post) == {p \in DOMAIN s.posts : s.posts[p].parent = post}
FirstReplies(s, post) ==
  {r \in Replies(s, post) : Cardinality({q \in Replies(s, post) : q < r}) < ReplyLimit}

Feeds(s) ==
  {top \cup UNION {FirstReplies(s, p) : p \in top} :
     top \in {t \in SUBSET TopLevel(s) :
                Cardinality(t) = IF Cardinality(TopLevel(s)) <= FeedLimit
                                 THEN Cardinality(TopLevel(s)) ELSE FeedLimit}}

(* {post: (likes, dislikes)} as the beliefs read it.                       *)
CurrentEngagement(s) ==
  [p \in DOMAIN s.posts |-> [likes |-> s.posts[p].likes, dislikes |-> s.posts[p].dislikes]]

(* The end of a round: posts that reached the threshold go viral, once.    *)
NewlyViral(s) ==
  {p \in DOMAIN s.posts \ s.viral :
     s.posts[p].likes + s.posts[p].reposts >= ViralThreshold}

ViralEvent(p, round) == Event("social", "viral_post", p, round)

\* Mutant: viral posts are announced again.
SocialTickForgets(s) ==
  LET hot == {p \in DOMAIN s.posts :
                s.posts[p].likes + s.posts[p].reposts >= ViralThreshold}
  IN [s EXCEPT !.round = @ + 1, !.viral = @ \cup hot,
               !.events = @ \cup {ViralEvent(p, s.round + 1) : p \in hot}]

SocialTick(s) ==
  [s EXCEPT !.round = @ + 1,
            !.viral = @ \cup NewlyViral(s),
            !.events = @ \cup {ViralEvent(p, s.round + 1) : p \in NewlyViral(s)}]

(* publish_events() hands the pending events over and empties the list.    *)
SocialPublished(s) == [s EXCEPT !.events = {}]
=============================================================================
