------------------------------- MODULE Likes --------------------------------
(***************************************************************************)
(* LikeBlog (BlogService.go:59-99) on one blog: the sorted set blog:like:  *)
(* says whether a user likes it, the column liked how many do.  One toggle *)
(* is three calls, and the column's errors are not looked at.              *)
(***************************************************************************)
EXTENDS Calls, FiniteSets

CONSTANT Fans  \* users who may like the blog

ASSUME FansAssumption == "nobody" \notin Fans

VARIABLES
  liked,      \* tb_blog.liked
  likers,     \* members of the sorted set
  likeReq,    \* per client: the call it makes next, for whom, and its flag
  likesOff    \* a toggle failed halfway, or two of one user overlapped

likeVars == <<liked, likers, likeReq, likesOff>>

NoLike == [at |-> "idle", user |-> "nobody", add |-> FALSE]

LikeInit ==
  /\ liked    = 0
  /\ likers   = {}
  /\ likeReq  = [c \in Clients |-> NoLike]
  /\ likesOff = FALSE

EndLike(c) == likeReq' = [likeReq EXCEPT ![c] = NoLike]

\* PUT /blog/like/:id
LikeBlog(c, u) ==
  /\ Arrive
  /\ likeReq[c] = NoLike
  /\ likeReq' = [likeReq EXCEPT ![c] = [at |-> "score", user |-> u, add |-> FALSE]]
  /\ likesOff' = (likesOff \/ \E d \in Clients : likeReq[d].user = u)
  /\ UNCHANGED <<liked, likers>>

ZScore(c) ==
  /\ likeReq[c].at = "score"
  /\ likeReq' = [likeReq EXCEPT ![c].at = "count", ![c].add = likeReq[c].user \notin likers]
  /\ NoFault /\ UNCHANGED <<liked, likers, likesOff>>

\* Mutant: both branches add.
CountUp(r) == liked + 1

Count(r) == IF r.add THEN liked + 1 ELSE liked - 1

Members(r) == IF r.add THEN likers \cup {r.user} ELSE likers \ {r.user}

\* IncrLike, DecrLike
CountLike(c) ==
  /\ likeReq[c].at = "count"
  /\ liked' = Count(likeReq[c])
  /\ likeReq' = [likeReq EXCEPT ![c].at = "member"]
  /\ NoFault /\ UNCHANGED <<likers, likesOff>>

\* The error is dropped and the member changed all the same.
CountLikeError(c) ==
  /\ likeReq[c].at = "count"
  /\ liked' \in {liked, Count(likeReq[c])}
  /\ likeReq' = [likeReq EXCEPT ![c].at = "member"]
  /\ likesOff' = TRUE
  /\ Fault /\ UNCHANGED likers

\* ZADD, ZREM
ChangeMember(c) ==
  /\ likeReq[c].at = "member"
  /\ likers' = Members(likeReq[c])
  /\ EndLike(c)
  /\ NoFault /\ UNCHANGED <<liked, likesOff>>

LikeError(c) ==
  /\ likeReq[c].at \in {"score", "member"}
  /\ likers' \in {likers, IF likeReq[c].at = "member" THEN Members(likeReq[c]) ELSE likers}
  /\ likesOff' = (likesOff \/ likeReq[c].at = "member")
  /\ EndLike(c)
  /\ Fault /\ UNCHANGED liked

LikeCrash ==
  /\ likesOff' = (likesOff \/ \E c \in Clients : likeReq[c].at = "member")
  /\ likeReq' = [c \in Clients |-> NoLike]
  /\ UNCHANGED <<liked, likers>>

LikeNext ==
  \E c \in Clients :
    \/ \E u \in Fans : LikeBlog(c, u)
    \/ ZScore(c) \/ CountLike(c) \/ CountLikeError(c) \/ ChangeMember(c) \/ LikeError(c)

-----------------------------------------------------------------------------
LikeTypeOK ==
  /\ liked \in Int
  /\ likers \subseteq Fans
  /\ likeReq \in [Clients -> [at: {"idle", "score", "count", "member"},
                              user: Fans \cup {"nobody"}, add: BOOLEAN]]
  /\ likesOff \in BOOLEAN

\* Toggles that have counted and not yet changed the member.
Counted     == {c \in Clients : likeReq[c].at = "member"}
CountedUp   == {c \in Counted : likeReq[c].add}
CountedDown == {c \in Counted : ~likeReq[c].add}

(***************************************************************************)
(* The column is the number of members, give or take the toggles between   *)
(* their two writes, while no toggle failed between them and no user had   *)
(* two toggles under way; toggles of different users may overlap at will.  *)
(***************************************************************************)
LikesAgree ==
  ~likesOff => liked = Cardinality(likers) + Cardinality(CountedUp) - Cardinality(CountedDown)

=============================================================================
