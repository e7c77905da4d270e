--------------------------- MODULE Social_proofs ----------------------------
(***************************************************************************)
(* Theorems about Social, for any clients, users, feeds and bounds: the    *)
(* two places that say who follows, and who likes, agree.                  *)
(***************************************************************************)
EXTENDS Social, Counting

USE UsersAssumption, FansAssumption

-----------------------------------------------------------------------------
(***************************************************************************)
(* Likes.                                                                  *)
(***************************************************************************)
Toggle == [at: {"idle", "score", "count", "member"}, user: Fans \cup {"nobody"}, add: BOOLEAN]

\* While nothing went wrong, no two toggles are one user's, and one that has
\* read the member's score still finds it as it was.
LikeInv ==
  /\ LikeTypeOK
  /\ IsFiniteSet(likers) /\ IsFiniteSet(CountedUp) /\ IsFiniteSet(CountedDown)
  /\ \A c \in Clients : likeReq[c].at # "idle" => likeReq[c].user \in Fans
  /\ ~likesOff =>
       /\ \A c, d \in Clients :
            likeReq[c].at # "idle" /\ likeReq[d].at # "idle" /\ likeReq[c].user = likeReq[d].user => c = d
       /\ \A c \in Clients :
            likeReq[c].at \in {"count", "member"} => (likeReq[c].add <=> likeReq[c].user \notin likers)
       /\ LikesAgree

LEMMA InitLikeInv == Init => LikeInv
<1> SUFFICES ASSUME Init PROVE LikeInv
  OBVIOUS
<1>1. NoLike \in Toggle /\ NoLike.at = "idle" /\ likeReq = [c \in Clients |-> NoLike]
  BY DEF Init, LikeInit, NoLike, Toggle
<1>2. liked = 0 /\ likers = {}
  BY DEF Init, LikeInit
<1>3. likesOff \in BOOLEAN
  BY Zenon DEF Init, LikeInit
<1>4. CountedUp = {} /\ CountedDown = {}
  BY <1>1 DEF CountedUp, CountedDown, Counted
<1>5. LikeTypeOK
  <2>1. likeReq \in [Clients -> Toggle]
    BY <1>1
  <2>2. liked \in Int /\ likers \subseteq Fans
    BY <1>2
  <2> QED BY <1>3, <2>1, <2>2, Zenon DEF LikeTypeOK, Toggle
<1>6. IsFiniteSet({}) /\ Cardinality({}) = 0
  BY FS_EmptySet
<1>7. LikesAgree
  <2>1. 0 = 0 + 0 - 0
    OBVIOUS
  <2> QED BY <1>2, <1>4, <1>6, <2>1, Zenon DEF LikesAgree
<1>8. \A c \in Clients : likeReq[c].at = "idle"
  BY <1>1
<1> QED BY <1>2, <1>4, <1>5, <1>6, <1>7, <1>8 DEF LikeInv

\* Toggles that have counted, when one client's changes.
LEMMA CountedBut ==
  ASSUME LikeInv, NEW c \in Clients, \A d \in Clients \ {c} : likeReq'[d] = likeReq[d]
  PROVE  /\ IsFiniteSet(CountedUp) /\ CountedUp \ {c} = CountedUp' \ {c}
         /\ IsFiniteSet(CountedDown) /\ CountedDown \ {c} = CountedDown' \ {c}
BY DEF LikeInv, CountedUp, CountedDown, Counted

LEMMA NextLikeInv == LikeInv /\ [Next]_socialVars => LikeInv'
<1> SUFFICES ASSUME LikeInv, [Next]_socialVars PROVE LikeInv'
  OBVIOUS
<1>0. /\ liked \in Int /\ likers \subseteq Fans /\ IsFiniteSet(likers) /\ Cardinality(likers) \in Nat
      /\ likeReq \in [Clients -> Toggle] /\ likesOff \in BOOLEAN
      /\ Cardinality(CountedUp) \in Nat /\ Cardinality(CountedDown) \in Nat
      /\ NoLike \in Toggle /\ NoLike.at = "idle"
  BY FS_CardinalityType DEF LikeInv, LikeTypeOK, Toggle, NoLike
\* One client's step: what has to be shown of its toggle.
<1>1. ASSUME NEW c \in Clients, likeReq' \in [Clients -> Toggle],
             \A d \in Clients \ {c} : likeReq'[d] = likeReq[d],
             likers' \subseteq Fans, IsFiniteSet(likers'), liked' \in Int, likesOff' \in BOOLEAN,
             likesOff => likesOff',
             likeReq'[c].at # "idle" => likeReq'[c].user \in Fans,
             ~likesOff' =>
               /\ \A d \in Clients \ {c} :
                    /\ likeReq'[c].at # "idle" /\ likeReq[d].at # "idle" => likeReq'[c].user # likeReq[d].user
                    /\ likeReq[d].at # "idle" => (likeReq[d].user \in likers' <=> likeReq[d].user \in likers)
               /\ likeReq'[c].at \in {"count", "member"} => (likeReq'[c].add <=> likeReq'[c].user \notin likers')
               /\ LikesAgree'
      PROVE  LikeInv'
  <2>1. IsFiniteSet(CountedUp') /\ IsFiniteSet(CountedDown')
    BY <1>1, CountedBut, ButOne
  <2>2. LikeTypeOK'
    BY <1>1 DEF LikeTypeOK, Toggle
  <2>3. \A d \in Clients : likeReq'[d].at # "idle" => likeReq'[d].user \in Fans
    BY <1>1 DEF LikeInv
  <2>4. ASSUME ~likesOff'
        PROVE  /\ \A d, e \in Clients :
                    likeReq'[d].at # "idle" /\ likeReq'[e].at # "idle" /\ likeReq'[d].user = likeReq'[e].user
                      => d = e
               /\ \A d \in Clients :
                    likeReq'[d].at \in {"count", "member"} => (likeReq'[d].add <=> likeReq'[d].user \notin likers')
               /\ LikesAgree'
    BY <1>1, <2>4 DEF LikeInv
  <2> QED BY <1>1, <2>1, <2>2, <2>3, <2>4 DEF LikeInv
<1>3. ASSUME NEW c \in Clients, NEW u \in Fans, LikeBlog(c, u) PROVE LikeInv'
  <2>1. /\ likeReq' = [likeReq EXCEPT ![c] = [at |-> "score", user |-> u, add |-> FALSE]]
        /\ likeReq[c].at = "idle" /\ UNCHANGED <<liked, likers>>
        /\ likesOff' = (likesOff \/ \E d \in Clients : likeReq[d].user = u)
    BY <1>0, <1>3 DEF LikeBlog
  <2>2. /\ likeReq' \in [Clients -> Toggle] /\ likeReq'[c].at = "score" /\ likeReq'[c].user = u
        /\ \A d \in Clients \ {c} : likeReq'[d] = likeReq[d]
    BY <1>0, <2>1 DEF Toggle
  <2>3. CountedUp' = CountedUp /\ CountedDown' = CountedDown
    BY <2>1, <2>2 DEF CountedUp, CountedDown, Counted
  <2>4. ~likesOff' => ~likesOff
    BY <2>1
  <2>5. ~likesOff' => LikesAgree'
    BY <1>0, <2>1, <2>3, <2>4 DEF LikeInv, LikesAgree
  <2>6. ~likesOff' => \A d \in Clients : likeReq[d].user # u
    BY <2>1
  <2> QED BY <1>0, <1>1, <2>1, <2>2, <2>4, <2>5, <2>6
<1>4. ASSUME NEW c \in Clients, ZScore(c) PROVE LikeInv'
  <2> DEFINE r == [likeReq[c] EXCEPT !.at = "count", !.add = likeReq[c].user \notin likers]
  <2>1. r \in Toggle /\ r.at = "count" /\ r.user = likeReq[c].user /\ (r.add <=> r.user \notin likers)
    BY <1>0 DEF Toggle
  <2>2. likeReq' = [likeReq EXCEPT ![c] = r] /\ likeReq[c].at = "score" /\ UNCHANGED <<liked, likers, likesOff>>
    BY <1>4 DEF ZScore
  <2> HIDE DEF r
  <2>3. /\ likeReq' \in [Clients -> Toggle] /\ likeReq'[c] = r
        /\ \A d \in Clients \ {c} : likeReq'[d] = likeReq[d]
    BY <1>0, <2>1, <2>2
  <2>5. CountedUp' = CountedUp /\ CountedDown' = CountedDown
    BY <2>1, <2>2, <2>3 DEF CountedUp, CountedDown, Counted
  <2>6. ~likesOff' => LikesAgree'
    BY <2>2, <2>5 DEF LikeInv, LikesAgree
  <2>7. likeReq[c].user \in Fans
    BY <2>2 DEF LikeInv
  <2>8. ~likesOff => \A d \in Clients \ {c} : likeReq[d].at # "idle" => likeReq[c].user # likeReq[d].user
    BY <2>2 DEF LikeInv
  <2> QED BY <1>0, <1>1, <2>1, <2>2, <2>3, <2>6, <2>7, <2>8
<1>5. ASSUME NEW c \in Clients, CountLike(c) \/ CountLikeError(c) PROVE LikeInv'
  <2> DEFINE r == [likeReq[c] EXCEPT !.at = "member"]
  <2>1. r \in Toggle /\ r.at = "member" /\ r.user = likeReq[c].user /\ r.add = likeReq[c].add
    BY <1>0 DEF Toggle
  <2>2. /\ likeReq' = [likeReq EXCEPT ![c] = r] /\ likeReq[c].at = "count" /\ likers' = likers
        /\ likesOff' \in {likesOff, TRUE} /\ liked' \in {liked, Count(likeReq[c])}
        /\ ~likesOff' => liked' = Count(likeReq[c]) /\ ~likesOff
    BY <1>0, <1>5 DEF CountLike, CountLikeError
  <2> HIDE DEF r
  <2>3. /\ likeReq' \in [Clients -> Toggle] /\ likeReq'[c] = r
        /\ \A d \in Clients \ {c} : likeReq'[d] = likeReq[d]
    BY <1>0, <2>1, <2>2
  <2>4. likeReq[c].add \in BOOLEAN /\ liked' \in Int
    BY <1>0, <2>2 DEF Count, Toggle
  <2>5. /\ c \notin CountedUp /\ c \notin CountedDown
        /\ likeReq[c].add  => c \in CountedUp' /\ c \notin CountedDown'
        /\ ~likeReq[c].add => c \notin CountedUp' /\ c \in CountedDown'
    BY <2>1, <2>2, <2>3 DEF CountedUp, CountedDown, Counted
  <2>6. /\ likeReq[c].add =>
             Cardinality(CountedUp') = Cardinality(CountedUp) + 1 /\ Cardinality(CountedDown') = Cardinality(CountedDown)
        /\ ~likeReq[c].add =>
             Cardinality(CountedUp') = Cardinality(CountedUp) /\ Cardinality(CountedDown') = Cardinality(CountedDown) + 1
    BY <2>3, <2>5, CountedBut, ButOne
  <2>7. ~likesOff' => LikesAgree'
    BY <1>0, <2>2, <2>6 DEF LikeInv, LikesAgree, Count
  <2>8. likeReq[c].user \in Fans
    BY <2>2 DEF LikeInv
  <2>9. ~likesOff => /\ \A d \in Clients \ {c} : likeReq[d].at # "idle" => likeReq[c].user # likeReq[d].user
                     /\ likeReq[c].add <=> likeReq[c].user \notin likers
    BY <2>2 DEF LikeInv
  <2> QED BY <1>0, <1>1, <2>1, <2>2, <2>3, <2>4, <2>7, <2>8, <2>9
\* A toggle ends.
<1>6. ASSUME NEW c \in Clients, EndLike(c), liked' = liked, likeReq[c].at \in {"score", "member"},
             likesOff' \in BOOLEAN, likesOff => likesOff',
             \/ likers' = likers /\ (~likesOff' => likeReq[c].at # "member")
             \/ likers' = Members(likeReq[c]) /\ likeReq[c].at = "member"
      PROVE  LikeInv'
  <2> DEFINE u == likeReq[c].user
  <2>1. /\ likeReq' \in [Clients -> Toggle] /\ likeReq'[c] = NoLike
        /\ \A d \in Clients \ {c} : likeReq'[d] = likeReq[d]
    BY <1>0, <1>6 DEF EndLike
  <2>2. u \in Fans /\ likeReq[c].add \in BOOLEAN
    BY <1>0, <1>6 DEF LikeInv, Toggle
  <2>3. likers' \in {likers, likers \cup {u}, likers \ {u}}
    BY <1>6 DEF Members
  <2>4. likers' \subseteq Fans /\ IsFiniteSet(likers')
    BY <1>0, <2>2, <2>3, FS_AddElement, FS_RemoveElement
  <2>5. ~likesOff' => \A d \in Clients \ {c} : likeReq[d].at # "idle" => likeReq[d].user # u
    BY <1>6 DEF LikeInv
  <2>6. /\ c \notin CountedUp' /\ c \notin CountedDown'
        /\ likeReq[c].at # "member" => c \notin CountedUp /\ c \notin CountedDown
        /\ likeReq[c].at = "member" /\ likeReq[c].add  => c \in CountedUp /\ c \notin CountedDown
        /\ likeReq[c].at = "member" /\ ~likeReq[c].add => c \notin CountedUp /\ c \in CountedDown
    BY <1>0, <2>1 DEF CountedUp, CountedDown, Counted
  <2>8. ASSUME ~likesOff' PROVE LikesAgree'
    <3>0. ~likesOff /\ liked = Cardinality(likers) + Cardinality(CountedUp) - Cardinality(CountedDown)
      BY <1>6, <2>8 DEF LikeInv, LikesAgree
    <3>1. CASE likeReq[c].at # "member"
      <4>1. /\ likers' = likers
            /\ Cardinality(CountedUp') = Cardinality(CountedUp) /\ Cardinality(CountedDown') = Cardinality(CountedDown)
        BY <1>6, <2>1, <2>6, <3>1, CountedBut, ButOne
      <4> QED BY <1>6, <3>0, <4>1 DEF LikesAgree
    <3>2. CASE likeReq[c].at = "member" /\ likeReq[c].add
      <4>1. likers' = likers \cup {u} /\ u \notin likers
        BY <1>6, <2>8, <3>0, <3>2 DEF Members, LikeInv
      <4>2. Cardinality(likers') = Cardinality(likers) + 1
        BY <1>0, <4>1, FS_AddElement
      <4>3. Cardinality(CountedUp') = Cardinality(CountedUp) - 1 /\ Cardinality(CountedDown') = Cardinality(CountedDown)
        BY <2>1, <2>6, <3>2, CountedBut, ButOne
      <4> QED BY <1>0, <1>6, <3>0, <4>2, <4>3 DEF LikesAgree
    <3>3. CASE likeReq[c].at = "member" /\ ~likeReq[c].add
      <4>1. likers' = likers \ {u} /\ u \in likers
        BY <1>6, <2>8, <3>0, <3>3 DEF Members, LikeInv
      <4>2. Cardinality(likers') = Cardinality(likers) - 1
        BY <1>0, <4>1, FS_RemoveElement
      <4>3. Cardinality(CountedUp') = Cardinality(CountedUp) /\ Cardinality(CountedDown') = Cardinality(CountedDown) - 1
        BY <2>1, <2>6, <3>3, CountedBut, ButOne
      <4> QED BY <1>0, <1>6, <3>0, <4>2, <4>3 DEF LikesAgree
    <3> QED BY <3>1, <3>2, <3>3
  <2> QED BY <1>0, <1>1, <1>6, <2>1, <2>3, <2>4, <2>5, <2>8
<1>7. ASSUME NEW c \in Clients, ChangeMember(c) \/ LikeError(c) PROVE LikeInv'
  BY <1>0, <1>6, <1>7 DEF ChangeMember, LikeError
<1>8. CASE Crash
  <2>1. /\ likeReq' = [c \in Clients |-> NoLike] /\ UNCHANGED <<liked, likers>>
        /\ likesOff' = (likesOff \/ \E c \in Clients : likeReq[c].at = "member")
    BY <1>8 DEF Crash, LikeCrash
  <2>2. CountedUp' = {} /\ CountedDown' = {}
    BY <1>0, <2>1 DEF CountedUp, CountedDown, Counted
  <2>3. IsFiniteSet({}) /\ Cardinality({}) = 0
    BY FS_EmptySet
  <2>4. ASSUME ~likesOff' PROVE LikesAgree'
    <3>1. ~likesOff /\ CountedUp = {} /\ CountedDown = {}
      BY <2>1, <2>4 DEF CountedUp, CountedDown, Counted
    <3> QED BY <1>0, <2>1, <2>2, <3>1 DEF LikeInv, LikesAgree
  <2>5. LikeTypeOK'
    BY <1>0, <2>1 DEF LikeTypeOK, Toggle
  <2>6. likesOff => likesOff'
    BY <2>1
  <2> QED BY <1>0, <2>1, <2>2, <2>3, <2>4, <2>5, <2>6 DEF LikeInv
<1>9. CASE UNCHANGED likeVars
  BY <1>9 DEF likeVars, LikeInv, LikeTypeOK, LikesAgree, CountedUp, CountedDown, Counted
<1>10. CASE LikeNext
  BY <1>3, <1>4, <1>5, <1>7, <1>10 DEF LikeNext
<1> QED BY <1>8, <1>9, <1>10 DEF Next, socialVars

(***************************************************************************)
(* The column is the number of members, give or take the toggles between   *)
(* their two writes, whatever toggles of different users overlap.          *)
(***************************************************************************)
THEOREM LikesCounted == Spec => []LikesAgree
<1>1. LikeInv => LikesAgree
  BY DEF LikeInv, LikesAgree
<1> QED BY <1>1, InitLikeInv, NextLikeInv, PTL DEF Spec
-----------------------------------------------------------------------------
(***************************************************************************)
(* Follows.  Only a request that writes for a user alone can leave that    *)
(* user out of "drifted"; what it has written and what it is about to      *)
(* write fit each other.                                                   *)
(***************************************************************************)
Change == [at: {"idle", "row", "set", "ask", "count", "backfill"}, user: Users \cup {"nobody"},
           follow: BOOLEAN, alone: BOOLEAN]

Agrees(u) == u \in followSet <=> followRows[u] > 0

Untouched(u) == \A c \in Clients : ~Writing(c, u)

\* A request that is alone has no rival; if the table has changed under the
\* set, it is this request that changed it.
AloneFits(c, u) ==
  /\ \A d \in Clients \ {c} : ~Writing(d, u)
  /\ followReq[c].at = "set" => (followReq[c].follow <=> followRows[u] > 0)
  /\ followReq[c].at = "count" => followReq[c].follow
  /\ followReq[c].at = "backfill" => followReq[c].follow /\ followRows[u] > 0
  /\ followReq[c].at # "set" /\ u \notin drifted => Agrees(u)

FollowInv ==
  /\ FollowTypeOK
  /\ \A c \in Clients : followReq[c].at # "idle" => followReq[c].user \in Users
  /\ \A u \in Users :
       /\ Untouched(u) /\ u \notin drifted => Agrees(u)
       /\ \A c \in Clients : Writing(c, u) /\ followReq[c].alone => AloneFits(c, u)

LEMMA InitFollowInv == Init => FollowInv
<1> SUFFICES ASSUME Init PROVE FollowInv
  OBVIOUS
<1>1. NoFollow \in Change /\ NoFollow.user = "nobody" /\ NoFollow.at = "idle"
  BY DEF NoFollow, Change
<1>2. /\ followSet \subseteq Users /\ drifted = {}
      /\ followRows = [u \in Users |-> IF u \in followSet THEN 1 ELSE 0]
      /\ followReq = [c \in Clients |-> NoFollow]
  BY DEF Init, FollowInit
<1>3. \A u \in Users : Agrees(u) /\ Untouched(u)
  BY <1>1, <1>2 DEF Agrees, Untouched, Writing
<1>4. followReq \in [Clients -> Change]
  BY <1>1, <1>2
<1>5. FollowTypeOK
  BY <1>2, <1>4 DEF FollowTypeOK, Change
<1>6. \A c \in Clients : followReq[c].at = "idle"
  BY <1>1, <1>2
<1> QED BY <1>3, <1>5, <1>6 DEF FollowInv, Untouched

\* What the requests are when one starts to write for a user.
LEMMA Starts ==
  ASSUME followReq \in [Clients -> Change], NEW c \in Clients, NEW u \in Users,
         NEW at \in {"row", "count"}, NEW follow \in BOOLEAN, StartWriting(c, u, at, follow),
         \A w \in Users : ~Writing(c, w)
  PROVE  /\ followReq' \in [Clients -> Change]
         /\ followReq'[c].at = at /\ followReq'[c].follow = follow /\ Writing(c, u)'
         /\ followReq'[c].alone => \A d \in Clients \ {c} : ~Writing(d, u)
         /\ \A w \in Users \ {u} : ~Writing(c, w)'
         /\ \A d \in Clients \ {c} :
              /\ followReq'[d].at = followReq[d].at /\ followReq'[d].user = followReq[d].user
              /\ followReq'[d].follow = followReq[d].follow
              /\ followReq'[d].alone => followReq[d].alone /\ ~Writing(d, u)
<1> DEFINE r == [at |-> at, user |-> u, follow |-> follow,
                 alone |-> \A e \in Clients \ {c} : ~Writing(e, u)]
           s(d) == [followReq[d] EXCEPT !.alone = @ /\ ~Writing(d, u)]
<1>1. r \in Change /\ r.at = at /\ r.user = u /\ r.follow = follow /\ (r.alone => \A e \in Clients \ {c} : ~Writing(e, u))
  BY DEF Change
<1>2. ASSUME NEW d \in Clients
      PROVE  /\ s(d) \in Change /\ s(d).at = followReq[d].at /\ s(d).user = followReq[d].user
             /\ s(d).follow = followReq[d].follow
             /\ s(d).alone => followReq[d].alone /\ ~Writing(d, u)
  BY DEF Change
<1>3. followReq' = [d \in Clients |-> IF d = c THEN r ELSE s(d)]
  BY DEF StartWriting
<1> HIDE DEF r, s
<1>4. followReq' \in [Clients -> Change] /\ followReq'[c] = r /\ \A d \in Clients \ {c} : followReq'[d] = s(d)
  BY <1>1, <1>2, <1>3
<1> QED BY <1>1, <1>2, <1>4 DEF Writing

\* A request that writes for u takes a step: all that matters is u, and that
\* no other request can be alone with u.
LEMMA OwnStep ==
  ASSUME FollowInv, FollowTypeOK', NEW c \in Clients, NEW u \in Users, Writing(c, u),
         \A d \in Clients \ {c} : followReq'[d] = followReq[d],
         \A w \in Users \ {u} :
           /\ followRows'[w] = followRows[w] /\ (w \in followSet' <=> w \in followSet)
           /\ (w \in drifted' <=> w \in drifted) /\ ~Writing(c, w)',
         ~Writing(c, u)' /\ u \notin drifted' => Agrees(u)',
         Writing(c, u)' /\ followReq'[c].alone => AloneFits(c, u)',
         Writing(c, u)' \/ followReq'[c].at = "idle"
  PROVE  FollowInv'
<1>1. \A d \in Clients \ {c} : \A w \in Users : Writing(d, w)' <=> Writing(d, w)
  BY DEF Writing
<1>2. \A w \in Users \ {u} : ~Writing(c, w)
  BY DEF Writing
<1>3. ASSUME NEW w \in Users, Untouched(w)', w \notin drifted' PROVE Agrees(w)'
  <2>1. CASE w = u
    BY <1>3, <2>1 DEF Untouched
  <2>2. CASE w # u
    <3>1. Untouched(w)
      BY <1>1, <1>2, <1>3, <2>2 DEF Untouched
    <3>2. Agrees(w)
      BY <1>3, <2>2, <3>1 DEF FollowInv
    <3> QED BY <2>2, <3>2 DEF Agrees
  <2> QED BY <2>1, <2>2
<1>4. ASSUME NEW w \in Users, NEW d \in Clients, Writing(d, w)', followReq'[d].alone PROVE AloneFits(d, w)'
  <2>1. CASE w = u
    <3>1. d = c
      <4> SUFFICES ASSUME d # c PROVE FALSE
        OBVIOUS
      <4>1. Writing(d, u) /\ followReq[d].alone
        BY <1>1, <1>4, <2>1
      <4>2. AloneFits(d, u)
        BY <4>1 DEF FollowInv
      <4> QED BY <4>2 DEF AloneFits
    <3> QED BY <1>4, <2>1, <3>1
  <2>2. CASE w # u
    <3>1. d # c /\ Writing(d, w) /\ followReq[d].alone
      BY <1>1, <1>4, <2>2
    <3>2. AloneFits(d, w)
      BY <3>1 DEF FollowInv
    <3> QED BY <1>1, <2>2, <3>1, <3>2 DEF AloneFits, Agrees
  <2> QED BY <2>1, <2>2
<1>5. \A d \in Clients : followReq'[d].at # "idle" => followReq'[d].user \in Users
  BY DEF FollowInv, Writing
<1> QED BY <1>3, <1>4, <1>5 DEF FollowInv

\* A request starts to write for u; nothing else changes.
LEMMA StartStep ==
  ASSUME FollowInv, NEW c \in Clients, NEW u \in Users, NEW at \in {"row", "count"}, NEW follow \in BOOLEAN,
         StartWriting(c, u, at, follow), \A w \in Users : ~Writing(c, w), at = "count" => follow,
         UNCHANGED <<followRows, followSet, drifted>>
  PROVE  FollowInv'
<1>0. followReq \in [Clients -> Change]
  BY DEF FollowInv, FollowTypeOK, Change
<1>1. /\ followReq' \in [Clients -> Change]
      /\ followReq'[c].at = at /\ followReq'[c].follow = follow /\ Writing(c, u)'
      /\ followReq'[c].alone => \A d \in Clients \ {c} : ~Writing(d, u)
      /\ \A w \in Users \ {u} : ~Writing(c, w)'
      /\ \A d \in Clients \ {c} :
           /\ followReq'[d].at = followReq[d].at /\ followReq'[d].user = followReq[d].user
           /\ followReq'[d].follow = followReq[d].follow
           /\ followReq'[d].alone => followReq[d].alone /\ ~Writing(d, u)
  BY <1>0, Starts
<1>2. FollowTypeOK'
  BY <1>1 DEF FollowInv, FollowTypeOK, Change
<1>3. \A d \in Clients \ {c} : \A w \in Users : Writing(d, w)' <=> Writing(d, w)
  BY <1>1 DEF Writing
<1>4. ASSUME NEW w \in Users, Untouched(w)', w \notin drifted' PROVE Agrees(w)'
  <2>1. Untouched(w)
    BY <1>3, <1>4 DEF Untouched
  <2> QED BY <1>4, <2>1 DEF FollowInv, Agrees
<1>5. ASSUME NEW w \in Users, NEW d \in Clients, Writing(d, w)', followReq'[d].alone PROVE AloneFits(d, w)'
  <2>1. CASE d = c
    <3>1. w = u
      BY <1>1, <1>5, <2>1
    <3>2. \A e \in Clients \ {c} : ~Writing(e, u)'
      BY <1>1, <1>3, <1>5, <2>1
    <3>3. Untouched(u)
      BY <1>3, <3>2 DEF Untouched
    <3>4. u \notin drifted => Agrees(u)
      BY <3>3 DEF FollowInv
    <3> QED BY <1>1, <2>1, <3>1, <3>2, <3>4 DEF AloneFits, Agrees
  <2>2. CASE d # c
    <3>1. Writing(d, w) /\ followReq[d].alone /\ ~Writing(d, u)
      BY <1>1, <1>3, <1>5, <2>2
    <3>2. AloneFits(d, w) /\ w # u
      BY <3>1 DEF FollowInv
    <3>3. ~Writing(c, w)'
      BY <1>1, <3>2
    <3> QED BY <1>1, <1>3, <2>2, <3>2, <3>3 DEF AloneFits, Agrees
  <2> QED BY <2>1, <2>2
<1>6. \A d \in Clients : followReq'[d].at # "idle" => followReq'[d].user \in Users
  BY <1>1 DEF FollowInv, Writing
<1> QED BY <1>2, <1>4, <1>5, <1>6 DEF FollowInv

\* A request that writes for nobody, before and after, takes a step.
LEMMA IdleStep ==
  ASSUME FollowInv, FollowTypeOK', NEW c \in Clients, UNCHANGED <<followRows, followSet, drifted>>,
         \A d \in Clients \ {c} : followReq'[d] = followReq[d],
         \A w \in Users : ~Writing(c, w) /\ ~Writing(c, w)',
         followReq'[c].at # "idle" => followReq'[c].user \in Users
  PROVE  FollowInv'
<1>1. \A d \in Clients : \A w \in Users : Writing(d, w)' <=> Writing(d, w)
  BY DEF Writing
<1>2. ASSUME NEW w \in Users, Untouched(w)', w \notin drifted' PROVE Agrees(w)'
  BY <1>1, <1>2 DEF FollowInv, Untouched, Agrees
<1>3. ASSUME NEW w \in Users, NEW d \in Clients, Writing(d, w)', followReq'[d].alone PROVE AloneFits(d, w)'
  <2>1. d # c /\ Writing(d, w) /\ followReq[d].alone
    BY <1>1, <1>3
  <2>2. AloneFits(d, w)
    BY <2>1 DEF FollowInv
  <2> QED BY <1>1, <2>1, <2>2 DEF AloneFits, Agrees
<1>4. \A d \in Clients : followReq'[d].at # "idle" => followReq'[d].user \in Users
  BY DEF FollowInv
<1> QED BY <1>2, <1>3, <1>4 DEF FollowInv

LEMMA NextFollowInv == FollowInv /\ [Next]_socialVars => FollowInv'
<1> SUFFICES ASSUME FollowInv, [Next]_socialVars PROVE FollowInv'
  OBVIOUS
<1>0. /\ followReq \in [Clients -> Change] /\ followRows \in [Users -> Nat]
      /\ followSet \subseteq Users /\ drifted \subseteq Users
      /\ NoFollow \in Change /\ NoFollow.at = "idle" /\ NoFollow.user = "nobody" /\ "nobody" \notin Users
      /\ \A w \in Users : NoFollow.user # w
  BY DEF FollowInv, FollowTypeOK, Change, NoFollow
\* A request that writes for u ends: u has drifted unless the request was
\* alone, and if it was the set and the rows are what they were or agree.
<1>1. ASSUME NEW c \in Clients, NEW u \in Users, Writing(c, u), EndFollow(c),
             \A w \in Users \ {u} :
               /\ followRows'[w] = followRows[w] /\ (w \in followSet' <=> w \in followSet)
               /\ (w \in drifted' <=> w \in drifted),
             followRows' \in [Users -> Nat], followSet' \subseteq Users, drifted' \subseteq Users,
             u \notin drifted' => Agrees(u)'
      PROVE  FollowInv'
  <2>1. /\ followReq' \in [Clients -> Change] /\ followReq'[c] = NoFollow
        /\ \A d \in Clients \ {c} : followReq'[d] = followReq[d]
    BY <1>0, <1>1 DEF EndFollow
  <2>2. FollowTypeOK'
    BY <1>1, <2>1 DEF FollowTypeOK, Change
  <2>3. \A w \in Users : ~Writing(c, w)'
    BY <1>0, <2>1 DEF Writing
  <2>4. followReq'[c].at = "idle"
    BY <1>0, <2>1
  <2> QED BY <1>1, <2>1, <2>2, <2>3, <2>4, OwnStep
\* Or it goes on.
<1>2. ASSUME NEW c \in Clients, NEW u \in Users, Writing(c, u),
             NEW at \in {"set", "backfill"}, Then(c, at), UNCHANGED <<followSet, drifted>>,
             \A w \in Users \ {u} : followRows'[w] = followRows[w], followRows' \in [Users -> Nat],
             followReq[c].alone => AloneFits(c, u)'
      PROVE  FollowInv'
  <2> DEFINE r == [followReq[c] EXCEPT !.at = at]
  <2>1. r \in Change /\ r.at = at /\ r.user = followReq[c].user /\ r.alone = followReq[c].alone
    BY <1>0 DEF Change
  <2>2. followReq' = [followReq EXCEPT ![c] = r]
    BY <1>2 DEF Then
  <2> HIDE DEF r
  <2>3. /\ followReq' \in [Clients -> Change] /\ followReq'[c] = r
        /\ \A d \in Clients \ {c} : followReq'[d] = followReq[d]
    BY <1>0, <2>1, <2>2
  <2>4. FollowTypeOK'
    BY <1>0, <1>2, <2>3 DEF FollowTypeOK, Change
  <2>5. Writing(c, u)' /\ \A w \in Users \ {u} : ~Writing(c, w)'
    BY <1>2, <2>1, <2>3 DEF Writing
  <2> QED BY <1>2, <2>1, <2>3, <2>4, <2>5, OwnStep
\* The calls of a request, each with the user it is for.
<1>3. ASSUME NEW c \in Clients, NEW u \in Users, NEW isFollow \in BOOLEAN, Follow(c, u, isFollow)
      PROVE  FollowInv'
  <2>1. \A w \in Users : ~Writing(c, w)
    BY <1>0, <1>3 DEF Follow, Writing
  <2> QED BY <1>3, <2>1, StartStep DEF Follow
<1>4. ASSUME NEW c \in Clients, NEW u \in Users, IsFollow(c, u) PROVE FollowInv'
  <2> DEFINE r == [followReq[c] EXCEPT !.at = "ask", !.user = u]
  <2>1. r \in Change /\ r.at = "ask" /\ r.user = u
    BY <1>0 DEF Change
  <2>2. followReq' = [followReq EXCEPT ![c] = r] /\ followReq[c] = NoFollow /\ UNCHANGED <<followRows, followSet, drifted>>
    BY <1>4 DEF IsFollow
  <2> HIDE DEF r
  <2>3. /\ followReq' \in [Clients -> Change] /\ followReq'[c] = r
        /\ \A d \in Clients \ {c} : followReq'[d] = followReq[d]
    BY <1>0, <2>1, <2>2
  <2>4. FollowTypeOK'
    BY <1>0, <2>2, <2>3 DEF FollowTypeOK, Change
  <2>5. \A w \in Users : ~Writing(c, w) /\ ~Writing(c, w)'
    BY <1>0, <2>1, <2>2, <2>3 DEF Writing
  <2> QED BY <2>1, <2>2, <2>3, <2>4, <2>5, IdleStep
<1>5. ASSUME NEW c \in Clients, SIsMember(c) PROVE FollowInv'
  <2>1. followReq[c].at = "ask" /\ EndFollow(c) /\ UNCHANGED <<followRows, followSet, drifted>>
    BY <1>5 DEF SIsMember
  <2>2. /\ followReq' \in [Clients -> Change] /\ followReq'[c] = NoFollow
        /\ \A d \in Clients \ {c} : followReq'[d] = followReq[d]
    BY <1>0, <2>1 DEF EndFollow
  <2>3. FollowTypeOK'
    BY <1>0, <2>1, <2>2 DEF FollowTypeOK, Change
  <2>4. \A w \in Users : ~Writing(c, w) /\ ~Writing(c, w)'
    BY <1>0, <2>1, <2>2 DEF Writing
  <2> QED BY <1>0, <2>1, <2>2, <2>3, <2>4, IdleStep
<1>6. ASSUME NEW c \in Clients, SIsMemberError(c) PROVE FollowInv'
  <2>1. /\ followReq[c].at = "ask" /\ StartWriting(c, followReq[c].user, "count", TRUE)
        /\ UNCHANGED <<followRows, followSet, drifted>>
    BY <1>6 DEF SIsMemberError
  <2>2. PICK u \in Users : u = followReq[c].user
    BY <2>1 DEF FollowInv
  <2>3. StartWriting(c, u, "count", TRUE)
    BY <2>1, <2>2
  <2>4. \A w \in Users : ~Writing(c, w)
    BY <2>1 DEF Writing
  <2> QED BY <2>1, <2>3, <2>4, StartStep
<1>7. ASSUME NEW c \in Clients, FollowRow(c) PROVE FollowInv'
  <2>1. PICK u \in Users : u = followReq[c].user /\ Writing(c, u)
    BY <1>7 DEF FollowRow, FollowInv, Writing
  <2>2. /\ Then(c, "set") /\ UNCHANGED <<followSet, drifted>>
        /\ followRows' = [followRows EXCEPT ![u] = IF followReq[c].follow THEN @ + 1 ELSE 0]
    BY <1>7, <2>1 DEF FollowRow, RowsAfter
  <2>3. /\ followRows' \in [Users -> Nat] /\ \A w \in Users \ {u} : followRows'[w] = followRows[w]
        /\ followReq[c].follow <=> followRows'[u] > 0
    BY <1>0, <2>2
  <2>4. ASSUME followReq[c].alone PROVE AloneFits(c, u)'
    <3>1. \A d \in Clients \ {c} : ~Writing(d, u) /\ followReq'[d] = followReq[d]
      BY <1>0, <2>1, <2>2, <2>4 DEF FollowInv, AloneFits, Then
    <3>2. followReq'[c].at = "set" /\ followReq'[c].follow = followReq[c].follow
      BY <1>0, <2>2 DEF Then, Change
    <3> QED BY <2>3, <3>1, <3>2 DEF AloneFits, Writing
  <2> QED BY <1>2, <2>1, <2>2, <2>3, <2>4
<1>8. ASSUME NEW c \in Clients, FollowSet(c) \/ FollowError(c) PROVE FollowInv'
  <2>1. PICK u \in Users : u = followReq[c].user /\ Writing(c, u)
    BY <1>8 DEF FollowSet, FollowError, FollowInv, Writing
  <2>2. /\ EndFollow(c)
        /\ followRows' \in {followRows, RowsAfter(followReq[c])}
        /\ followSet' \in {followSet, followSet \cup {u}, followSet \ {u}}
        /\ drifted' \in {drifted \ {u}, drifted \cup {u}}
    BY <1>8, <2>1 DEF FollowSet, FollowError, SetAfter
  <2>3. followRows' \in [Users -> Nat] /\ \A w \in Users \ {u} : followRows'[w] = followRows[w]
    BY <1>0, <2>1, <2>2 DEF RowsAfter
  <2>4. ASSUME u \notin drifted' PROVE Agrees(u)'
    <3>1. FollowSet(c) /\ followReq[c].alone
      BY <1>8, <2>1, <2>4 DEF FollowSet, FollowError
    <3>2. followReq[c].follow <=> followRows[u] > 0
      BY <2>1, <3>1 DEF FollowInv, AloneFits, FollowSet
    <3>3. followRows' = followRows /\ (u \in followSet' <=> followReq[c].follow)
      BY <2>1, <3>1 DEF FollowSet, SetAfter
    <3> QED BY <3>2, <3>3 DEF Agrees
  <2> QED BY <1>0, <1>1, <2>1, <2>2, <2>3, <2>4
<1>9. ASSUME NEW c \in Clients, IsFollowing(c), followRows[followReq[c].user] > 0 PROVE FollowInv'
  <2>1. PICK u \in Users : u = followReq[c].user /\ Writing(c, u)
    BY <1>9 DEF IsFollowing, FollowInv, Writing
  <2>2. Then(c, "backfill") /\ UNCHANGED <<followRows, followSet, drifted>> /\ followReq[c].at = "count"
    BY <1>9 DEF IsFollowing
  <2>3. ASSUME followReq[c].alone PROVE AloneFits(c, u)'
    <3>1. \A d \in Clients \ {c} : ~Writing(d, u) /\ followReq'[d] = followReq[d]
      BY <1>0, <2>1, <2>2, <2>3 DEF FollowInv, AloneFits, Then
    <3>2. followReq'[c].at = "backfill" /\ followReq'[c].follow = followReq[c].follow
      BY <1>0, <2>2 DEF Then, Change
    <3>3. followReq[c].follow /\ (u \notin drifted => Agrees(u))
      BY <2>1, <2>2, <2>3 DEF FollowInv, AloneFits
    <3> QED BY <1>9, <2>1, <2>2, <3>1, <3>2, <3>3 DEF AloneFits, Agrees, Writing
  <2> QED BY <1>0, <1>2, <2>1, <2>2, <2>3
\* A repair that ends, with or without effect on the set.
<1>10. ASSUME NEW c \in Clients, EndFollow(c), followRows' = followRows,
              followReq[c].at \in {"count", "backfill"},
              \/ followSet' = followSet
              \/ followReq[c].at = "backfill" /\ followSet' = SetAfter(followReq[c]),
              drifted' = IF followReq[c].alone THEN drifted ELSE drifted \cup {followReq[c].user}
       PROVE  FollowInv'
  <2>1. PICK u \in Users : u = followReq[c].user /\ Writing(c, u)
    BY <1>10 DEF FollowInv, Writing
  <2>2. followSet' \in {followSet, followSet \cup {u}, followSet \ {u}} /\ drifted' \in {drifted, drifted \cup {u}}
    BY <1>10, <2>1 DEF SetAfter
  <2>3. ASSUME u \notin drifted' PROVE Agrees(u)'
    <3>1. followReq[c].alone /\ u \notin drifted
      BY <1>10, <2>1, <2>3
    <3>2. AloneFits(c, u)
      BY <2>1, <3>1 DEF FollowInv
    <3>3. Agrees(u)
      BY <1>10, <3>1, <3>2 DEF AloneFits
    <3>4. CASE followSet' = followSet
      BY <1>10, <3>3, <3>4 DEF Agrees
    <3>5. CASE followReq[c].at = "backfill" /\ followSet' = SetAfter(followReq[c])
      BY <1>10, <2>1, <3>2, <3>5 DEF AloneFits, Agrees, SetAfter
    <3> QED BY <1>10, <3>4, <3>5
  <2> QED BY <1>0, <1>1, <1>10, <2>1, <2>2, <2>3
<1>11. ASSUME NEW c \in Clients, IsFollowing(c) \/ Backfill(c) \/ IsFollowError(c) PROVE FollowInv'
  <2>1. CASE IsFollowing(c) /\ ~(followRows[followReq[c].user] > 0)
    BY <1>10, <2>1 DEF IsFollowing
  <2>2. CASE Backfill(c)
    BY <1>10, <2>2 DEF Backfill
  <2>3. CASE IsFollowError(c)
    BY <1>10, <2>3 DEF IsFollowError
  <2> QED BY <1>9, <1>11, <2>1, <2>2, <2>3
<1>12. CASE Crash
  <2>1. /\ followReq' = [c \in Clients |-> NoFollow] /\ UNCHANGED <<followRows, followSet>>
        /\ drifted' = drifted \cup {u \in Users : \E c \in Clients : Writing(c, u)}
    BY <1>12 DEF Crash, FollowCrash
  <2>2. \A u \in Users : u \notin drifted' => Untouched(u) /\ u \notin drifted
    BY <2>1 DEF Untouched
  <2>3. \A u \in Users : u \notin drifted' => Agrees(u)'
    BY <2>1, <2>2 DEF FollowInv, Agrees
  <2>4. \A c \in Clients : \A w \in Users : ~Writing(c, w)'
    BY <1>0, <2>1 DEF Writing
  <2>5. \A c \in Clients : followReq'[c].at = "idle"
    BY <1>0, <2>1
  <2>6. FollowTypeOK'
    <3>1. followReq' \in [Clients -> Change]
      BY <1>0, <2>1
    <3>2. drifted' \subseteq Users
      BY <1>0, <2>1
    <3> QED BY <1>0, <2>1, <3>1, <3>2 DEF FollowTypeOK, Change
  <2> QED BY <2>3, <2>4, <2>5, <2>6 DEF FollowInv
<1>13. CASE UNCHANGED followVars
  BY <1>13 DEF followVars, FollowInv, FollowTypeOK, Untouched, Agrees, AloneFits, Writing
<1>14. CASE FollowNext
  BY <1>3, <1>4, <1>5, <1>6, <1>7, <1>8, <1>11, <1>14 DEF FollowNext
<1> QED BY <1>12, <1>13, <1>14 DEF Next, socialVars

(***************************************************************************)
(* The set and the table agree on every user whose last change failed      *)
(* nowhere and ran alone.                                                  *)
(***************************************************************************)
THEOREM FollowersKnown == Spec => []FollowsAgree
<1>1. FollowInv => FollowsAgree
  BY DEF FollowInv, FollowsAgree, Untouched, Agrees
<1> QED BY <1>1, InitFollowInv, NextFollowInv, PTL DEF Spec

-----------------------------------------------------------------------------
(***************************************************************************)
(* The feed: ranks and pages of one sorted set.                            *)
(***************************************************************************)
LEMMA RankFacts ==
  ASSUME NEW n \in Nat, NEW f, DOMAIN f \subseteq 1..n, \A b \in DOMAIN f : f[b] \in Int, NEW max
  PROVE  /\ IsFiniteSet(DOMAIN f)
         /\ \A b : Rank(f, max, b) \in Nat
         /\ \A a, b \in Below(f, max) : Newer(f, a, b) => Rank(f, max, a) < Rank(f, max, b)
         /\ \A a, b \in Below(f, max) : a = b \/ Newer(f, a, b) \/ Newer(f, b, a)
<1> DEFINE before(b) == {a \in Below(f, max) : Newer(f, a, b)}
<1>1. IsFiniteSet(DOMAIN f)
  <2>1. IsFiniteSet(1..n)
    BY FS_Interval
  <2> QED BY <2>1, FS_Subset
<1>2. ASSUME NEW b PROVE IsFiniteSet(before(b)) /\ Rank(f, max, b) = Cardinality(before(b))
  <2>1. before(b) \subseteq DOMAIN f
    BY DEF Below
  <2> QED BY <1>1, <2>1, FS_Subset DEF Rank
<1>3. \A b : Rank(f, max, b) \in Nat
  BY <1>2, FS_CardinalityType
<1>4. ASSUME NEW a \in Below(f, max), NEW b \in Below(f, max), Newer(f, a, b)
      PROVE  Rank(f, max, a) < Rank(f, max, b)
  <2>1. a \in Int /\ b \in Int /\ f[a] \in Int /\ f[b] \in Int
    BY DEF Below
  <2>2. before(a) \subseteq before(b)
    BY <1>4, <2>1 DEF Newer, Below
  <2>3. a \in before(b) /\ a \notin before(a)
    BY <1>4, <2>1 DEF Newer
  <2>4. before(a) # before(b)
    BY <2>3
  <2> HIDE DEF before
  <2>5. Cardinality(before(a)) <= Cardinality(before(b)) /\ Cardinality(before(a)) # Cardinality(before(b))
    BY <1>2, <2>2, <2>4, FS_Subset
  <2> QED BY <1>2, <1>3, <2>5
<1>5. ASSUME NEW a \in Below(f, max), NEW b \in Below(f, max)
      PROVE  a = b \/ Newer(f, a, b) \/ Newer(f, b, a)
  BY DEF Newer, Below
<1> QED BY <1>1, <1>3, <1>4, <1>5

\* A page has no more blogs than its size: no two blogs have one rank.
LEMMA PageFacts ==
  ASSUME NEW n \in Nat, NEW f, DOMAIN f \subseteq 1..n, \A b \in DOMAIN f : f[b] \in Int,
         NEW max, NEW offset \in Nat
  PROVE  /\ PageOf(f, max, offset) \subseteq DOMAIN f
         /\ IsFiniteSet(PageOf(f, max, offset)) /\ Cardinality(PageOf(f, max, offset)) <= PageSize
<1> DEFINE page  == PageOf(f, max, offset)
           ranks == offset .. offset + PageSize - 1
           g     == [b \in page |-> Rank(f, max, b)]
<1>0. /\ \A b : Rank(f, max, b) \in Nat
      /\ \A a, b \in Below(f, max) : Newer(f, a, b) => Rank(f, max, a) < Rank(f, max, b)
      /\ \A a, b \in Below(f, max) : a = b \/ Newer(f, a, b) \/ Newer(f, b, a)
  BY RankFacts
<1>1. page \subseteq Below(f, max) /\ page \subseteq DOMAIN f /\ \A b \in page : Rank(f, max, b) \in ranks
  BY DEF PageOf, Below
<1>2. \A a, b \in page : Rank(f, max, a) = Rank(f, max, b) => a = b
  <2> SUFFICES ASSUME NEW a \in page, NEW b \in page, Rank(f, max, a) = Rank(f, max, b) PROVE a = b
    OBVIOUS
  <2>1. ~(Rank(f, max, a) < Rank(f, max, b)) /\ ~(Rank(f, max, b) < Rank(f, max, a))
    BY <1>0
  <2> QED BY <1>0, <1>1, <2>1, Zenon
<1>3. IsFiniteSet(ranks) /\ Cardinality(ranks) = PageSize
  <2>1. /\ offset \in Int /\ offset + PageSize - 1 \in Int /\ ~(offset > offset + PageSize - 1)
        /\ (offset + PageSize - 1) - offset + 1 = PageSize
    BY FeedAssumption
  <2> QED BY <2>1, FS_Interval
<1> HIDE DEF page, ranks
<1>4. g \in Injection(page, ranks)
  <2>1. g \in [page -> ranks]
    BY <1>1
  <2>2. \A a, b \in page : g[a] = g[b] => a = b
    BY <1>2
  <2> QED BY <2>1, <2>2 DEF Injection, IsInjective
<1>5. IsFiniteSet(page) /\ Cardinality(page) <= PageSize
  BY <1>3, <1>4, FS_Injection
<1> QED BY <1>1, <1>5 DEF page

\* A page that is not empty has a last blog.
LEMMA LastFacts ==
  ASSUME NEW n \in Nat, NEW f, \A b \in DOMAIN f : f[b] \in Nat,
         NEW page, page \subseteq DOMAIN f, page \subseteq 1..n, page # {}
  PROVE  /\ Last(f, page) \in page
         /\ \A a \in page : a = Last(f, page) \/ Newer(f, a, Last(f, page))
<1> DEFINE scores == {f[b] : b \in page}
<1>1. \A T : T \subseteq Nat /\ T # {} => \E x \in T : \A y \in T : x <= y
  BY LeastElement
<1>2. PICK t \in scores : \A s \in scores : t <= s
  <2>1. scores \subseteq Nat /\ scores # {}
    OBVIOUS
  <2> QED BY <1>1, <2>1
<1>3. PICK b \in {a \in page : f[a] = t} : \A a \in {a \in page : f[a] = t} : b <= a
  <2>1. {a \in page : f[a] = t} \subseteq Nat /\ {a \in page : f[a] = t} # {}
    OBVIOUS
  <2> QED BY <1>1, <2>1
<1>4. b \in page /\ \A a \in page \ {b} : Newer(f, a, b)
  <2> SUFFICES ASSUME NEW a \in page \ {b} PROVE Newer(f, a, b)
    BY <1>3
  <2>1. t <= f[a] /\ f[b] = t /\ f[a] \in Nat /\ t \in Nat /\ a \in Int /\ b \in Int
    BY <1>2, <1>3
  <2>2. f[a] = t => b <= a
    BY <1>3
  <2> QED BY <2>1, <2>2 DEF Newer
<1> QED BY <1>4 DEF Last

\* What a reader at a position has been shown of a set.
ShownBefore(f, max, offset, shown) ==
  \A b \in shown : /\ b \in DOMAIN f /\ f[b] >= max
                   /\ f[b] = max => Rank(f, max, b) < offset

\* A page shows nothing again.
LEMMA PageIsNew ==
  ASSUME NEW n \in Nat, NEW f, DOMAIN f \subseteq 1..n, \A b \in DOMAIN f : f[b] \in Int,
         NEW max \in Int, NEW offset \in Nat, NEW shown, ShownBefore(f, max, offset, shown)
  PROVE  PageOf(f, max, offset) \cap shown = {}
<1> SUFFICES ASSUME NEW b \in PageOf(f, max, offset), b \in shown PROVE FALSE
  OBVIOUS
<1>1. b \in DOMAIN f /\ f[b] <= max /\ Rank(f, max, b) \in offset .. offset + PageSize - 1
  BY DEF PageOf, Below
<1>2. f[b] = max /\ Rank(f, max, b) < offset
  BY <1>1 DEF ShownBefore
<1>3. Rank(f, max, b) \in Nat
  BY RankFacts
<1> QED BY <1>1, <1>2, <1>3

\* After a full page the position it leaves is right again, unless some second
\* has more blogs than a page: no blog of the last one's second is above the page.
LEMMA NextPosition ==
  ASSUME NEW n \in Nat, NEW f, DOMAIN f \subseteq 1..n, \A b \in DOMAIN f : f[b] \in 1..MaxTime,
         NEW max \in Int, NEW offset \in Nat, NEW shown, ShownBefore(f, max, offset, shown),
         ~Busy(f), NEW page, page = PageOf(f, max, offset), ~(Cardinality(page) < PageSize)
  PROVE  /\ f[Last(f, page)] \in 1..MaxTime /\ Equals(f, page) \in 0..PageSize
         /\ ShownBefore(f, f[Last(f, page)], Equals(f, page), shown \cup page)
<1> DEFINE last == Last(f, page)   m == f[Last(f, page)]   same == {b \in page : f[b] = m}
<1>0. PageSize \in Nat /\ PageSize >= 1 /\ MaxTime \in Int /\ \A b \in DOMAIN f : f[b] \in Int /\ f[b] \in Nat
  BY FeedAssumption, ClockAssumption
<1>1. /\ \A b : Rank(f, max, b) \in Nat
      /\ \A a, b \in Below(f, max) : Newer(f, a, b) => Rank(f, max, a) < Rank(f, max, b)
      /\ \A a, b \in Below(f, max) : a = b \/ Newer(f, a, b) \/ Newer(f, b, a)
      /\ IsFiniteSet(DOMAIN f)
  BY <1>0, RankFacts
<1>2. page \subseteq DOMAIN f /\ IsFiniteSet(page) /\ Cardinality(page) <= PageSize /\ Cardinality(page) \in Nat
  BY <1>0, PageFacts, FS_CardinalityType
<1>3. page # {} /\ Cardinality(page) = PageSize
  <2>1. Cardinality({}) = 0
    BY FS_EmptySet
  <2> QED BY <1>0, <1>2, <2>1
<1>4. last \in page /\ \A a \in page : a = last \/ Newer(f, a, last)
  BY <1>0, <1>2, <1>3, LastFacts
<1>5. m \in 1..MaxTime /\ m \in Int /\ m <= max /\ \A a \in page : f[a] >= m /\ f[a] <= max
  <2>1. \A a \in page : f[a] <= max /\ f[a] \in Int
    BY <1>0 DEF PageOf, Below
  <2>2. \A a \in page : f[a] >= m
    BY <1>0, <1>2, <1>4 DEF Newer
  <2> QED BY <1>2, <1>4, <2>1, <2>2
<1>6. /\ IsFiniteSet(same) /\ Cardinality(same) \in 0..PageSize /\ Equals(f, page) = Cardinality(same)
  <2>1. IsFiniteSet(same) /\ Cardinality(same) <= Cardinality(page) /\ Cardinality(same) \in Nat
    BY <1>2, FS_Subset, FS_CardinalityType
  <2> QED BY <1>0, <1>2, <2>1 DEF Equals
<1> HIDE DEF last
\* The only use of ~Busy: a blog of that second above the page would make all of
\* the page that second's.
<1>7. ASSUME NEW a \in Below(f, max), f[a] = m PROVE ~(Rank(f, max, a) < offset)
  <2> SUFFICES ASSUME Rank(f, max, a) < offset PROVE FALSE
    OBVIOUS
  <2>1. a \notin page
    BY <1>1 DEF PageOf
  <2>2. ASSUME NEW b \in page PROVE f[b] = m
    <3>1. b \in Below(f, max) /\ Rank(f, max, b) >= offset
      BY <1>1 DEF PageOf
    <3>2. ~Newer(f, b, a) /\ a # b
      <4>1. ~(Rank(f, max, b) < Rank(f, max, a))
        BY <1>1, <3>1
      <4> QED BY <1>1, <2>1, <3>1, <4>1
    <3>3. Newer(f, a, b)
      BY <1>1, <3>1, <3>2
    <3>4. f[b] <= m /\ f[b] >= m /\ f[b] \in Int
      BY <1>0, <1>2, <1>5, <1>7, <3>3 DEF Newer
    <3> QED BY <1>5, <3>4
  <2> DEFINE crowd == {b \in DOMAIN f : f[b] = m}
  <2>3. page \cup {a} \subseteq crowd
    BY <1>2, <1>7, <2>2 DEF Below
  <2>4. Cardinality(page \cup {a}) = PageSize + 1 /\ IsFiniteSet(crowd)
    <3>1. Cardinality(page \cup {a}) = Cardinality(page) + 1
      BY <1>2, <2>1, FS_AddElement
    <3>2. IsFiniteSet(crowd)
      BY <1>1, FS_Subset
    <3> QED BY <1>3, <3>1, <3>2
  <2>5. Cardinality(page \cup {a}) <= Cardinality(crowd) /\ Cardinality(crowd) \in Nat
    BY <2>3, <2>4, FS_Subset, FS_CardinalityType
  <2>6. Cardinality(crowd) > PageSize
    BY <1>0, <2>4, <2>5
  <2> QED BY <1>5, <2>6 DEF Busy
<1>8. ASSUME NEW b \in shown \cup page PROVE b \in DOMAIN f /\ f[b] >= m
  <2>1. CASE b \in page
    BY <1>2, <1>5, <2>1
  <2>2. CASE b \in shown
    <3>1. b \in DOMAIN f /\ f[b] >= max
      BY <2>2 DEF ShownBefore
    <3> QED BY <1>0, <1>5, <3>1
  <2> QED BY <2>1, <2>2
<1>9. ASSUME NEW b \in shown \cup page, f[b] = m PROVE b \in page
  <2> SUFFICES ASSUME b \in shown PROVE FALSE
    OBVIOUS
  <2>1. b \in DOMAIN f /\ f[b] >= max /\ (f[b] = max => Rank(f, max, b) < offset)
    BY DEF ShownBefore
  <2>2. f[b] = max
    BY <1>5, <1>9, <2>1
  <2>3. b \in Below(f, max)
    BY <1>0, <2>1, <2>2 DEF Below
  <2> QED BY <1>7, <1>9, <2>1, <2>2, <2>3
<1>10. ASSUME NEW b \in page, f[b] = m PROVE Rank(f, m, b) < Cardinality(same)
  <2> DEFINE before == {a \in Below(f, m) : Newer(f, a, b)}
  <2>1. b \in DOMAIN f /\ b \in Below(f, max) /\ Rank(f, max, b) \in offset .. offset + PageSize - 1
    BY DEF PageOf, Below
  <2>2. ASSUME NEW a \in before PROVE a \in same /\ a # b
    <3>1. a \in DOMAIN f /\ f[a] = m /\ a > b /\ a \in Int /\ b \in Int
      BY <1>0, <1>5, <1>10, <2>1 DEF Newer, Below
    <3>2. a \in Below(f, max)
      BY <1>0, <1>5, <3>1 DEF Below
    <3>3. ~(Rank(f, max, a) < offset)
      BY <1>7, <3>1, <3>2
    <3>4. Rank(f, max, a) < Rank(f, max, b)
      BY <1>1, <2>1, <3>2
    <3>5. Rank(f, max, a) \in offset .. offset + PageSize - 1
      BY <1>0, <1>1, <2>1, <3>3, <3>4
    <3>6. a \in page
      BY <3>2, <3>5 DEF PageOf
    <3> QED BY <3>1, <3>6
  <2>3. before \subseteq same \ {b} /\ b \in same
    BY <1>10, <2>2
  <2> HIDE DEF before, same
  <2>4. Cardinality(before) <= Cardinality(same \ {b}) /\ Cardinality(same \ {b}) = Cardinality(same) - 1
        /\ Cardinality(before) \in Nat /\ Cardinality(same) \in Nat
    <3>1. IsFiniteSet(same) /\ IsFiniteSet(same \ {b}) /\ Cardinality(same \ {b}) = Cardinality(same) - 1
      BY <1>6, <2>3, FS_RemoveElement, FS_Subset
    <3> QED BY <2>3, <3>1, FS_Subset, FS_CardinalityType
  <2>5. Rank(f, m, b) = Cardinality(before)
    BY DEF Rank, before
  <2> QED BY <2>4, <2>5
<1>11. ShownBefore(f, m, Cardinality(same), shown \cup page)
  <2> HIDE DEF same, m
  <2> QED BY <1>8, <1>9, <1>10 DEF ShownBefore
<1> QED BY <1>5, <1>6, <1>11

\* A push with another second than the reader's, and not of a blog that it takes
\* back before that second, moves nothing the reader has been shown.
LEMMA OtherSecond ==
  ASSUME NEW n \in Nat, NEW f, DOMAIN f \subseteq 1..n, \A b \in DOMAIN f : f[b] \in Int,
         NEW max \in Int, NEW offset \in Nat, NEW shown, ShownBefore(f, max, offset, shown),
         NEW time \in Int, time # max, NEW new \in 1..n, time < max => new \notin shown,
         NEW g, DOMAIN g = DOMAIN f \cup {new}, g[new] = time, \A b \in DOMAIN f \ {new} : g[b] = f[b]
  PROVE  ShownBefore(g, max, offset, shown)
<1> SUFFICES ASSUME NEW b \in shown
             PROVE  b \in DOMAIN g /\ g[b] >= max /\ (g[b] = max => Rank(g, max, b) < offset)
  BY DEF ShownBefore
<1>1. b \in DOMAIN f /\ f[b] >= max /\ (f[b] = max => Rank(f, max, b) < offset) /\ f[b] \in Int
  BY DEF ShownBefore
<1>2. b \in DOMAIN g /\ g[b] >= max
  <2>1. CASE b = new
    BY <1>1, <2>1
  <2>2. CASE b # new
    BY <1>1, <2>2
  <2> QED BY <2>1, <2>2
<1>3. ASSUME g[b] = max PROVE Rank(g, max, b) < offset
  <2>1. b # new /\ f[b] = max
    BY <1>1, <1>3
  <2> DEFINE fs == {a \in Below(f, max) : Newer(f, a, b)}
             gs == {a \in Below(g, max) : Newer(g, a, b)}
  <2>2. gs \subseteq fs
    <3> SUFFICES ASSUME NEW a \in gs PROVE a \in fs
      OBVIOUS
    <3>1. a \in DOMAIN g /\ g[a] = max /\ a > b
      <4>1. a \in DOMAIN g /\ g[a] <= max /\ (g[a] > max \/ (g[a] = max /\ a > b))
        BY <1>3 DEF Below, Newer
      <4>2. g[a] \in Int
        BY <4>1
      <4> QED BY <4>1, <4>2
    <3>2. a \in DOMAIN f /\ f[a] = max
      BY <3>1
    <3> QED BY <2>1, <3>1, <3>2 DEF Below, Newer
  <2>3. IsFiniteSet(fs)
    <3>1. IsFiniteSet(DOMAIN f)
      BY RankFacts
    <3> QED BY <3>1, FS_Subset DEF Below
  <2>4. Rank(f, max, b) = Cardinality(fs) /\ Rank(g, max, b) = Cardinality(gs)
    BY DEF Rank
  <2> HIDE DEF fs, gs
  <2>5. Cardinality(gs) <= Cardinality(fs) /\ Cardinality(gs) \in Nat /\ Cardinality(fs) \in Nat
    BY <2>2, <2>3, FS_Subset, FS_CardinalityType
  <2> QED BY <1>1, <2>1, <2>4, <2>5
<1> QED BY <1>2, <1>3

-----------------------------------------------------------------------------
(***************************************************************************)
(* The feed: its state.                                                    *)
(***************************************************************************)
Pusher == [at: {"idle", "followers", "push", "zadd"}, blog: Nat, left: [Users -> Nat],
           user: Users \cup {"nobody"}, score: Nat]

Fields == {"user", "max", "offset", "shown", "crowded", "again"}

SetsFit ==
  /\ blogs \in Nat /\ now \in StartTime..MaxTime
  /\ feed = [u \in Users |-> feed[u]]
  /\ \A u \in Users : DOMAIN feed[u] \subseteq 1..blogs /\ \A b \in DOMAIN feed[u] : feed[u][b] \in 1..now

\* A request pushes a blog that exists, with a second that has been.
Fits(r, rows, time) ==
  /\ r.blog <= rows /\ (r.at # "idle" => r.blog >= 1) /\ r.score <= time
  /\ r.at = "zadd" => r.user \in Users /\ r.score >= 1 /\ r.left[r.user] > 0

LateFit(rows, time) == [user: Users, blog: 1..rows, score: 1..time, fault: Nat]

PushersFit ==
  /\ pushReq \in [Clients -> Pusher]
  /\ \A c \in Clients : Fits(pushReq[c], blogs, now)
  /\ lateAdds \subseteq LateFit(blogs, now)

\* A reader is at the score of a blog, so never ahead of the clock.
ReaderFits ==
  /\ DOMAIN scroll = Fields
  /\ scroll.user \in Users \cup {"nobody"} /\ scroll.shown \subseteq 1..blogs
  /\ scroll.max \in 0..MaxTime + 1 /\ scroll.offset \in 0..PageSize
  /\ scroll.user \in Users => scroll.max <= now

ReaderKnows ==
  ~scroll.crowded =>
    /\ ~scroll.again
    /\ scroll.user \in Users => ShownBefore(feed[scroll.user], scroll.max, scroll.offset, scroll.shown)

FeedInv == SetsFit /\ PushersFit /\ ReaderFits /\ ReaderKnows

LEMMA InitFeedInv == Init => FeedInv
<1> SUFFICES ASSUME Init PROVE FeedInv
  OBVIOUS
<1>0. OldBlogs \in Nat /\ PageSize \in Nat /\ StartTime \in Nat /\ StartTime >= 1 /\ MaxTime \in Nat /\ StartTime <= MaxTime
  BY FeedAssumption, ClockAssumption
<1>1. PICK old \in [1..OldBlogs -> 1..StartTime] : feed = [u \in Users |-> old]
  BY DEF Init, FeedInit
<1>2. /\ blogs = OldBlogs /\ now = StartTime /\ pushReq = [c \in Clients |-> NoPush] /\ scroll = NoScroll
      /\ lateAdds = {}
  BY DEF Init, FeedInit, ClockInit
<1>3. SetsFit
  BY <1>0, <1>1, <1>2 DEF SetsFit
<1>4. NoPush \in Pusher /\ NoPush.at = "idle" /\ NoPush.blog = 0 /\ NoPush.score = 0
  BY DEF NoPush, Pusher
<1>5. PushersFit
  BY <1>0, <1>2, <1>4 DEF PushersFit, Fits
<1>6. ReaderFits
  BY <1>0, <1>2, UsersAssumption DEF ReaderFits, NoScroll, Fields
<1>7. ~NoScroll.again /\ NoScroll.user \notin Users
  BY UsersAssumption DEF NoScroll
<1>8. ReaderKnows
  BY <1>2, <1>7 DEF ReaderKnows
<1> QED BY <1>3, <1>5, <1>6, <1>8 DEF FeedInv

LEMMA NextFeedInv == FeedInv /\ FollowTypeOK /\ CallsTypeOK /\ [Next]_socialVars => FeedInv'
<1> SUFFICES ASSUME FeedInv, FollowTypeOK, CallsTypeOK, [Next]_socialVars PROVE FeedInv'
  OBVIOUS
<1>0. /\ PageSize \in Nat /\ PageSize >= 1 /\ StartTime \in Nat /\ StartTime >= 1 /\ MaxTime \in Nat
      /\ blogs \in Nat /\ now \in StartTime..MaxTime /\ now \in Nat /\ now >= 1
  BY FeedAssumption, ClockAssumption DEF FeedInv, SetsFit
<1>1. NoPush \in Pusher /\ NoPush.at = "idle" /\ NoPush.blog = 0 /\ NoPush.score = 0
  BY DEF NoPush, Pusher
<1>2. /\ pushReq \in [Clients -> Pusher] /\ faults \in Nat
      /\ lateAdds \subseteq LateFit(blogs, now)
      /\ Fits(NoPush, blogs, now) /\ \A c \in Clients : Fits(pushReq[c], blogs, now)
  BY <1>0, <1>1, CallsAssumption DEF Fits, FeedInv, PushersFit, CallsTypeOK
\* One request of SaveBlog goes on.
<1>3. ASSUME NEW c \in Clients, NEW r \in Pusher, pushReq' = [pushReq EXCEPT ![c] = r], now' = now,
             blogs' \in Nat, blogs <= blogs', Fits(r, blogs', now), lateAdds' \subseteq LateFit(blogs', now)
      PROVE  PushersFit'
  <2>1. pushReq' \in [Clients -> Pusher] /\ \A d \in Clients : pushReq'[d] = r \/ pushReq'[d] = pushReq[d]
    BY <1>2, <1>3
  <2>2. ASSUME NEW d \in Clients PROVE Fits(pushReq[d], blogs', now)
    <3>1. Fits(pushReq[d], blogs, now) /\ pushReq[d] \in Pusher
      BY <1>2 DEF FeedInv, PushersFit
    <3> QED BY <1>0, <1>3, <3>1 DEF Fits, Pusher
  <2>3. \A d \in Clients : Fits(pushReq'[d], blogs', now')
    BY <1>3, <2>1, <2>2, Zenon
  <2> QED BY <1>3, <2>1, <2>3, Zenon DEF PushersFit
\* SaveBlog's steps that push nothing.
<1>4. ASSUME NEW c \in Clients, SaveBlog(c) PROVE FeedInv'
  <2> DEFINE q == [NoPush EXCEPT !.at = "followers"]
             r == [q EXCEPT !.blog = blogs + 1]
  <2>1. r \in Pusher /\ r.at = "followers" /\ r.blog = blogs + 1 /\ r.score = 0
    <3>1. q \in Pusher /\ q.at = "followers" /\ q.score = 0
      BY <1>1 DEF Pusher
    <3> HIDE DEF q
    <3>2. blogs + 1 \in Nat
      BY <1>0
    <3> QED BY <3>1, <3>2 DEF Pusher
  <2>2. blogs' = blogs + 1 /\ pushReq' = [pushReq EXCEPT ![c] = r] /\ UNCHANGED <<feed, lateAdds, now, scroll>>
    BY <1>4 DEF SaveBlog, OnlySaves
  <2> HIDE DEF r
  <2>4. 1..blogs \subseteq 1..blogs' /\ blogs' \in Nat /\ blogs <= blogs'
    BY <1>0, <2>2
  <2>3. PushersFit'
    <3>1. lateAdds' \subseteq LateFit(blogs', now)
      BY <1>2, <2>2, <2>4 DEF LateFit
    <3>2. Fits(r, blogs', now)
      BY <1>0, <2>1, <2>2 DEF Fits
    <3> QED BY <1>3, <2>1, <2>2, <2>4, <3>1, <3>2
  <2>5. SetsFit' /\ ReaderFits'
    BY <2>2, <2>4 DEF FeedInv, SetsFit, ReaderFits
  <2>6. ReaderKnows'
    BY <2>2 DEF FeedInv, ReaderKnows
  <2> QED BY <2>3, <2>5, <2>6 DEF FeedInv
\* A step of SaveBlog that leaves the sets and the reader alone.
<1>5. ASSUME NEW c \in Clients, NEW r \in Pusher,
             pushReq' = [pushReq EXCEPT ![c] = r], UNCHANGED <<blogs, feed, lateAdds, now, scroll>>,
             Fits(r, blogs, now)
      PROVE  FeedInv'
  <2>3. blogs' = blogs /\ lateAdds' = lateAdds /\ now' = now
    BY <1>5
  <2>1. blogs <= blogs' /\ blogs' \in Nat /\ Fits(r, blogs', now) /\ lateAdds' \subseteq LateFit(blogs', now)
    <3>1. blogs <= blogs' /\ blogs' \in Nat
      BY <1>0, <2>3
    <3>2. Fits(r, blogs', now)
      BY <1>5, <2>3, Zenon
    <3>3. lateAdds' \subseteq LateFit(blogs', now)
      BY <1>2, <2>3, Zenon
    <3> QED BY <3>1, <3>2, <3>3
  <2>2. PushersFit'
    BY <1>3, <1>5, <2>1, <2>3
  <2> QED BY <1>5, <2>2 DEF FeedInv, SetsFit, ReaderFits, ReaderKnows
<1>6. ASSUME NEW c \in Clients, GetFollows(c) \/ GetFollowsError(c) PROVE FeedInv'
  <2> DEFINE r == [pushReq[c] EXCEPT !.at = "push", !.left = followRows]
  <2>1. /\ r \in Pusher /\ r.at = "push" /\ r.blog = pushReq[c].blog /\ r.score = pushReq[c].score
        /\ pushReq[c].at = "followers"
    <3>1. pushReq[c] \in Pusher /\ pushReq[c].at = "followers"
      BY <1>2, <1>6 DEF GetFollows, GetFollowsError
    <3>2. followRows \in [Users -> Nat]
      BY DEF FollowTypeOK
    <3> QED BY <3>1, <3>2 DEF Pusher
  <2>2. (pushReq' = [pushReq EXCEPT ![c] = r] \/ pushReq' = [pushReq EXCEPT ![c] = NoPush])
        /\ UNCHANGED <<blogs, feed, lateAdds, now, scroll>>
    BY <1>6 DEF GetFollows, GetFollowsError, OnlySaves
  <2> HIDE DEF r
  <2>3. Fits(r, blogs, now)
    BY <1>2, <2>1 DEF Fits
  <2> QED BY <1>1, <1>2, <1>5, <2>1, <2>2, <2>3
<1>15. ASSUME NEW c \in Clients, NEW u \in Users, Stamp(c, u) PROVE FeedInv'
  <2> DEFINE r == [pushReq[c] EXCEPT !.at = "zadd", !.user = u, !.score = now]
  <2>1. /\ r \in Pusher /\ r.blog = pushReq[c].blog /\ r.score = now /\ r.user = u /\ r.left[u] > 0
        /\ pushReq[c].at = "push"
    BY <1>0, <1>2, <1>15 DEF Pusher, Stamp
  <2>2. pushReq' = [pushReq EXCEPT ![c] = r] /\ UNCHANGED <<blogs, feed, lateAdds, now, scroll>>
    BY <1>15 DEF Stamp, OnlySaves
  <2> HIDE DEF r
  <2>3. Fits(r, blogs, now)
    BY <1>0, <1>2, <2>1 DEF Fits
  <2> QED BY <1>5, <2>1, <2>2, <2>3
\* The pushes.
<1>16. ASSUME NEW c \in Clients, pushReq[c].at = "zadd"
       PROVE  /\ PushOver(c) \in Pusher /\ Fits(PushOver(c), blogs, now)
              /\ pushReq[c].user \in Users /\ pushReq[c].blog \in 1..blogs /\ pushReq[c].score \in 1..now
  <2>1. pushReq[c] \in Pusher /\ pushReq[c].left \in [Users -> Nat]
    BY <1>2 DEF Pusher
  <2>2. /\ pushReq[c].user \in Users /\ pushReq[c].blog \in 1..blogs /\ pushReq[c].score \in 1..now
        /\ pushReq[c].left[pushReq[c].user] > 0
    BY <1>0, <1>2, <1>16, <2>1 DEF Fits, Pusher
  <2> DEFINE u    == pushReq[c].user
             left == [pushReq[c].left EXCEPT ![pushReq[c].user] = @ - 1]
             r    == [NoPush EXCEPT !.at = "push", !.blog = pushReq[c].blog, !.left = left]
  <2>3. left \in [Users -> Nat]
    <3>1. pushReq[c].left[u] - 1 \in Nat
      BY <2>1, <2>2
    <3> QED BY <2>1, <3>1
  <2>4. PushOver(c) = IF PushesLeft(left) THEN r ELSE NoPush
    BY DEF PushOver
  <2> HIDE DEF left
  <2>5. r \in Pusher /\ r.at = "push" /\ r.blog = pushReq[c].blog /\ r.score = 0
    BY <1>1, <2>1, <2>3 DEF Pusher
  <2> HIDE DEF r
  <2>6. Fits(r, blogs, now)
    BY <1>0, <2>2, <2>5 DEF Fits
  <2> QED BY <1>1, <1>2, <2>2, <2>4, <2>5, <2>6
<1>17. ASSUME NEW c \in Clients, ZAddFeedError(c) PROVE FeedInv'
  <2> DEFINE l == [user  |-> pushReq[c].user, blog |-> pushReq[c].blog,
                   score |-> pushReq[c].score, fault |-> faults]
  <2>1. /\ pushReq[c].at = "zadd" /\ lateAdds' = lateAdds \cup {l} /\ UNCHANGED <<blogs, feed, now, scroll>>
        /\ pushReq' = pushReq \/ pushReq' = [pushReq EXCEPT ![c] = PushOver(c)]
    BY <1>17 DEF ZAddFeedError
  <2>2. lateAdds' \subseteq LateFit(blogs, now)
    BY <1>2, <1>16, <2>1 DEF LateFit
  <2>3. PushersFit'
    <3>1. CASE pushReq' = pushReq
      BY <1>2, <2>1, <2>2, <3>1 DEF FeedInv, PushersFit
    <3>2. CASE pushReq' = [pushReq EXCEPT ![c] = PushOver(c)]
      <4>1. blogs' \in Nat /\ blogs <= blogs' /\ Fits(PushOver(c), blogs', now) /\ PushOver(c) \in Pusher
            /\ lateAdds' \subseteq LateFit(blogs', now) /\ now' = now
        BY <1>0, <1>16, <2>1, <2>2
      <4> QED BY <1>3, <3>2, <4>1
    <3> QED BY <2>1, <3>1, <3>2
  <2> QED BY <2>1, <2>3 DEF FeedInv, SetsFit, ReaderFits, ReaderKnows
\* A ZADD is executed, whenever its second was read.
<1>18. ASSUME NEW u \in Users, NEW new \in 1..blogs, NEW time \in 1..now, Lands(u, new, time),
              PushersFit', UNCHANGED <<blogs, now>>
       PROVE  FeedInv'
  <2> DEFINE f   == feed[u]
             g   == [b \in DOMAIN f \cup {new} |-> IF b = new THEN time ELSE f[b]]
             C   == scroll.crowded \/ Crowds(u, new, time)
  <2>2. feed' = [feed EXCEPT ![u] = g] /\ scroll' = [scroll EXCEPT !.crowded = C]
    BY <1>18 DEF Lands
  <2>3. DOMAIN f \subseteq 1..blogs /\ (\A b \in DOMAIN f : f[b] \in 1..now) /\ feed = [v \in Users |-> feed[v]]
    BY DEF FeedInv, SetsFit
  <2>4. DOMAIN g \subseteq 1..blogs /\ \A b \in DOMAIN g : g[b] \in 1..now
    BY <1>0, <1>18, <2>3
  <2>11. DOMAIN g = DOMAIN f \cup {new} /\ g[new] = time /\ \A b \in DOMAIN f \ {new} : g[b] = f[b]
    OBVIOUS
  <2> HIDE DEF g, C
  <2>5. feed' = [v \in Users |-> feed'[v]] /\ feed'[u] = g /\ \A v \in Users \ {u} : feed'[v] = feed[v]
    BY <2>2, <2>3
  <2>6. SetsFit'
    BY <1>18, <2>4, <2>5 DEF FeedInv, SetsFit
  <2>7. /\ DOMAIN scroll' = Fields /\ scroll'.crowded = C
        /\ scroll'.user = scroll.user /\ scroll'.max = scroll.max /\ scroll'.offset = scroll.offset
        /\ scroll'.shown = scroll.shown /\ scroll'.again = scroll.again
    BY <2>2 DEF FeedInv, ReaderFits, Fields
  <2>8. ReaderFits'
    BY <1>18, <2>7 DEF FeedInv, ReaderFits
  <2>9. ReaderKnows'
    <3> SUFFICES ASSUME ~scroll'.crowded PROVE ReaderKnows'
      BY DEF ReaderKnows
    <3>1. ~C
      BY <2>7, Zenon
    <3>2. ~scroll.crowded /\ ~Crowds(u, new, time)
      BY <3>1 DEF C
    <3>3. ~scroll.again /\ (scroll.user \in Users => ShownBefore(feed[scroll.user], scroll.max, scroll.offset, scroll.shown))
      BY <3>2 DEF FeedInv, ReaderKnows
    <3>4. ~scroll'.again
      BY <2>7, <3>3, Zenon
    <3>5. ASSUME scroll.user \in Users
          PROVE  ShownBefore(feed'[scroll.user], scroll.max, scroll.offset, scroll.shown)
      <4>1. CASE scroll.user # u
        BY <2>5, <3>3, <3>5, <4>1
      <4>2. CASE scroll.user = u
        <5>1. /\ scroll.max \in Int /\ scroll.offset \in Nat
              /\ time # scroll.max /\ (time < scroll.max => new \notin scroll.shown)
          BY <1>0, <3>2, <3>5, <4>2 DEF FeedInv, ReaderFits, Crowds
        <5>2. ShownBefore(f, scroll.max, scroll.offset, scroll.shown) /\ \A b \in DOMAIN f : f[b] \in Int
          BY <2>3, <3>3, <4>2
        <5>3. ShownBefore(g, scroll.max, scroll.offset, scroll.shown)
          <6> HIDE DEF f
          <6>1. DOMAIN f \subseteq 1..blogs /\ time \in Int /\ blogs \in Nat
            BY <1>0, <2>3 DEF f
          <6>2. \A b \in DOMAIN f : f[b] \in Int
            BY <5>2
          <6>3. ShownBefore(f, scroll.max, scroll.offset, scroll.shown)
            BY <5>2
          <6> QED BY <1>18, <2>11, <5>1, <6>1, <6>2, <6>3, OtherSecond
        <5> QED BY <2>5, <4>2, <5>3
      <4> QED BY <4>1, <4>2
    <3> QED BY <2>7, <3>4, <3>5 DEF ReaderKnows
  <2> QED BY <1>18, <2>6, <2>8, <2>9 DEF FeedInv
<1>7. ASSUME NEW c \in Clients, ZAddFeed(c) PROVE FeedInv'
  <2>1. /\ pushReq[c].at = "zadd" /\ Lands(pushReq[c].user, pushReq[c].blog, pushReq[c].score)
        /\ pushReq' = [pushReq EXCEPT ![c] = PushOver(c)] /\ UNCHANGED <<blogs, lateAdds, now>>
    BY <1>7 DEF ZAddFeed
  <2>2. blogs' \in Nat /\ blogs <= blogs' /\ Fits(PushOver(c), blogs', now) /\ PushOver(c) \in Pusher
        /\ lateAdds' \subseteq LateFit(blogs', now)
    BY <1>0, <1>2, <1>16, <2>1
  <2>3. PushersFit'
    BY <1>3, <2>1, <2>2
  <2> QED BY <1>16, <1>18, <2>1, <2>3
<1>19. CASE LandFeed
  <2>1. PICK l \in lateAdds : Lands(l.user, l.blog, l.score) /\ lateAdds' = lateAdds \ {l}
                              /\ UNCHANGED <<blogs, pushReq, now>>
    BY <1>19 DEF LandFeed
  <2>2. l.user \in Users /\ l.blog \in 1..blogs /\ l.score \in 1..now
    BY <1>2 DEF LateFit
  <2>3. PushersFit'
    BY <1>2, <2>1 DEF FeedInv, PushersFit
  <2> QED BY <1>18, <2>1, <2>2, <2>3
\* The reader's pages, from a position that fits.
<1>8. ASSUME NEW from, Page(from), DOMAIN from = Fields, from.user \in Users, from.max \in Int,
             from.offset \in Nat, from.shown \subseteq 1..blogs,
             ~from.crowded => ~from.again /\ ShownBefore(feed[from.user], from.max, from.offset, from.shown)
      PROVE  FeedInv'
  <2> DEFINE f    == feed[from.user]
             page == IF PagesWork THEN PageOf(f, from.max, from.offset) ELSE {}
             A    == from.again \/ page \cap from.shown # {}
             C    == from.crowded \/ Busy(f)
             m    == f[Last(f, page)]
             os   == Equals(f, page)
             end  == [NoScroll EXCEPT !.again = A, !.crowded = C]
             next == [[[[[from EXCEPT !.again = A] EXCEPT !.crowded = C] EXCEPT !.max = m]
                         EXCEPT !.offset = os] EXCEPT !.shown = @ \cup page]
  <2>1. /\ UNCHANGED <<blogs, feed, pushReq, lateAdds, now>>
        /\ scroll' = IF Cardinality(page) < PageSize THEN end ELSE next
    BY <1>8 DEF Page
  <2>2. SetsFit' /\ PushersFit'
    BY <2>1 DEF FeedInv, SetsFit, PushersFit
  <2>3. DOMAIN f \subseteq 1..blogs /\ \A b \in DOMAIN f : f[b] \in 1..now /\ f[b] \in Int /\ f[b] \in Nat
    BY <1>0, <1>8 DEF FeedInv, SetsFit
  <2>4. page \subseteq DOMAIN f /\ IsFiniteSet(page) /\ Cardinality(page) \in Nat /\ Cardinality(page) <= PageSize
    <3>1. CASE PagesWork
      BY <1>0, <1>8, <2>3, <3>1, PageFacts, FS_CardinalityType
    <3>2. CASE ~PagesWork
      BY <1>0, <3>2, FS_EmptySet
    <3> QED BY <3>1, <3>2
  <2>5. ~C => ~from.again /\ ShownBefore(f, from.max, from.offset, from.shown) /\ ~Busy(f)
    BY <1>8
  <2>6. ~C => ~A
    <3> SUFFICES ASSUME ~C PROVE page \cap from.shown = {}
      BY <2>5
    <3>1. ShownBefore(f, from.max, from.offset, from.shown)
      BY <2>5
    <3>2. PageOf(f, from.max, from.offset) \cap from.shown = {}
      <4> HIDE DEF f, C
      <4> QED BY <1>0, <1>8, <2>3, <3>1, PageIsNew
    <3> QED BY <3>2
  <2>7. CASE Cardinality(page) < PageSize
    <3> HIDE DEF A, C
    <3>1. /\ DOMAIN end = Fields /\ end.user = "nobody" /\ end.shown = {} /\ end.max = 0 /\ end.offset = 0
          /\ end.again = A /\ end.crowded = C
      BY DEF NoScroll, Fields
    <3> HIDE DEF end
    <3>2. scroll' = end
      BY <2>1, <2>7
    <3>3. ReaderFits'
      BY <1>0, <3>1, <3>2, UsersAssumption DEF ReaderFits
    <3>4. ~end.crowded => ~end.again
      BY <2>6, <3>1, Zenon
    <3>5. ReaderKnows'
      BY <3>1, <3>2, <3>4, UsersAssumption DEF ReaderKnows
    <3> QED BY <2>2, <3>3, <3>5 DEF FeedInv
  <2>8. CASE ~(Cardinality(page) < PageSize)
    <3>1. page # {} /\ page \subseteq 1..blogs
      BY <1>0, <2>3, <2>4, <2>8, FS_EmptySet
    <3>2. Last(f, page) \in page
      <4> HIDE DEF f, page
      <4> QED BY <1>0, <2>3, <2>4, <3>1, LastFacts
    <3>3. m \in 1..now /\ os \in 0..PageSize
      <4>1. {b \in page : f[b] = f[Last(f, page)]} \subseteq page
        OBVIOUS
      <4>2. os \in Nat /\ os <= Cardinality(page)
        <5> HIDE DEF f, page
        <5> QED BY <2>4, <4>1, FS_Subset, FS_CardinalityType DEF Equals
      <4> QED BY <1>0, <2>3, <2>4, <3>2, <4>2
    <3>4. ~C => ShownBefore(f, m, os, from.shown \cup page)
      <4> SUFFICES ASSUME ~C PROVE ShownBefore(f, m, os, from.shown \cup page)
        OBVIOUS
      <4>1. ShownBefore(f, from.max, from.offset, from.shown) /\ ~Busy(f)
        BY <2>5
      <4>2. page = PageOf(f, from.max, from.offset)
        BY <3>1
      <4>3. \A b \in DOMAIN f : f[b] \in 1..MaxTime
        BY <1>0, <2>3
      <4> HIDE DEF f, page, C
      <4> QED BY <1>0, <1>8, <2>3, <2>8, <4>1, <4>2, <4>3, NextPosition
    <3> HIDE DEF A, C, m, os, f, page
    <3>5. /\ DOMAIN next = Fields /\ next.user = from.user /\ next.shown = from.shown \cup page
          /\ next.max = m /\ next.offset = os /\ next.again = A /\ next.crowded = C
      BY <1>8 DEF Fields
    <3> HIDE DEF next
    <3>6. scroll' = next
      BY <2>1, <2>8
    <3>7. ReaderFits'
      <4>1. next.max \in 0..MaxTime + 1 /\ next.max <= now /\ next.offset \in 0..PageSize
        BY <1>0, <3>3, <3>5
      <4>2. next.user \in Users /\ next.shown \subseteq 1..blogs
        BY <1>8, <3>1, <3>5
      <4>3. blogs' = blogs /\ now' = now
        BY <2>1
      <4> QED BY <3>5, <3>6, <4>1, <4>2, <4>3 DEF ReaderFits
    <3>8. ~next.crowded => ~next.again /\ ~C
      BY <2>6, <3>5, Zenon
    <3>9. ReaderKnows'
      <4>1. feed'[next.user] = f
        BY <2>1, <3>5 DEF f
      <4> QED BY <3>4, <3>5, <3>6, <3>8, <4>1 DEF ReaderKnows
    <3> QED BY <2>2, <3>7, <3>9 DEF FeedInv
  <2> QED BY <2>7, <2>8
<1>9. ASSUME NEW u \in Users, FirstPage(u) PROVE FeedInv'
  <2>1. PICK offset \in {0, 1} :
          Page([NoScroll EXCEPT !.user = u, !.max = MaxTime + 1, !.offset = offset])
    BY <1>9 DEF FirstPage
  <2> DEFINE from == [NoScroll EXCEPT !.user = u, !.max = MaxTime + 1, !.offset = offset]
  <2>2. /\ DOMAIN from = Fields /\ from.user = u /\ from.max = MaxTime + 1 /\ from.offset = offset
        /\ from.shown = {} /\ from.again = FALSE
    BY DEF NoScroll, Fields
  <2>3. Page(from)
    BY <2>1
  <2> HIDE DEF from
  <2>4. ~from.again /\ ShownBefore(feed[from.user], from.max, from.offset, from.shown)
    BY <2>2 DEF ShownBefore
  <2>5. from.user \in Users /\ from.max \in Int /\ from.offset \in Nat /\ from.shown \subseteq 1..blogs
    BY <1>0, <2>2
  <2>6. DOMAIN from = Fields
    BY <2>2
  <2> QED BY <1>8, <2>3, <2>4, <2>5, <2>6
<1>10. CASE NextPage
  <2>1. scroll.user \in Users /\ Page(scroll)
    BY <1>10 DEF NextPage
  <2>2. \E from : from = scroll
    OBVIOUS
  <2>3. PICK from : from = scroll
    BY <2>2
  <2>4. scroll.max \in Int /\ scroll.offset \in Nat /\ DOMAIN scroll = Fields /\ scroll.shown \subseteq 1..blogs
    BY <1>0 DEF FeedInv, ReaderFits
  <2>5. ~scroll.crowded => ~scroll.again /\ ShownBefore(feed[scroll.user], scroll.max, scroll.offset, scroll.shown)
    BY <2>1 DEF FeedInv, ReaderKnows
  <2> QED BY <1>8, <2>1, <2>3, <2>4, <2>5
<1>11. CASE Tick /\ UNCHANGED feedVars
  <2>1. now' = now + 1 /\ now' \in StartTime..MaxTime /\ 1..now \subseteq 1..now' /\ now <= now'
    BY <1>0, <1>11 DEF Tick
  <2>2. UNCHANGED <<blogs, feed, pushReq, lateAdds, scroll>>
    BY <1>11 DEF feedVars
  <2>3. SetsFit'
    BY <2>1, <2>2 DEF FeedInv, SetsFit
  <2>4. ReaderFits'
    BY <1>0, <2>1, <2>2 DEF FeedInv, ReaderFits
  <2>5. PushersFit'
    <3>1. lateAdds' \subseteq LateFit(blogs', now')
      BY <1>2, <2>1, <2>2 DEF LateFit
    <3>2. \A c \in Clients : Fits(pushReq[c], blogs, now')
      BY <1>0, <1>2, <2>1 DEF Fits, Pusher
    <3> QED BY <1>2, <2>2, <3>1, <3>2 DEF PushersFit
  <2> QED BY <2>2, <2>3, <2>4, <2>5 DEF FeedInv, ReaderKnows
<1>12. CASE FeedCrash
  <2>1. PushersFit'
    BY <1>0, <1>1, <1>2, <1>12 DEF FeedCrash, PushersFit
  <2> QED BY <1>12, <2>1 DEF FeedCrash, FeedInv, SetsFit, ReaderFits, ReaderKnows
<1>13. CASE UNCHANGED <<feedVars, now>>
  BY <1>13 DEF feedVars, FeedInv, SetsFit, PushersFit, ReaderFits, ReaderKnows
<1>14. FeedNext => FeedInv'
  BY <1>4, <1>6, <1>7, <1>9, <1>10, <1>11, <1>15, <1>17, <1>19 DEF FeedNext
<1> QED BY <1>12, <1>13, <1>14 DEF Next, Crash, socialVars

LEMMA NextCallsType == CallsTypeOK /\ [Next]_socialVars => CallsTypeOK'
<1> SUFFICES ASSUME CallsTypeOK, [Next]_socialVars PROVE CallsTypeOK'
  OBVIOUS
<1>1. FeedNext => Arrive \/ NoFault \/ Fault
  <2>1. ASSUME NEW c PROVE /\ SaveBlog(c) => Arrive
                           /\ GetFollows(c) => NoFault
                           /\ GetFollowsError(c) => Fault
    BY Zenon DEF SaveBlog, GetFollows, GetFollowsError
  <2>2. ASSUME NEW c PROVE (ZAddFeed(c) => NoFault) /\ (ZAddFeedError(c) => Fault)
    BY Zenon DEF ZAddFeed, ZAddFeedError
  <2>7. ASSUME NEW c, NEW u PROVE Stamp(c, u) => NoFault
    BY Zenon DEF Stamp
  <2>8. LandFeed => NoFault
    BY Zenon DEF LandFeed
  <2>3. ASSUME NEW from, Page(from) PROVE Arrive
    BY <2>3, Zenon DEF Page
  <2>4. ASSUME NEW u, FirstPage(u) PROVE Arrive
    BY <2>3, <2>4 DEF FirstPage
  <2>5. NextPage => Arrive
    BY Zenon DEF NextPage, Page
  <2>6. Tick => NoFault
    BY DEF Tick
  <2> QED BY <2>1, <2>2, <2>4, <2>5, <2>6, <2>7, <2>8 DEF FeedNext
<1>2. LikeNext => Arrive \/ NoFault \/ Fault
  BY DEF LikeNext, LikeBlog, ZScore, CountLike, CountLikeError, ChangeMember, LikeError
<1>3. FollowNext => Arrive \/ NoFault \/ Fault
  BY DEF FollowNext, Follow, FollowRow, FollowSet, FollowError, IsFollow, SIsMember, SIsMemberError,
     IsFollowing, Backfill, IsFollowError
<1>4. Arrive \/ NoFault \/ Fault \/ Restart
  BY <1>1, <1>2, <1>3 DEF Next, Crash, socialVars, callVars, NoFault
<1> QED BY <1>4, CallsAssumption DEF Arrive, NoFault, Fault, Restart, callVars, CallsTypeOK

LEMMA SocialInv == Spec => [](LikeInv /\ FollowInv /\ FeedInv /\ CallsTypeOK)
<1>1. FollowInv => FollowTypeOK
  BY DEF FollowInv
<1>2. Init => CallsTypeOK
  BY CallsAssumption DEF Init, CallsInit, CallsTypeOK
<1> QED BY <1>1, <1>2, InitLikeInv, NextLikeInv, InitFollowInv, NextFollowInv, InitFeedInv, NextFeedInv,
           NextCallsType, PTL DEF Spec

(***************************************************************************)
(* A scrolling reader is shown nothing twice.  The position alone says too *)
(* little: ShownBefore relates it to what has been shown, and survives a   *)
(* page because nothing of the last blog's second is above the page, and a *)
(* push, old or new, because its second is not the reader's and what the   *)
(* reader has seen does not move below it.                                 *)
(***************************************************************************)
THEOREM ScrollsOnce == Spec => []ScrollShowsOnce
<1>1. FeedInv => ScrollShowsOnce
  BY DEF FeedInv, ReaderKnows, ScrollShowsOnce
<1> QED BY <1>1, SocialInv, PTL

(***************************************************************************)
(* The types of follows, feed and likes: pages included, whose last blog   *)
(* exists and whose offset is at most a page.                              *)
(***************************************************************************)
THEOREM TypeCorrect == Spec => []TypeOK
<1>2. FeedInv => FeedTypeOK /\ ClockTypeOK
  <2> SUFFICES ASSUME FeedInv PROVE FeedTypeOK /\ ClockTypeOK
    OBVIOUS
  <2>0. StartTime \in Nat /\ MaxTime \in Nat /\ now \in StartTime..MaxTime /\ blogs \in Nat
    BY ClockAssumption DEF FeedInv, SetsFit
  <2>1. \A u \in Users : DOMAIN feed[u] \subseteq 1..blogs /\ \A b \in DOMAIN feed[u] : feed[u][b] \in 1..MaxTime
    BY <2>0 DEF FeedInv, SetsFit
  <2>2. pushReq \in [Clients -> [at: {"idle", "followers", "push", "zadd"}, blog: 0..blogs,
                                left: [Users -> Nat], user: Users \cup {"nobody"}, score: 0..MaxTime]]
    <3> DEFINE L == [Users -> Nat]   B == 0..blogs   U == Users \cup {"nobody"}   S == 0..MaxTime
    <3>1. pushReq \in [Clients -> [at: {"idle", "followers", "push", "zadd"}, blog: Nat, left: L, user: U, score: Nat]]
      BY DEF FeedInv, PushersFit, Pusher
    <3>2. \A c \in Clients : /\ pushReq[c].blog \in Nat => pushReq[c].blog \in B
                             /\ pushReq[c].score \in Nat => pushReq[c].score \in S
      <4> SUFFICES ASSUME NEW c \in Clients
                   PROVE  /\ pushReq[c].blog \in Nat => pushReq[c].blog \in B
                          /\ pushReq[c].score \in Nat => pushReq[c].score \in S
        OBVIOUS
      <4>1. pushReq[c].blog <= blogs /\ pushReq[c].score <= now
        BY DEF FeedInv, PushersFit, Fits
      <4> QED BY <2>0, <4>1
    <3> HIDE DEF L, B, U, S
    <3>3. pushReq \in [Clients -> [at: {"idle", "followers", "push", "zadd"}, blog: B, left: L, user: U, score: S]]
      BY <3>1, <3>2
    <3> QED BY <3>3 DEF L, B, U, S
  <2>3. lateAdds \subseteq [user: Users, blog: 1..blogs, score: 1..MaxTime, fault: Nat]
    <3>1. 1..now \subseteq 1..MaxTime
      BY <2>0
    <3> QED BY <3>1 DEF FeedInv, PushersFit, LateFit
  <2> QED BY <2>0, <2>1, <2>2, <2>3 DEF FeedInv, ReaderFits, FeedTypeOK, ClockTypeOK
<1>3. LikeInv /\ FollowInv => LikeTypeOK /\ FollowTypeOK
  BY DEF LikeInv, FollowInv
<1> QED BY <1>2, <1>3, SocialInv, PTL DEF TypeOK
=============================================================================
