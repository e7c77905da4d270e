------------------------------ MODULE Follows -------------------------------
(***************************************************************************)
(* Who follows one author: the rows of tb_follow, which no constraint      *)
(* keeps from repeating, and the Redis sets follow:<user>, written after   *)
(* them and asked before them (FollowService.go).                          *)
(***************************************************************************)
EXTENDS Calls

CONSTANT Users  \* users who may follow the author

ASSUME UsersAssumption == "nobody" \notin Users

VARIABLES
  followRows,  \* per user: rows (user, author)
  followSet,   \* users whose set holds the author
  followReq,   \* per client: the call it makes next, for whom, whether it
               \* follows, and whether it has been alone with that user
  drifted      \* users whose last change failed or was not alone

followVars == <<followRows, followSet, followReq, drifted>>

NoFollow == [at |-> "idle", user |-> "nobody", follow |-> FALSE, alone |-> TRUE]

\* Some users follow the author already.
FollowInit ==
  /\ followSet \in SUBSET Users
  /\ followRows = [u \in Users |-> IF u \in followSet THEN 1 ELSE 0]
  /\ followReq  = [c \in Clients |-> NoFollow]
  /\ drifted    = {}

Writing(c, u) == followReq[c].user = u /\ followReq[c].at # "ask"

\* A request that writes for u starts; nobody who writes for u is alone then.
StartWriting(c, u, at, follow) ==
  followReq' = [d \in Clients |->
    IF d = c
      THEN [at |-> at, user |-> u, follow |-> follow,
            alone |-> \A e \in Clients \ {c} : ~Writing(e, u)]
      ELSE [followReq[d] EXCEPT !.alone = @ /\ ~Writing(d, u)]]

EndFollow(c) == followReq' = [followReq EXCEPT ![c] = NoFollow]

Then(c, at) == followReq' = [followReq EXCEPT ![c].at = at]

-----------------------------------------------------------------------------
\* PUT /follow/:id/:isFollow, where isFollow says what was the case before.
Follow(c, u, isFollow) ==
  /\ Arrive
  /\ followReq[c] = NoFollow
  /\ StartWriting(c, u, "row", ~isFollow)
  /\ UNCHANGED <<followRows, followSet, drifted>>

\* Mutant: unfollowing deletes one row.
RowsOneLess(r) == [followRows EXCEPT ![r.user] = IF r.follow THEN @ + 1 ELSE IF @ = 0 THEN 0 ELSE @ - 1]

RowsAfter(r) == [followRows EXCEPT ![r.user] = IF r.follow THEN @ + 1 ELSE 0]

SetAfter(r) == IF r.follow THEN followSet \cup {r.user} ELSE followSet \ {r.user}

FollowRow(c) ==
  /\ followReq[c].at = "row"
  /\ followRows' = RowsAfter(followReq[c])
  /\ Then(c, "set")
  /\ NoFault /\ UNCHANGED <<followSet, drifted>>

FollowSet(c) ==
  /\ followReq[c].at = "set"
  /\ followSet' = SetAfter(followReq[c])
  /\ drifted' = IF followReq[c].alone THEN drifted \ {followReq[c].user}
                                      ELSE drifted \cup {followReq[c].user}
  /\ EndFollow(c)
  /\ NoFault /\ UNCHANGED followRows

\* The row's error is returned, the set's only logged; either may have been
\* executed.
FollowError(c) ==
  /\ \/ /\ followReq[c].at = "row"
        /\ followRows' \in {followRows, RowsAfter(followReq[c])} /\ UNCHANGED followSet
     \/ /\ followReq[c].at = "set"
        /\ followSet' \in {followSet, SetAfter(followReq[c])} /\ UNCHANGED followRows
  /\ drifted' = drifted \cup {followReq[c].user}
  /\ EndFollow(c)
  /\ Fault

-----------------------------------------------------------------------------
\* GET /follow/or/not/:id.  A set that is not there answers no, like any other.
IsFollow(c, u) ==
  /\ Arrive
  /\ followReq[c] = NoFollow
  /\ followReq' = [followReq EXCEPT ![c].at = "ask", ![c].user = u]
  /\ UNCHANGED <<followRows, followSet, drifted>>

SIsMember(c) ==
  /\ followReq[c].at = "ask"
  /\ EndFollow(c)
  /\ NoFault /\ UNCHANGED <<followRows, followSet, drifted>>

\* Only an error leads to the table, and to the set being filled from it.
SIsMemberError(c) ==
  /\ followReq[c].at = "ask"
  /\ StartWriting(c, followReq[c].user, "count", TRUE)
  /\ Fault /\ UNCHANGED <<followRows, followSet, drifted>>

IsFollowing(c) ==
  /\ followReq[c].at = "count"
  /\ IF followRows[followReq[c].user] > 0
       THEN Then(c, "backfill") /\ UNCHANGED drifted
       ELSE /\ EndFollow(c)
            /\ drifted' = IF followReq[c].alone THEN drifted ELSE drifted \cup {followReq[c].user}
  /\ NoFault /\ UNCHANGED <<followRows, followSet>>

Backfill(c) ==
  /\ followReq[c].at = "backfill"
  /\ followSet' = SetAfter(followReq[c])
  /\ drifted' = IF followReq[c].alone THEN drifted ELSE drifted \cup {followReq[c].user}
  /\ EndFollow(c)
  /\ NoFault /\ UNCHANGED followRows

IsFollowError(c) ==
  /\ followReq[c].at \in {"count", "backfill"}
  /\ followSet' \in {followSet, IF followReq[c].at = "backfill" THEN SetAfter(followReq[c]) ELSE followSet}
  /\ drifted' = IF followReq[c].alone THEN drifted ELSE drifted \cup {followReq[c].user}
  /\ EndFollow(c)
  /\ Fault /\ UNCHANGED followRows

FollowCrash ==
  /\ drifted' = drifted \cup {u \in Users : \E c \in Clients : Writing(c, u)}
  /\ followReq' = [c \in Clients |-> NoFollow]
  /\ UNCHANGED <<followRows, followSet>>

FollowNext ==
  \E c \in Clients :
    \/ \E u \in Users : IsFollow(c, u) \/ \E isFollow \in BOOLEAN : Follow(c, u, isFollow)
    \/ FollowRow(c) \/ FollowSet(c) \/ FollowError(c)
    \/ SIsMember(c) \/ SIsMemberError(c) \/ IsFollowing(c) \/ Backfill(c) \/ IsFollowError(c)

-----------------------------------------------------------------------------
FollowTypeOK ==
  /\ followRows \in [Users -> Nat]
  /\ followSet \subseteq Users
  /\ followReq \in [Clients -> [at: {"idle", "row", "set", "ask", "count", "backfill"},
                                user: Users \cup {"nobody"}, follow: BOOLEAN, alone: BOOLEAN]]
  /\ drifted \subseteq Users

(***************************************************************************)
(* What IsFollow and FollowCommons read from Redis is what the feed reads  *)
(* from MySQL, for every user whose last change failed nowhere and ran     *)
(* alone: repeated rows, changes of other users, and whatever went wrong   *)
(* before that last change do no harm (FollowService.go:19-48).            *)
(***************************************************************************)
FollowsAgree ==
  \A u \in Users \ drifted :
    (\A c \in Clients : ~Writing(c, u)) => (u \in followSet <=> followRows[u] > 0)

=============================================================================
