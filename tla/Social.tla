------------------------------- MODULE Social -------------------------------
(***************************************************************************)
(* Follows, the feed that is pushed to followers, and likes, in one        *)
(* process.                                                                *)
(***************************************************************************)
EXTENDS Feed, Likes

socialVars == <<followVars, feedVars, likeVars, now, callVars>>

Init == FollowInit /\ FeedInit /\ LikeInit /\ ClockInit /\ CallsInit

Crash == Restart /\ FollowCrash /\ FeedCrash /\ LikeCrash

\* A client is a goroutine that serves one request at a time.
OneRequest ==
  \A c \in Clients :
    \/ followReq[c] = NoFollow /\ pushReq[c] = NoPush
    \/ followReq[c] = NoFollow /\ likeReq[c] = NoLike
    \/ pushReq[c] = NoPush /\ likeReq[c] = NoLike

Next ==
  /\ \/ FollowNext /\ UNCHANGED <<feedVars, likeVars, now>>
     \/ FeedNext   /\ UNCHANGED <<followVars, likeVars>>
     \/ LikeNext   /\ UNCHANGED <<followVars, feedVars, now>>
     \/ Crash
  /\ OneRequest'

Spec == Init /\ [][Next]_socialVars

TypeOK == FollowTypeOK /\ FeedTypeOK /\ LikeTypeOK /\ ClockTypeOK /\ CallsTypeOK

=============================================================================
