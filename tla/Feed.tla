-------------------------------- MODULE Feed --------------------------------
(***************************************************************************)
(* The author's blogs in the sorted sets feed:<user> (BlogService.go):     *)
(* SaveBlog pushes a blog to the followers tb_follow has at that time,     *)
(* scored by the second in which it reads the clock for that push, and     *)
(* QueryBlogOfFollow pages through one set from the newest blog on, by the *)
(* last score it returned and how many blogs of that score it returned.    *)
(***************************************************************************)
EXTENDS Follows, Clock, Sequences, FiniteSets

CONSTANTS
  PageSize,  \* DEFAULTPAGESIZE
  OldBlogs,  \* blogs that followers have been pushed before
  PagesWork  \* the page's ids and its query work (with the pinned go-redis
             \* and gorm they do not, see Page)

ASSUME FeedAssumption ==
  PageSize \in Nat \ {0} /\ OldBlogs \in Nat /\ PagesWork \in BOOLEAN /\ StartTime >= 1

VARIABLES
  blogs,    \* rows of tb_blog: ids 1..blogs
  feed,     \* per user: the score of each blog in the set
  pushReq,  \* per client: SaveBlog's next call, its blog, the pushes it has
            \* left and the user and second of the one it has begun
  lateAdds, \* ZADDs without a reply that Redis may yet execute
  scroll    \* the reader: position, blogs shown, what became of the pages

feedVars == <<blogs, feed, pushReq, lateAdds, scroll>>

NoPush   == [at |-> "idle", blog |-> 0, left |-> [u \in Users |-> 0], user |-> "nobody", score |-> 0]
NoScroll == [user |-> "nobody", max |-> 0, offset |-> 0, shown |-> {},
             crowded |-> FALSE, again |-> FALSE]

\* Everybody has been pushed the old blogs, one after the other, up to now.
FeedInit ==
  /\ blogs = OldBlogs
  /\ \E old \in [1..OldBlogs -> 1..StartTime] :
       /\ \A b \in 2..OldBlogs : old[b - 1] <= old[b]
       /\ feed = [u \in Users |-> old]
  /\ pushReq  = [c \in Clients |-> NoPush]
  /\ lateAdds = {}
  /\ scroll   = NoScroll

-----------------------------------------------------------------------------
(***************************************************************************)
(* SaveBlog.                                                               *)
(***************************************************************************)
OnlySaves == UNCHANGED <<feed, lateAdds, now, scroll>>

SaveBlog(c) ==
  /\ Arrive
  /\ pushReq[c] = NoPush
  /\ blogs' = blogs + 1
  /\ pushReq' = [pushReq EXCEPT ![c] = [NoPush EXCEPT !.at = "followers", !.blog = blogs + 1]]
  /\ OnlySaves

PushesLeft(left) == \E u \in Users : left[u] > 0

\* One push for every row, repeated ones included.
GetFollows(c) ==
  /\ pushReq[c].at = "followers"
  /\ pushReq' = [pushReq EXCEPT ![c] =
                   IF PushesLeft(followRows) THEN [@ EXCEPT !.at = "push", !.left = followRows]
                                             ELSE NoPush]
  /\ OnlySaves /\ NoFault /\ UNCHANGED blogs

GetFollowsError(c) ==
  /\ pushReq[c].at = "followers"
  /\ pushReq' = [pushReq EXCEPT ![c] = NoPush]
  /\ OnlySaves /\ Fault /\ UNCHANGED blogs

\* The next push begins: its score is the second of now.
Stamp(c, u) ==
  /\ pushReq[c].at = "push" /\ pushReq[c].left[u] > 0
  /\ pushReq' = [pushReq EXCEPT ![c] = [@ EXCEPT !.at = "zadd", !.user = u, !.score = now]]
  /\ OnlySaves /\ NoFault /\ UNCHANGED blogs

PushOver(c) ==
  LET left == [pushReq[c].left EXCEPT ![pushReq[c].user] = @ - 1] IN
    IF PushesLeft(left)
      THEN [NoPush EXCEPT !.at = "push", !.blog = pushReq[c].blog, !.left = left]
      ELSE NoPush

\* The reader has come to that second, or is past it and has seen the blog: the
\* push moves what is behind the reader.
Crowds(u, blog, score) ==
  /\ scroll.user = u
  /\ scroll.max = score \/ (score < scroll.max /\ blog \in scroll.shown)

\* ZADD: a member that is there gets the new score, be it a lower one.
Lands(u, blog, score) ==
  /\ feed' = [feed EXCEPT ![u] = [b \in DOMAIN @ \cup {blog} |-> IF b = blog THEN score ELSE @[b]]]
  /\ scroll' = [scroll EXCEPT !.crowded = @ \/ Crowds(u, blog, score)]

ZAddFeed(c) ==
  /\ pushReq[c].at = "zadd"
  /\ Lands(pushReq[c].user, pushReq[c].blog, pushReq[c].score)
  /\ pushReq' = [pushReq EXCEPT ![c] = PushOver(c)]
  /\ NoFault /\ UNCHANGED <<blogs, lateAdds, now>>

\* No reply: the client sends the ZADD again, or SaveBlog, which does not look
\* at the error, goes on.  Redis may execute what was sent, at any time.
ZAddFeedError(c) ==
  /\ pushReq[c].at = "zadd"
  /\ pushReq' \in {pushReq, [pushReq EXCEPT ![c] = PushOver(c)]}
  /\ lateAdds' = lateAdds \cup {[user  |-> pushReq[c].user, blog |-> pushReq[c].blog,
                                 score |-> pushReq[c].score, fault |-> faults]}
  /\ Fault /\ UNCHANGED <<blogs, feed, now, scroll>>

LandFeed ==
  \E l \in lateAdds :
    /\ Lands(l.user, l.blog, l.score)
    /\ lateAdds' = lateAdds \ {l}
    /\ NoFault /\ UNCHANGED <<blogs, pushReq, now>>

-----------------------------------------------------------------------------
(***************************************************************************)
(* QueryBlogOfFollow.                                                      *)
(***************************************************************************)
\* ZREVRANGEBYSCORE: by score, then by member, the largest first.
Newer(f, a, b) == f[a] > f[b] \/ (f[a] = f[b] /\ a > b)

Below(f, max) == {b \in DOMAIN f : f[b] <= max}

Rank(f, max, b) == Cardinality({a \in Below(f, max) : Newer(f, a, b)})

\* Mutant: the count is one more.
PageOfOneMore(f, max, offset) ==
  {b \in Below(f, max) : Rank(f, max, b) \in offset .. offset + PageSize}

PageOf(f, max, offset) ==
  {b \in Below(f, max) : Rank(f, max, b) \in offset .. offset + PageSize - 1}

Last(f, page) == CHOOSE b \in page : \A a \in page \ {b} : Newer(f, a, b)

\* Mutant: counting starts with the second of them.
EqualsButFirst(f, page) == Cardinality({b \in page : f[b] = f[Last(f, page)]}) - 1

\* os: the blogs of this page that have the score the page ends with.
Equals(f, page) == Cardinality({b \in page : f[b] = f[Last(f, page)]})

\* Some second has more blogs than a page.
Busy(f) == \E t \in 1..MaxTime : Cardinality({b \in DOMAIN f : f[b] = t}) > PageSize

\* One page from a position.  As built, Member.(int64) panics on go-redis's
\* strings and gorm v1 renders "id IN ?" without parentheses: every page that
\* is not empty fails.  After a page that is not full no reader asks for more.
Page(from) ==
  LET f    == feed[from.user]
      page == IF PagesWork THEN PageOf(f, from.max, from.offset) ELSE {}
      seen == [from EXCEPT !.again = @ \/ page \cap from.shown # {},
                           !.crowded = @ \/ Busy(f)]
  IN
  /\ Arrive
  /\ scroll' = IF Cardinality(page) < PageSize
                 THEN [NoScroll EXCEPT !.again = seen.again, !.crowded = seen.crowded]
                 ELSE [seen EXCEPT !.max = f[Last(f, page)], !.offset = Equals(f, page),
                                   !.shown = @ \cup page]
  /\ UNCHANGED <<blogs, feed, pushReq, lateAdds, now>>

\* GET /blog/of/follow for the first time: from the browser's clock, whose
\* milliseconds are above every score, with an offset of 0 or, by default, 1.
FirstPage(u) ==
  \E offset \in {0, 1} :
    Page([NoScroll EXCEPT !.user = u, !.max = MaxTime + 1, !.offset = offset])

NextPage == scroll.user \in Users /\ Page(scroll)

FeedCrash == pushReq' = [c \in Clients |-> NoPush] /\ UNCHANGED <<blogs, feed, lateAdds, now, scroll>>

FeedNext ==
  \/ \E c \in Clients :
       \/ SaveBlog(c) \/ GetFollows(c) \/ GetFollowsError(c)
       \/ (\E u \in Users : Stamp(c, u)) \/ ZAddFeed(c) \/ ZAddFeedError(c)
  \/ LandFeed
  \/ \E u \in Users : FirstPage(u)
  \/ NextPage
  \/ Tick /\ UNCHANGED feedVars

-----------------------------------------------------------------------------
FeedTypeOK ==
  /\ blogs \in Nat
  /\ \A u \in Users : DOMAIN feed[u] \subseteq 1..blogs /\ \A b \in DOMAIN feed[u] : feed[u][b] \in 1..MaxTime
  /\ pushReq \in [Clients -> [at: {"idle", "followers", "push", "zadd"}, blog: 0..blogs,
                               left: [Users -> Nat], user: Users \cup {"nobody"}, score: 0..MaxTime]]
  /\ lateAdds \subseteq [user: Users, blog: 1..blogs, score: 1..MaxTime, fault: Nat]
  /\ scroll.user \in Users \cup {"nobody"} /\ scroll.shown \subseteq 1..blogs
  /\ scroll.max \in 0..MaxTime + 1 /\ scroll.offset \in 0..PageSize

(***************************************************************************)
(* A reader who pages through the feed is shown no blog twice, although    *)
(* pushes land meanwhile, some of them with a second read long before.     *)
(* The exceptions: a second has more blogs than a page, or a push lands    *)
(* with the second the reader has come to: then the offset, which counts   *)
(* the equal scores of one page only, is too small (BlogService.go:        *)
(* 205-222); or a blog the reader has seen is pushed again with a second   *)
(* before that.                                                            *)
(***************************************************************************)
ScrollShowsOnce == scroll.again => scroll.crowded

=============================================================================
