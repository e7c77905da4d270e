------------------------------ MODULE HotShop -------------------------------
(***************************************************************************)
(* Hot shops (ShopService.go): QueryShopByIdWithLogicExpire answers from a *)
(* preloaded entry that Redis never drops; the read that finds it expired  *)
(* and gets the shop's lock puts the id in redisDataQueue and unlocks, and *)
(* one goroutine, SyncUpdateCache, rebuilds the entries in that order.     *)
(*                                                                         *)
(* A row is the number of its last change.  The lock has its Redis client  *)
(* here (see LockWired in ShopCache).                                      *)
(***************************************************************************)
EXTENDS Calls, Sequences

CONSTANTS
  HotShops,
  QueueSize  \* MAX_REDIS_DATA_QUEUE

ASSUME QueueAssumption == QueueSize \in Nat \ {0}
ASSUME HotAssumption == Clients \cap {"free", "orphan"} = {}

VARIABLES
  hotRow,   \* per shop: the row in MySQL
  hot,      \* per shop: its entry, a row and whether ExpireTime has passed
  hotLock,  \* per shop: a client, "free", or "orphan" until its TTL ends
  hotReq,   \* per client: the call it makes next and its shop
  queue,    \* redisDataQueue
  worker,   \* SyncUpdateCache: its next call, its shop, the row it read
  late      \* SETs that Redis executes after their client gave up

hotVars == <<hotRow, hot, hotLock, hotReq, queue, worker, late>>

Entries == [row: Nat, expired: BOOLEAN]
Gone    == [row |-> 0, expired |-> TRUE]   \* row 0: no entry

NoRead   == [at |-> "idle", shop |-> "none"]
Receiver == [at |-> "receive", shop |-> "none", row |-> 0]

\* Every hot shop has been loaded ("数据预热") before requests arrive.
HotInit ==
  /\ hotRow  = [s \in HotShops |-> 1]
  /\ hot     = [s \in HotShops |-> [row |-> 1, expired |-> FALSE]]
  /\ hotLock = [s \in HotShops |-> "free"]
  /\ hotReq  = [c \in Clients |-> NoRead]
  /\ queue   = <<>>
  /\ worker  = Receiver
  /\ late    = {}

-----------------------------------------------------------------------------
(***************************************************************************)
(* QueryShopByIdWithLogicExpire.                                           *)
(***************************************************************************)
OnlyReads == UNCHANGED <<hotRow, hot, worker, late>>

Reads(c, place) == hotReq' = [hotReq EXCEPT ![c].at = place]

EndRead(c) == hotReq' = [hotReq EXCEPT ![c] = NoRead]

HotRead(c, s) ==
  /\ Arrive
  /\ hotReq[c] = NoRead
  /\ hotReq' = [hotReq EXCEPT ![c] = [at |-> "get", shop |-> s]]
  /\ OnlyReads /\ UNCHANGED <<hotLock, queue>>

\* An entry that is there and has not expired is the answer, and so is none.
HotGet(c) ==
  /\ hotReq[c].at = "get"
  /\ LET entry == hot[hotReq[c].shop] IN
       IF entry # Gone /\ entry.expired THEN Reads(c, "lock") ELSE EndRead(c)
  /\ OnlyReads /\ NoFault /\ UNCHANGED <<hotLock, queue>>

\* Who does not get the lock answers with the expired entry.
HotTryLock(c) ==
  LET s == hotReq[c].shop IN
  /\ hotReq[c].at = "lock"
  /\ IF hotLock[s] = "free"
       THEN hotLock' = [hotLock EXCEPT ![s] = c] /\ Reads(c, "send")
       ELSE UNCHANGED hotLock /\ EndRead(c)
  /\ OnlyReads /\ NoFault /\ UNCHANGED queue

\* A full queue blocks the request, which holds the lock meanwhile.
HotSend(c) ==
  /\ hotReq[c].at = "send"
  /\ Len(queue) < QueueSize
  /\ queue' = Append(queue, hotReq[c].shop)
  /\ Reads(c, "unlock")
  /\ OnlyReads /\ NoFault /\ UNCHANGED hotLock

FreeLock(c, word) ==
  hotLock' = [hotLock EXCEPT ![hotReq[c].shop] = IF @ = c THEN word ELSE @]

HotUnlock(c) ==
  /\ hotReq[c].at = "unlock"
  /\ FreeLock(c, "free")
  /\ EndRead(c)
  /\ OnlyReads /\ NoFault /\ UNCHANGED queue

\* GET, SETNX or the unlock fails.  A key whose token nobody knows, or whose
\* watchdog has been stopped, runs out.
HotReadError(c) ==
  /\ \/ hotReq[c].at \in {"get", "lock"} /\ UNCHANGED hotLock
     \/ /\ hotReq[c].at = "lock" /\ hotLock[hotReq[c].shop] = "free"
        /\ hotLock' = [hotLock EXCEPT ![hotReq[c].shop] = "orphan"]
     \/ hotReq[c].at = "unlock" /\ \E word \in {"free", "orphan"} : FreeLock(c, word)
  /\ EndRead(c)
  /\ OnlyReads /\ Fault /\ UNCHANGED queue

-----------------------------------------------------------------------------
(***************************************************************************)
(* SyncUpdateCache.                                                        *)
(***************************************************************************)
OnlyWorks == UNCHANGED <<hotRow, hotLock, hotReq>>

Receive ==
  /\ worker.at = "receive" /\ queue # <<>>
  /\ queue'  = Tail(queue)
  /\ worker' = [worker EXCEPT !.at = "query", !.shop = Head(queue)]
  /\ OnlyWorks /\ NoFault /\ UNCHANGED <<hot, late>>

QueryHot ==
  /\ worker.at = "query"
  /\ worker' = [worker EXCEPT !.at = "set", !.row = hotRow[worker.shop]]
  /\ OnlyWorks /\ NoFault /\ UNCHANGED <<hot, queue, late>>

SetHot ==
  /\ worker.at = "set"
  /\ hot' = [hot EXCEPT ![worker.shop] = [row |-> worker.row, expired |-> FALSE]]
  /\ worker' = Receiver
  /\ OnlyWorks /\ NoFault /\ UNCHANGED <<queue, late>>

\* Mutant: an error ends the loop.
WorkerErrorReturns ==
  /\ worker.at \in {"query", "set"}
  /\ worker' = [Receiver EXCEPT !.at = "ended"]
  /\ OnlyWorks /\ Fault /\ UNCHANGED <<hot, queue, late>>

\* Mutant: the query's error is not looked at, the entry gets an empty shop.
WorkerErrorIgnored ==
  /\ worker.at = "query"
  /\ worker' = [worker EXCEPT !.at = "set", !.row = 0]
  /\ OnlyWorks /\ Fault /\ UNCHANGED <<hot, queue, late>>

\* An error: continue.  A SET that had no reply may have been executed, or be
\* later; the client may send it again before it gives up.
WorkerError ==
  /\ worker.at \in {"query", "set"}
  /\ \/ worker' = Receiver /\ UNCHANGED late
     \/ /\ worker.at = "set" /\ worker' \in {worker, Receiver}
        /\ late' = late \cup {[shop |-> worker.shop, row |-> worker.row]}
  /\ OnlyWorks /\ Fault /\ UNCHANGED <<hot, queue>>

LandHot ==
  \E l \in late :
    /\ hot' = [hot EXCEPT ![l.shop] = [row |-> l.row, expired |-> FALSE]]
    /\ late' = late \ {l}
    /\ OnlyWorks /\ NoFault /\ UNCHANGED <<queue, worker>>

-----------------------------------------------------------------------------
(***************************************************************************)
(* The world: a row changes (UpdateShop leaves the cache alone), an update *)
(* through UpdateShopWithCache deletes the entry, ExpireTime passes, a     *)
(* lock key expires, the process restarts.                                 *)
(***************************************************************************)
ChangeRow(s) ==
  /\ Arrive
  /\ hotRow' = [hotRow EXCEPT ![s] = @ + 1]
  /\ UNCHANGED <<hot, hotLock, hotReq, queue, worker, late>>

DeleteHot(s) ==
  /\ Arrive
  /\ hot' = [hot EXCEPT ![s] = Gone]
  /\ UNCHANGED <<hotRow, hotLock, hotReq, queue, worker, late>>

ExpireHot(s) ==
  /\ hot[s].expired = FALSE
  /\ hot' = [hot EXCEPT ![s].expired = TRUE]
  /\ NoFault /\ UNCHANGED <<hotRow, hotLock, hotReq, queue, worker, late>>

FreeOrphan(s) ==
  /\ hotLock[s] = "orphan"
  /\ hotLock' = [hotLock EXCEPT ![s] = "free"]
  /\ NoFault /\ UNCHANGED <<hotRow, hot, hotReq, queue, worker, late>>

\* A renewal failed and the holder, blocked or slow, outlives its key.
LoseLock(s) ==
  /\ hotLock[s] \in Clients
  /\ hotLock' = [hotLock EXCEPT ![s] = "free"]
  /\ Fault /\ UNCHANGED <<hotRow, hot, hotReq, queue, worker, late>>

\* Queue, worker and reads are the process's; entries and keys stay.
HotCrash ==
  /\ hotReq'  = [c \in Clients |-> NoRead]
  /\ queue'   = <<>>
  /\ worker'  = Receiver
  /\ hotLock' = [s \in HotShops |-> IF hotLock[s] = "free" THEN "free" ELSE "orphan"]
  /\ UNCHANGED <<hotRow, hot, late>>

HotStep(c) == HotGet(c) \/ HotTryLock(c) \/ HotSend(c) \/ HotUnlock(c)

WorkerStep == Receive \/ QueryHot \/ SetHot

HotNext ==
  \/ \E c \in Clients : HotStep(c) \/ HotReadError(c)
  \/ \E c \in Clients, s \in HotShops : HotRead(c, s)
  \/ WorkerStep \/ WorkerError \/ LandHot
  \/ \E s \in HotShops :
       ChangeRow(s) \/ DeleteHot(s) \/ ExpireHot(s) \/ FreeOrphan(s) \/ LoseLock(s)

\* Requests and the worker are scheduled.
HotFairness == WF_hotVars(WorkerStep) /\ \A c \in Clients : WF_hotVars(HotStep(c))

-----------------------------------------------------------------------------
HotTypeOK ==
  /\ hotRow \in [HotShops -> Nat]
  /\ hot \in [HotShops -> Entries]
  /\ hotLock \in [HotShops -> Clients \cup {"free", "orphan"}]
  /\ hotReq \in [Clients -> [at: {"idle", "get", "lock", "send", "unlock"},
                             shop: HotShops \cup {"none"}]]
  /\ queue \in Seq(HotShops) /\ Len(queue) <= QueueSize
  /\ worker \in [at: {"receive", "query", "set"}, shop: HotShops \cup {"none"}, row: Nat]
  /\ late \subseteq [shop: HotShops, row: Nat]

(***************************************************************************)
(* An entry never goes back to an older row nor to an empty shop, although *)
(* requests queue a shop more than once and rows change between SELECT and *)
(* SET: one goroutine rebuilds.  (The goroutine per rebuild that is        *)
(* commented out in ShopService.go:294-312 could not promise it.)  A SET   *)
(* that lands late, after its client gave up, is the exception.            *)
(***************************************************************************)
Forward == \A s \in HotShops : hot'[s] = Gone \/ hot'[s].row >= hot[s].row

RebuildsInOrder == [][late = {} => Forward]_hotVars

(***************************************************************************)
(* The reads use every shop's lock as TokenLock has it.                    *)
(***************************************************************************)
LockPhase(c, s) ==
  CASE hotReq[c] = [at |-> "send", shop |-> s]   -> "in"
    [] hotReq[c] = [at |-> "unlock", shop |-> s] -> "leaving"
    [] OTHER                                     -> "out"

LockOf(s) == INSTANCE TokenLock WITH
               Parties <- Clients,
               word    <- hotLock[s],
               phase   <- [c \in Clients |-> LockPhase(c, s)],
               faulty  <- faults > 0

LocksKeepPromise ==
  /\ \A s \in HotShops : LockOf(s)!Init
  /\ [][\A s \in HotShops : [LockOf(s)!Next]_(LockOf(s)!lockVars)]_<<hotVars, faults>>

(***************************************************************************)
(* A read of a hot shop is answered: whoever waits for room in the queue   *)
(* gets it, whatever fails and however often the same ids are queued.      *)
(***************************************************************************)
HotReadsAnswered == \A c \in Clients : hotReq[c] # NoRead ~> hotReq[c] = NoRead

=============================================================================
