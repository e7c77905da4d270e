---------------------------- MODULE VoucherOrder ----------------------------
(***************************************************************************)
(* The flash-sale order pipeline of VoucherOrderService.go: the Lua script *)
(* that reserves a voucher and queues an order message, the two goroutines *)
(* that consume the stream as the SAME consumer (SyncHandlerStream reads   *)
(* new messages, handlePendingList re-reads unacknowledged ones), the lock *)
(* per user, the MySQL transaction, retries, the dead-letter stream.       *)
(*                                                                         *)
(* One action is one command sent to Redis or one transaction of MySQL:    *)
(* those are the points at which the two goroutines, the customers, time   *)
(* and a restart of the process interleave.                                *)
(***************************************************************************)
EXTENDS Integers, Sequences, FiniteSets

CONSTANTS
  Users, Vouchers,
  Stock,              \* Stock[v]: the stock published in Redis and in MySQL
  MaxRetries,         \* maxRetries
  ReadCount,          \* Count of SyncHandlerStream's read
  PendingCount,       \* Count of handlePendingList's read
  Decodes,            \* mapstructure.Decode accepts the stream's strings
  DeadLetterStores,   \* XADD accepts the dead letter's fields
  MaxMsgs,            \* bound: messages ever queued
  MaxFaults,          \* bound: Redis and MySQL calls that fail
  MaxCrashes          \* bound: restarts of the process

ASSUME SaleAssumption ==
  /\ IsFiniteSet(Users)
  /\ Stock \in [Vouchers -> Nat]
ASSUME RetryAssumption ==
  /\ MaxRetries \in Nat
  /\ ReadCount \in Nat \ {0}
  /\ PendingCount \in Nat \ {0}
ASSUME LibraryAssumption == Decodes \in BOOLEAN /\ DeadLetterStores \in BOOLEAN
ASSUME BoundAssumption ==
  MaxMsgs \in Nat /\ MaxFaults \in Nat /\ MaxCrashes \in Nat

VARIABLES
  \* Redis
  stock,      \* seckill:stock:<voucher>
  buyers,     \* seckill:order:<voucher>, the set of users who reserved
  stream,     \* stream.orders; a message's position stands for its stream id
  delivered,  \* group g1's last-delivered-id
  pel,        \* the pending entries of group g1, all of consumer c1
  retry,      \* retry:stream.orders:<id>; an absent key counts as 0
  dead,       \* the messages in stream.orders.dead
  lock,       \* lock:order:<user>: the token stored there
  \* MySQL
  dbStock,    \* tb_seckill_voucher.stock
  orders,     \* tb_voucher_order, by primary key
  \* the two goroutines
  pc, batch, ok, cnt,
  \* history and bounds
  dropped,    \* messages given up whose dead letter was not stored
  lapsed,     \* goroutines whose lock expired while they were using it
  faults, crashes

requestVars == <<stock, buyers, stream>>
groupVars   == <<delivered, pel>>
deadVars    == <<dead, dropped>>
dbVars      == <<dbStock, orders>>
procVars    == <<pc, batch, ok, cnt>>
boundVars   == <<faults, crashes>>
vars == <<requestVars, groupVars, retry, lock, deadVars, lapsed, dbVars, procVars, boundVars>>

Ids       == 1..MaxMsgs
Consumers == {"sync", "pending"}
Message   == [user : Users, voucher : Vouchers]

(***************************************************************************)
(* A lock's token is a fresh UUID.  It is named here by the goroutine that *)
(* carries it, or "orphan" once no running goroutine does (a restart, an   *)
(* unlock that failed, a SETNX whose reply was lost).                      *)
(***************************************************************************)
Tokens == Consumers \cup {"free", "orphan"}

\* Where a goroutine is: the call it makes next.
Phases == {"idle", "count", "lock", "check", "write", "unlock", "settle",
           "dead", "deadack", "clear"}

UserOf(i)    == stream[i].user
VoucherOf(i) == stream[i].voucher

\* The entries of S that a read with COUNT n returns.
FirstN(S, n) == {i \in S : Cardinality({j \in S : j < i}) < n}

\* Messages of a batch are handled in the order of their ids.
IsNext(c, i) == i \in batch[c] /\ \A j \in batch[c] : i <= j

\* Goroutine c is between LockWithWatchDog and UnlockWithWatchDog for i.
Inside(c, i) == pc[c] \in {"check", "write", "unlock"} /\ IsNext(c, i)
InsideFor(c, u) == \E i \in batch[c] : Inside(c, i) /\ UserOf(i) = u

Acked == {i \in 1..delivered : i \notin pel}

\* Where the loop body of goroutine c starts.
Start(c) == IF c = "sync" THEN "lock" ELSE "count"

Goto(c, p) == pc' = [pc EXCEPT ![c] = p]

\* The loop moves on to the next message of the batch, or reads again.
NextMessage(c, i) ==
  /\ batch' = [batch EXCEPT ![c] = @ \ {i}]
  /\ Goto(c, IF batch[c] = {i} THEN "idle" ELSE Start(c))
  /\ ok'  = [ok EXCEPT ![c] = FALSE]
  /\ cnt' = IF c = "pending" THEN 0 ELSE cnt

\* A call fails, or its reply is lost.
Fault == faults < MaxFaults /\ faults' = faults + 1 /\ UNCHANGED crashes

NoFault == UNCHANGED boundVars

\* Goroutine c has taken message i off its batch and calls p next.
At(c, i, p) == pc[c] = p /\ IsNext(c, i)

-----------------------------------------------------------------------------
Init ==
  /\ stock     = Stock
  /\ buyers    = [v \in Vouchers |-> {}]
  /\ stream    = <<>>
  /\ delivered = 0
  /\ pel       = {}
  /\ retry     = [i \in Ids |-> 0]
  /\ dead      = {}
  /\ lock      = [u \in Users |-> "free"]
  /\ dbStock   = Stock
  /\ orders    = {}
  /\ pc        = [c \in Consumers |-> "idle"]
  /\ batch     = [c \in Consumers |-> {}]
  /\ ok        = [c \in Consumers |-> FALSE]
  /\ cnt       = 0
  /\ dropped   = {}
  /\ lapsed    = {}
  /\ faults    = 0
  /\ crashes   = 0

\* Mutant: the script without its sismember test.
SeckillVoucherTwice(u, v) ==
  /\ Len(stream) < MaxMsgs
  /\ stock[v] > 0
  /\ stock'  = [stock EXCEPT ![v] = @ - 1]
  /\ buyers' = [buyers EXCEPT ![v] = @ \cup {u}]
  /\ stream' = Append(stream, [user |-> u, voucher |-> v])
  /\ UNCHANGED <<groupVars, retry, lock, deadVars, lapsed, dbVars, procVars>>
  /\ NoFault

\* Mutant: stock < 0 instead of stock <= 0 refuses.
SeckillVoucherOversells(u, v) ==
  /\ Len(stream) < MaxMsgs
  /\ stock[v] >= 0
  /\ u \notin buyers[v]
  /\ stock'  = [stock EXCEPT ![v] = @ - 1]
  /\ buyers' = [buyers EXCEPT ![v] = @ \cup {u}]
  /\ stream' = Append(stream, [user |-> u, voucher |-> v])
  /\ UNCHANGED <<groupVars, retry, lock, deadVars, lapsed, dbVars, procVars>>
  /\ NoFault

(***************************************************************************)
(* A customer's request: the Lua script, atomic in Redis.  Refused         *)
(* requests (no stock, already bought, outside the sale's dates) change    *)
(* nothing.                                                                *)
(***************************************************************************)
SeckillVoucher(u, v) ==
  /\ Len(stream) < MaxMsgs
  /\ stock[v] > 0
  /\ u \notin buyers[v]
  /\ stock'  = [stock EXCEPT ![v] = @ - 1]
  /\ buyers' = [buyers EXCEPT ![v] = @ \cup {u}]
  /\ stream' = Append(stream, [user |-> u, voucher |-> v])
  /\ UNCHANGED <<groupVars, retry, lock, deadVars, lapsed, dbVars, procVars>>
  /\ NoFault

-----------------------------------------------------------------------------
(***************************************************************************)
(* Reading the stream.                                                     *)
(***************************************************************************)
NewMessages == FirstN(delivered + 1 .. Len(stream), ReadCount)

\* Mutant: the read has NOACK, nothing is pending afterwards.
DeliverNoAck ==
  /\ pc["sync"] = "idle"
  /\ NewMessages # {}
  /\ delivered' = delivered + Cardinality(NewMessages)
  /\ UNCHANGED <<pel, requestVars, retry, lock, deadVars, lapsed, dbVars, ok, cnt>>

\* What XREADGROUP > does on the server.
Deliver ==
  /\ pc["sync"] = "idle"
  /\ NewMessages # {}
  /\ delivered' = delivered + Cardinality(NewMessages)
  /\ pel' = pel \cup NewMessages
  /\ UNCHANGED <<requestVars, retry, lock, deadVars, lapsed, dbVars, ok, cnt>>

ReadNew ==
  /\ Deliver
  /\ batch' = [batch EXCEPT !["sync"] = NewMessages]
  /\ Goto("sync", "lock")
  /\ NoFault

\* The reply is lost: the messages are pending, and in nobody's batch.
ReadNewLost == Deliver /\ Fault /\ UNCHANGED <<pc, batch>>

\* XREADGROUP 0 returns what consumer c1 has not acknowledged, messages that
\* SyncHandlerStream is working on included.
ReadPending ==
  /\ pc["pending"] = "idle"
  /\ pel # {}
  /\ batch' = [batch EXCEPT !["pending"] = FirstN(pel, PendingCount)]
  /\ Goto("pending", "count")
  /\ UNCHANGED <<requestVars, groupVars, retry, lock, deadVars, lapsed, dbVars, ok, cnt>>
  /\ NoFault

-----------------------------------------------------------------------------
(***************************************************************************)
(* processVoucherMessage and createVoucherOrder, for message i of c.       *)
(***************************************************************************)
KeepsQueue == UNCHANGED <<requestVars, groupVars, retry, deadVars, batch, cnt>>

\* Mutant: SET instead of SETNX.
LockOverwrites(c, i) ==
  /\ At(c, i, "lock")
  /\ lock' = [lock EXCEPT ![UserOf(i)] = c]
  /\ Goto(c, "check")
  /\ KeepsQueue /\ NoFault
  /\ UNCHANGED <<lapsed, dbVars, ok>>

\* mapstructure.Decode, then SETNX: either may refuse, and the call returns.
Lock(c, i) ==
  LET acquired == Decodes /\ lock[UserOf(i)] = "free" IN
  /\ At(c, i, "lock")
  /\ lock' = IF acquired THEN [lock EXCEPT ![UserOf(i)] = c] ELSE lock
  /\ Goto(c, IF acquired THEN "check" ELSE "settle")
  /\ KeepsQueue /\ NoFault
  /\ UNCHANGED <<lapsed, dbVars, ok>>

\* SETNX fails, before or after the server executed it.
LockError(c, i) ==
  LET u == UserOf(i) IN
  /\ At(c, i, "lock")
  /\ Decodes
  /\ lock' \in {lock, IF lock[u] = "free" THEN [lock EXCEPT ![u] = "orphan"] ELSE lock}
  /\ Goto(c, "settle")
  /\ KeepsQueue /\ Fault
  /\ UNCHANGED <<lapsed, dbVars, ok>>

HasPurchasedVoucher(i) ==
  \E j \in orders : UserOf(j) = UserOf(i) /\ VoucherOf(j) = VoucherOf(i)

\* Mutant: a duplicate returns without the deferred unlock.
CheckLeaksLock(c, i) ==
  /\ At(c, i, "check")
  /\ Goto(c, IF HasPurchasedVoucher(i) THEN "settle" ELSE "write")
  /\ KeepsQueue /\ NoFault
  /\ UNCHANGED <<lock, lapsed, dbVars, ok>>

Check(c, i) ==
  /\ At(c, i, "check")
  /\ Goto(c, IF HasPurchasedVoucher(i) THEN "unlock" ELSE "write")
  /\ KeepsQueue /\ NoFault
  /\ UNCHANGED <<lock, lapsed, dbVars, ok>>

\* A failed query is reported as ErrDuplicateOrder.
CheckError(c, i) ==
  /\ At(c, i, "check")
  /\ Goto(c, "unlock")
  /\ KeepsQueue /\ Fault
  /\ UNCHANGED <<lock, lapsed, dbVars, ok>>

(***************************************************************************)
(* The UPDATE locks the voucher's row until COMMIT, so the UPDATE, the     *)
(* INSERT and the COMMIT of two transactions do not interleave.  The stock *)
(* guard and the primary key (the order id, one per message) can refuse.   *)
(***************************************************************************)
InStock(i)   == dbStock[VoucherOf(i)] > 0
Insertable(i) == InStock(i) /\ i \notin orders

InsertOrder(i) ==
  /\ dbStock' = [dbStock EXCEPT ![VoucherOf(i)] = @ - 1]
  /\ orders'  = orders \cup {i}

CreateOrder(c, i) ==
  /\ At(c, i, "write")
  /\ IF Insertable(i) THEN InsertOrder(i) ELSE UNCHANGED dbVars
  /\ ok' = [ok EXCEPT ![c] = Insertable(i)]
  /\ Goto(c, "unlock")
  /\ KeepsQueue /\ NoFault
  /\ UNCHANGED <<lock, lapsed>>

\* Mutant: the UPDATE runs outside the transaction and is not rolled back.
CreateOrderErrorKeepsUpdate(c, i) ==
  /\ At(c, i, "write")
  /\ Insertable(i)
  /\ dbStock' = [dbStock EXCEPT ![VoucherOf(i)] = @ - 1]
  /\ Goto(c, "unlock")
  /\ KeepsQueue /\ Fault
  /\ UNCHANGED <<lock, lapsed, orders, ok>>

\* The transaction fails and is rolled back.
CreateOrderError(c, i) ==
  /\ At(c, i, "write")
  /\ Goto(c, "unlock")
  /\ KeepsQueue /\ Fault
  /\ UNCHANGED <<lock, lapsed, dbVars, ok>>

\* The transaction commits and the reply to COMMIT is lost.
CommitReplyLost(c, i) ==
  /\ At(c, i, "write")
  /\ Insertable(i) /\ InsertOrder(i)
  /\ Goto(c, "unlock")
  /\ KeepsQueue /\ Fault
  /\ UNCHANGED <<lock, lapsed, ok>>

\* Mutant: DEL without comparing the token.
UnlockAnybodys(c, i) ==
  /\ At(c, i, "unlock")
  /\ lock' = [lock EXCEPT ![UserOf(i)] = "free"]
  /\ lapsed' = lapsed \ {c}
  /\ Goto(c, "settle")
  /\ KeepsQueue /\ NoFault
  /\ UNCHANGED <<dbVars, ok>>

\* The deferred UnlockWithWatchDog deletes the key only if the token is c's.
Unlock(c, i) ==
  LET u == UserOf(i) IN
  /\ At(c, i, "unlock")
  /\ lock' = IF lock[u] = c THEN [lock EXCEPT ![u] = "free"] ELSE lock
  /\ lapsed' = lapsed \ {c}
  /\ Goto(c, "settle")
  /\ KeepsQueue /\ NoFault
  /\ UNCHANGED <<dbVars, ok>>

\* Its context is over (3 seconds since the lock was asked for) or the call
\* fails: the watchdog is stopped, and the key is deleted (the reply is lost) or
\* stays until its TTL.
UnlockError(c, i) ==
  LET u == UserOf(i) IN
  /\ At(c, i, "unlock")
  /\ \E word \in {"free", "orphan"} :
       lock' = IF lock[u] = c THEN [lock EXCEPT ![u] = word] ELSE lock
  /\ lapsed' = lapsed \ {c}
  /\ Goto(c, "settle")
  /\ KeepsQueue /\ Fault
  /\ UNCHANGED <<dbVars, ok>>

\* The watchdog gave up after one failed renewal, or the process stalled:
\* the key of a goroutine that still relies on it expires.
Lapse(u) ==
  /\ lock[u] \in Consumers
  /\ lapsed' = lapsed \cup {lock[u]}
  /\ lock' = [lock EXCEPT ![u] = "free"]
  /\ Fault
  /\ UNCHANGED <<requestVars, groupVars, retry, deadVars, dbVars, procVars>>

\* The TTL of a key that no watchdog renews runs out.
Expire(u) ==
  /\ lock[u] = "orphan"
  /\ lock' = [lock EXCEPT ![u] = "free"]
  /\ NoFault
  /\ UNCHANGED <<requestVars, groupVars, retry, deadVars, lapsed, dbVars, procVars>>

-----------------------------------------------------------------------------
(***************************************************************************)
(* What the two loops do with the result.                                  *)
(***************************************************************************)
KeepsStores == UNCHANGED <<requestVars, delivered, lock, lapsed, dbVars>>

Ack(i) == pel' = pel \ {i}

\* Mutant: XACK after a failure, too.
SyncSettleAlwaysAcks(i) ==
  /\ At("sync", i, "settle")
  /\ Ack(i)
  /\ NextMessage("sync", i)
  /\ KeepsStores /\ NoFault
  /\ UNCHANGED <<retry, deadVars>>

\* SyncHandlerStream acknowledges a success and leaves a failure pending.
SyncSettle(i) ==
  /\ At("sync", i, "settle")
  /\ IF ok["sync"] THEN Ack(i) ELSE UNCHANGED pel
  /\ NextMessage("sync", i)
  /\ KeepsStores /\ NoFault
  /\ UNCHANGED <<retry, deadVars>>

SyncAckError(i) ==
  /\ At("sync", i, "settle")
  /\ ok["sync"]
  /\ NextMessage("sync", i)
  /\ KeepsStores /\ Fault
  /\ UNCHANGED <<pel, retry, deadVars>>

\* Mutant: <= maxRetries.
StartTryOnceMore(i, n) ==
  /\ At("pending", i, "count")
  /\ cnt' = n
  /\ Goto("pending", IF n <= MaxRetries THEN "lock" ELSE "dead")
  /\ KeepsStores
  /\ UNCHANGED <<pel, retry, deadVars, batch, ok>>

\* handlePendingList looks up how often it tried; a failed GET reads as 0.
StartTry(i, n) ==
  /\ At("pending", i, "count")
  /\ cnt' = n
  /\ Goto("pending", IF n < MaxRetries THEN "lock" ELSE "dead")
  /\ KeepsStores
  /\ UNCHANGED <<pel, retry, deadVars, batch, ok>>

GetRetryCount(i) == StartTry(i, retry[i]) /\ NoFault

GetRetryCountError(i) == StartTry(i, 0) /\ Fault

\* Mutant: a failure is not counted.
PendingSettleUncounted(i) ==
  /\ At("pending", i, "settle")
  /\ IF ok["pending"]
       THEN /\ Ack(i)
            /\ Goto("pending", "clear")
            /\ UNCHANGED <<batch, ok, cnt>>
       ELSE NextMessage("pending", i) /\ UNCHANGED pel
  /\ KeepsStores /\ NoFault
  /\ UNCHANGED <<retry, deadVars>>

\* It acknowledges a success and clears the count, or counts a failure.
PendingSettle(i) ==
  /\ At("pending", i, "settle")
  /\ IF ok["pending"]
       THEN /\ Ack(i)
            /\ Goto("pending", "clear")
            /\ UNCHANGED <<retry, batch, ok, cnt>>
       ELSE /\ retry' = [retry EXCEPT ![i] = cnt + 1]
            /\ NextMessage("pending", i)
            /\ UNCHANGED pel
  /\ KeepsStores /\ NoFault
  /\ UNCHANGED deadVars

\* The XACK, or the SET of the count, fails; the error is only logged.
PendingSettleError(i) ==
  /\ At("pending", i, "settle")
  /\ IF ok["pending"]
       THEN Goto("pending", "clear") /\ UNCHANGED <<batch, ok, cnt>>
       ELSE NextMessage("pending", i)
  /\ KeepsStores /\ Fault
  /\ UNCHANGED <<pel, retry, deadVars>>

\* handleFailedMessage: an XADD that fails is logged, and forgotten.
DeadLetter(i) ==
  /\ At("pending", i, "dead")
  /\ IF DeadLetterStores
       THEN dead' = dead \cup {i} /\ UNCHANGED dropped
       ELSE dropped' = dropped \cup {i} /\ UNCHANGED dead
  /\ Goto("pending", "deadack")
  /\ KeepsStores /\ NoFault
  /\ UNCHANGED <<pel, retry, batch, ok, cnt>>

DeadLetterError(i) ==
  /\ At("pending", i, "dead")
  /\ dropped' = dropped \cup {i}
  /\ Goto("pending", "deadack")
  /\ KeepsStores /\ Fault
  /\ UNCHANGED <<pel, retry, dead, batch, ok, cnt>>

DeadAck(i) ==
  /\ At("pending", i, "deadack")
  /\ Ack(i)
  /\ Goto("pending", "clear")
  /\ KeepsStores /\ NoFault
  /\ UNCHANGED <<retry, deadVars, batch, ok, cnt>>

DeadAckError(i) ==
  /\ At("pending", i, "deadack")
  /\ Goto("pending", "clear")
  /\ KeepsStores /\ Fault
  /\ UNCHANGED <<pel, retry, deadVars, batch, ok, cnt>>

ClearRetryCount(i) ==
  /\ At("pending", i, "clear")
  /\ retry' = [retry EXCEPT ![i] = 0]
  /\ NextMessage("pending", i)
  /\ KeepsStores /\ NoFault
  /\ UNCHANGED <<pel, deadVars>>

ClearRetryCountError(i) ==
  /\ At("pending", i, "clear")
  /\ NextMessage("pending", i)
  /\ KeepsStores /\ Fault
  /\ UNCHANGED <<pel, retry, deadVars>>

-----------------------------------------------------------------------------
(***************************************************************************)
(* The process dies and main starts it again: what Redis and MySQL hold    *)
(* stays, the group exists already (BUSYGROUP), the goroutines start over, *)
(* and the locks they held wait for their TTL.                             *)
(***************************************************************************)
Crash ==
  /\ crashes < MaxCrashes
  /\ crashes' = crashes + 1
  /\ lock'  = [u \in Users |-> IF lock[u] \in Consumers THEN "orphan" ELSE lock[u]]
  /\ pc'    = [c \in Consumers |-> "idle"]
  /\ batch' = [c \in Consumers |-> {}]
  /\ ok'    = [c \in Consumers |-> FALSE]
  /\ cnt'   = 0
  /\ lapsed' = {}
  /\ UNCHANGED <<requestVars, groupVars, retry, deadVars, dbVars, faults>>

Process(c, i) ==
  Lock(c, i) \/ Check(c, i) \/ CreateOrder(c, i) \/ Unlock(c, i)

SyncStep == ReadNew \/ \E i \in Ids : Process("sync", i) \/ SyncSettle(i)

PendingStep ==
  \/ ReadPending
  \/ \E i \in Ids :
       \/ GetRetryCount(i) \/ Process("pending", i) \/ PendingSettle(i)
       \/ DeadLetter(i) \/ DeadAck(i) \/ ClearRetryCount(i)

Failure ==
  \/ ReadNewLost
  \/ \E u \in Users : Lapse(u)
  \/ \E i \in Ids :
       \/ \E c \in Consumers :
            \/ LockError(c, i) \/ CheckError(c, i) \/ CreateOrderError(c, i)
            \/ CommitReplyLost(c, i) \/ UnlockError(c, i)
       \/ SyncAckError(i) \/ GetRetryCountError(i) \/ PendingSettleError(i)
       \/ DeadLetterError(i) \/ DeadAckError(i) \/ ClearRetryCountError(i)

Next ==
  \/ \E u \in Users, v \in Vouchers : SeckillVoucher(u, v)
  \/ SyncStep
  \/ PendingStep
  \/ \E u \in Users : Expire(u)
  \/ Failure
  \/ Crash

Spec == Init /\ [][Next]_vars

(***************************************************************************)
(* Both goroutines are endless loops that main starts, and a TTL runs out  *)
(* by itself.  Nobody has to buy, and nothing has to fail.                 *)
(***************************************************************************)
Fairness ==
  /\ WF_vars(SyncStep)
  /\ WF_vars(PendingStep)
  /\ \A u \in Users : WF_vars(Expire(u))

FairSpec == Spec /\ Fairness

-----------------------------------------------------------------------------
(***************************************************************************)
(* Properties.                                                             *)
(***************************************************************************)
\* Every variable holds a value of its kind: counts are natural numbers, and
\* what the group, the goroutines and MySQL refer to are queued messages.
TypeOK ==
  /\ stock \in [Vouchers -> Nat]
  /\ buyers \in [Vouchers -> SUBSET Users]
  /\ stream \in Seq(Message) /\ Len(stream) <= MaxMsgs
  /\ delivered \in 0..Len(stream)
  /\ pel \subseteq 1..delivered
  /\ retry \in [Ids -> 0..MaxRetries]
  /\ dead \subseteq 1..delivered
  /\ dropped \subseteq 1..delivered
  /\ lock \in [Users -> Tokens]
  /\ dbStock \in [Vouchers -> Nat]
  /\ orders \subseteq 1..delivered
  /\ pc \in [Consumers -> Phases]
  /\ batch \in [Consumers -> SUBSET (1..delivered)]
  /\ ok \in [Consumers -> BOOLEAN]
  /\ cnt \in 0..MaxRetries
  /\ lapsed \subseteq Consumers
  /\ faults \in 0..MaxFaults
  /\ crashes \in 0..MaxCrashes

OrdersOf(v)   == {i \in orders : VoucherOf(i) = v}
MessagesOf(v) == {i \in 1..Len(stream) : VoucherOf(i) = v}

\* One order per user and voucher (createVoucherOrder's own check, the Lua
\* script's sismember), however often a message is processed again.
OneOrderPerUser ==
  \A i, j \in orders :
    UserOf(i) = UserOf(j) /\ VoucherOf(i) = VoucherOf(j) => i = j

\* MySQL's stock and order rows agree: a unit is taken off the stock exactly
\* when an order row exists for it, through rollbacks, lost COMMIT replies,
\* two goroutines on one message and restarts (Transaction, DecrVoucherStock).
StockConserved ==
  \A v \in Vouchers : dbStock[v] + Cardinality(OrdersOf(v)) = Stock[v]

\* The Lua script's stock check is enough: a message that has no order yet
\* never finds MySQL's stock at zero (ErrStockNotEnough cannot happen), so a
\* customer who was told "reserved" is never refused for lack of stock.
ReservedOrderFindsStock ==
  \A i \in 1..Len(stream) : i \notin orders => InStock(i)

\* A message leaves the pending list only once its order row exists or it was
\* given up after maxRetries attempts (the two XACKs after a success, the one
\* after handleFailedMessage).
NothingForgotten == Acked \subseteq orders \cup dead \cup dropped

\* Two goroutines are between lock and unlock for the same user only if the
\* key of one of them expired under it (lock:order:<user>).
MutualExclusion ==
  \A u \in Users :
    InsideFor("sync", u) /\ InsideFor("pending", u) => lapsed # {}

\* A goroutine that holds a user's lock loses it only by its own unlock, by a
\* lapse or by a restart: no other goroutine deletes or overwrites its key
\* (the token comparison of UnlockWithWatchDog, the NX of SETNX).
OnlyOwnerReleases ==
  [][\A u \in Users, c \in Consumers :
       lock[u] = c /\ lock'[u] # c =>
         \/ \E i \in Ids : Inside(c, i) /\ UserOf(i) = u /\ pc[c] = "unlock" /\ pc'[c] = "settle"
         \/ c \in lapsed'
         \/ crashes' = crashes + 1]_vars

\* The sale that the pipeline implements: a purchase is reserved with its
\* message, fulfilled with its row, abandoned with its dead letter (stored or
\* not), settled with its acknowledgement.
PairsOf(S) == {<<UserOf(i), VoucherOf(i)>> : i \in S}
Sale == INSTANCE SeckillSale WITH
          reserved  <- PairsOf(1..Len(stream)),
          fulfilled <- PairsOf(orders),
          abandoned <- PairsOf(dead \cup dropped),
          settled   <- PairsOf(Acked)
SaleSpec == Sale!Spec

\* A user's lock keeps TokenLock's promise to the two goroutines, whichever of
\* its messages they handle.
LockPhase(c, u) ==
  IF InsideFor(c, u) THEN IF pc[c] = "unlock" THEN "leaving" ELSE "in" ELSE "out"

LockOf(u) == INSTANCE TokenLock WITH
               Parties <- Consumers,
               word    <- lock[u],
               phase   <- [c \in Consumers |-> LockPhase(c, u)],
               faulty  <- faults > 0

LocksKeepPromise ==
  /\ \A u \in Users : LockOf(u)!Init
  /\ [][\A u \in Users : [LockOf(u)!Next]_(LockOf(u)!lockVars)]_vars

\* Every queued message is acknowledged in the end: it becomes an order or is
\* given up, in spite of a busy or abandoned lock, failed calls and restarts.
EveryMessageSettles == \A i \in Ids : i <= Len(stream) ~> i \in Acked

\* No user's lock stays taken for ever: unlocks, the watchdog's end and the
\* TTL free it, also after a restart or an unlock that failed.
LocksAreFreed == \A u \in Users : lock[u] # "free" ~> lock[u] = "free"

(***************************************************************************)
(* What makes the safety properties inductive.                             *)
(***************************************************************************)
\* A goroutine that tries a message has tries left.
CountBelowLimit ==
  pc["pending"] \in {"lock", "check", "write", "unlock", "settle"} => cnt < MaxRetries

StreamDistinct == \A i, j \in 1..Len(stream) : stream[i] = stream[j] => i = j

StreamReserved == \A i \in 1..Len(stream) : UserOf(i) \in buyers[VoucherOf(i)]

\* A unit leaves Redis's stock with a buyer and with a message.
StockReserved ==
  \A v \in Vouchers : /\ stock[v] + Cardinality(buyers[v]) = Stock[v]
                      /\ stock[v] + Cardinality(MessagesOf(v)) = Stock[v]

\* A success that is about to be acknowledged is an order.
ResultIsOrder ==
  \A c \in Consumers :
    ok[c] => /\ pc[c] \in {"unlock", "settle", "clear"}
             /\ \A i \in Ids : IsNext(c, i) => i \in orders

DeadAckIsGivenUp == \A i \in Ids : At("pending", i, "deadack") => i \in dead \cup dropped

\* The lock word names the goroutine inside, unless its key expired.
LockHeld ==
  \A c \in Consumers, i \in Ids :
    Inside(c, i) /\ c \notin lapsed => lock[UserOf(i)] = c

IndInv ==
  /\ TypeOK /\ CountBelowLimit
  /\ StreamDistinct /\ StreamReserved /\ StockReserved
  /\ StockConserved
  /\ ResultIsOrder /\ DeadAckIsGivenUp /\ NothingForgotten
  /\ LockHeld

(***************************************************************************)
(* A claim of the source's comments that the code does not keep (README).  *)
(***************************************************************************)
\* VoucherOrderService.go:176 "on the last retry: moved to the dead-letter
\* queue": a message that is acknowledged without an order is in that queue.
GivenUpIsInDeadLetterStream == Acked \subseteq orders \cup dead

=============================================================================
