------------------------ MODULE VoucherOrder_proofs ------------------------
(***************************************************************************)
(* Theorems about VoucherOrder, for any customers, vouchers, stocks, batch *)
(* sizes, retry limits, library behaviours and bounds.                     *)
(***************************************************************************)
EXTENDS VoucherOrder, TLAPS, FiniteSetTheorems

-----------------------------------------------------------------------------
(***************************************************************************)
(* What a read returns.                                                    *)
(***************************************************************************)
LEMMA FirstNSubset == ASSUME NEW S, NEW n PROVE FirstN(S, n) \subseteq S
BY DEF FirstN

LEMMA CardinalityBelow ==
  ASSUME NEW a \in Nat, NEW b \in Nat, NEW i \in a + 1 .. b
  PROVE  Cardinality({j \in a + 1 .. b : j < i}) = i - (a + 1)
<1>1. {j \in a + 1 .. b : j < i} = a + 1 .. i - 1
  OBVIOUS
<1>2. Cardinality(a + 1 .. i - 1) = i - (a + 1)
  <2>1. a + 1 \in Int /\ i - 1 \in Int /\ i >= a + 1
    OBVIOUS
  <2>2. Cardinality(a + 1 .. i - 1) = IF a + 1 > i - 1 THEN 0 ELSE (i - 1) - (a + 1) + 1
    BY <2>1, FS_Interval
  <2> QED BY <2>1, <2>2
<1> QED BY <1>1, <1>2, Zenon

\* New messages are the ids after the last delivered one, without a gap.
LEMMA FirstNOfInterval ==
  ASSUME NEW a \in Nat, NEW b \in Nat, NEW n \in Nat \ {0}, a <= b
  PROVE  \E d \in a..b :
           /\ FirstN(a + 1 .. b, n) = a + 1 .. d
           /\ Cardinality(a + 1 .. d) = d - a
           /\ a < b => a < d
<1> DEFINE d == IF a + n <= b THEN a + n ELSE b
<1>1. d \in a..b /\ (a < b => a < d)
  OBVIOUS
<1>2. FirstN(a + 1 .. b, n) = a + 1 .. d
  <2>1. FirstN(a + 1 .. b, n) = {i \in a + 1 .. b : i - (a + 1) < n}
    BY CardinalityBelow, Zenon DEF FirstN
  <2>2. {i \in a + 1 .. b : i - (a + 1) < n} = a + 1 .. d
    OBVIOUS
  <2> QED BY <2>1, <2>2, Zenon
<1>3. Cardinality(a + 1 .. d) = d - a
  <2>1. a + 1 \in Int /\ d \in Int /\ d >= a
    OBVIOUS
  <2>2. Cardinality(a + 1 .. d) = IF a + 1 > d THEN 0 ELSE d - (a + 1) + 1
    <3> HIDE DEF d
    <3> QED BY <2>1, FS_Interval
  <2> HIDE DEF d
  <2> QED BY <2>1, <2>2
<1> HIDE DEF d
<1> QED BY <1>1, <1>2, <1>3

-----------------------------------------------------------------------------
(***************************************************************************)
(* Type correctness.                                                       *)
(***************************************************************************)
Typing == TypeOK /\ CountBelowLimit

USE SaleAssumption, RetryAssumption, LibraryAssumption, BoundAssumption

LEMMA InitTyping == Init => Typing
BY DEF Init, Typing, TypeOK, CountBelowLimit, Ids, Consumers, Tokens, Phases, Message

\* The parts of the type invariant that a step of a goroutine can disturb.
ProcTyping ==
  /\ pc \in [Consumers -> Phases]
  /\ batch \in [Consumers -> SUBSET (1..delivered)]
  /\ ok \in [Consumers -> BOOLEAN]
  /\ cnt \in 0..MaxRetries
  /\ CountBelowLimit

LEMMA NextMessageTyping ==
  ASSUME Typing, NEW c \in Consumers, NEW i, NextMessage(c, i), UNCHANGED delivered
  PROVE  ProcTyping'
<1> USE DEF Typing, TypeOK, NextMessage, Goto, Start, Consumers, Phases
<1>1. batch' \in [Consumers -> SUBSET (1..delivered')]
  OBVIOUS
<1>2. pc' \in [Consumers -> Phases] /\ ok' \in [Consumers -> BOOLEAN] /\ cnt' \in 0..MaxRetries
  OBVIOUS
<1>3. CountBelowLimit'
  <2>1. CASE c = "sync"
    BY <2>1 DEF CountBelowLimit
  <2>2. CASE c = "pending"
    BY <2>2 DEF CountBelowLimit
  <2> QED BY <2>1, <2>2
<1> QED BY <1>1, <1>2, <1>3 DEF ProcTyping

\* A step of processing takes c to another phase and writes nothing but the
\* lock, the stores and what c remembers of them.
LEMMA PhaseTyping ==
  ASSUME Typing, NEW c \in Consumers, NEW i, NEW p \in {"check", "write", "unlock", "settle"},
         pc[c] \in {"lock", "check", "write", "unlock"}, Goto(c, p), KeepsQueue
  PROVE  pc' \in [Consumers -> Phases] /\ CountBelowLimit' /\ cnt' = cnt
<1>1. /\ pc \in [Consumers -> Phases] /\ cnt' = cnt
      /\ pc["pending"] \in {"lock", "check", "write", "unlock", "settle"} => cnt < MaxRetries
  BY DEF Typing, TypeOK, CountBelowLimit, KeepsQueue
<1>2. pc' = [pc EXCEPT ![c] = p]
  BY DEF Goto
<1>3. pc' \in [Consumers -> Phases]
  BY <1>1, <1>2 DEF Phases
<1>4. pc["pending"] = pc'["pending"] \/ c = "pending"
  BY <1>1, <1>2
<1>5. CountBelowLimit'
  BY <1>1, <1>4 DEF CountBelowLimit
<1> QED BY <1>1, <1>3, <1>5

LEMMA StepTyping ==
  ASSUME Typing, NEW c \in Consumers, NEW p \in {"check", "write", "unlock", "settle"},
         pc[c] \in {"lock", "check", "write", "unlock"}, Goto(c, p), KeepsQueue,
         lock' \in [Users -> Tokens], lapsed' \subseteq Consumers,
         dbStock' \in [Vouchers -> Nat], orders' \subseteq 1..delivered,
         ok' \in [Consumers -> BOOLEAN], Fault \/ NoFault
  PROVE  Typing'
<1>1. pc' \in [Consumers -> Phases] /\ CountBelowLimit' /\ cnt' = cnt
  BY PhaseTyping
<1>2. UNCHANGED <<requestVars, groupVars, retry, deadVars, batch>>
  BY DEF KeepsQueue
<1>3. faults' \in 0..MaxFaults /\ crashes' \in 0..MaxCrashes
  BY DEF Typing, TypeOK, Fault, NoFault, boundVars
<1> QED BY <1>1, <1>2, <1>3 DEF Typing, TypeOK, requestVars, groupVars, deadVars

\* A processing step of c moves c from one phase to a later one.
LEMMA ProcessTyping ==
  ASSUME Typing, NEW c \in Consumers, NEW i \in Ids,
         \/ Lock(c, i) \/ LockError(c, i) \/ Check(c, i) \/ CheckError(c, i)
         \/ CreateOrder(c, i) \/ CreateOrderError(c, i) \/ CommitReplyLost(c, i)
         \/ Unlock(c, i) \/ UnlockError(c, i)
  PROVE  Typing'
<1>0. i \in 1..delivered /\ i \in 1..Len(stream) /\ UserOf(i) \in Users /\ VoucherOf(i) \in Vouchers
  <2>1. At(c, i, pc[c])
    BY DEF Lock, LockError, Check, CheckError, CreateOrder, CreateOrderError,
           CommitReplyLost, Unlock, UnlockError, At
  <2>2. i \in 1..delivered /\ i \in 1..Len(stream)
    BY <2>1 DEF Typing, TypeOK, At, IsNext
  <2>3. stream[i] \in Message
    BY <2>2 DEF Typing, TypeOK
  <2> QED BY <2>2, <2>3 DEF UserOf, VoucherOf, Message
<1>10. /\ lock \in [Users -> Tokens] /\ lapsed \subseteq Consumers /\ dbStock \in [Vouchers -> Nat]
       /\ orders \subseteq 1..delivered /\ ok \in [Consumers -> BOOLEAN]
  BY DEF Typing, TypeOK
<1>11. \A t \in Tokens : [lock EXCEPT ![UserOf(i)] = t] \in [Users -> Tokens]
  BY <1>0, <1>10
<1>12. c \in Tokens /\ "free" \in Tokens /\ "orphan" \in Tokens
  BY DEF Tokens
<1>13. ASSUME InsertOrder(i), Insertable(i)
       PROVE  dbStock' \in [Vouchers -> Nat] /\ orders' \subseteq 1..delivered
  BY <1>0, <1>10, <1>13 DEF Insertable, InStock, InsertOrder
<1>1. CASE Lock(c, i)
  <2>1. PICK p \in {"check", "settle"} : Goto(c, p)
    BY <1>1 DEF Lock
  <2>2. pc[c] = "lock" /\ KeepsQueue /\ NoFault /\ UNCHANGED <<lapsed, dbVars, ok>>
    BY <1>1 DEF Lock, At
  <2>3. lock' \in [Users -> Tokens]
    BY <1>1, <1>10, <1>11, <1>12 DEF Lock
  <2> QED BY <1>10, <2>1, <2>2, <2>3, StepTyping DEF dbVars
<1>2. CASE LockError(c, i)
  <2>1. pc[c] = "lock" /\ Goto(c, "settle") /\ KeepsQueue /\ Fault /\ UNCHANGED <<lapsed, dbVars, ok>>
    BY <1>2 DEF LockError, At
  <2>2. lock' \in [Users -> Tokens]
    BY <1>2, <1>10, <1>11, <1>12 DEF LockError
  <2> QED BY <1>10, <2>1, <2>2, StepTyping DEF dbVars
<1>3. CASE Check(c, i)
  <2>1. PICK p \in {"unlock", "write"} : Goto(c, p)
    BY <1>3 DEF Check
  <2>2. pc[c] = "check" /\ KeepsQueue /\ NoFault /\ UNCHANGED <<lock, lapsed, dbVars, ok>>
    BY <1>3 DEF Check, At
  <2> QED BY <1>10, <2>1, <2>2, StepTyping DEF dbVars
<1>4. CASE CreateOrder(c, i)
  <2>1. ok' \in [Consumers -> BOOLEAN]
    <3>1. Insertable(i) \in BOOLEAN
      BY DEF Insertable, InStock
    <3> QED BY <1>4, <1>10, <3>1 DEF CreateOrder
  <2>2. dbStock' \in [Vouchers -> Nat] /\ orders' \subseteq 1..delivered
    <3>1. CASE Insertable(i) /\ InsertOrder(i)
      BY <1>13, <3>1
    <3>2. CASE UNCHANGED dbVars
      BY <1>10, <3>2 DEF dbVars
    <3> QED BY <1>4, <3>1, <3>2, Zenon DEF CreateOrder
  <2>3. pc[c] = "write" /\ Goto(c, "unlock") /\ KeepsQueue /\ NoFault /\ UNCHANGED <<lock, lapsed>>
    BY <1>4, Zenon DEF CreateOrder, At
  <2> QED BY <1>10, <2>1, <2>2, <2>3, StepTyping
<1>5. CASE CheckError(c, i) \/ CreateOrderError(c, i)
  <2>1. /\ pc[c] \in {"check", "write"} /\ Goto(c, "unlock") /\ KeepsQueue /\ Fault
        /\ UNCHANGED <<lock, lapsed, dbVars, ok>>
    BY <1>5 DEF CheckError, CreateOrderError, At
  <2> QED BY <1>10, <2>1, StepTyping DEF dbVars
<1>6. CASE CommitReplyLost(c, i)
  <2>1. /\ pc[c] = "write" /\ Goto(c, "unlock") /\ KeepsQueue /\ Fault
        /\ UNCHANGED <<lock, lapsed, ok>>
    BY <1>6 DEF CommitReplyLost, At
  <2>2. Insertable(i) /\ InsertOrder(i)
    BY <1>6 DEF CommitReplyLost
  <2> QED BY <1>10, <1>13, <2>1, <2>2, StepTyping
<1>7. CASE Unlock(c, i) \/ UnlockError(c, i)
  <2>1. /\ pc[c] = "unlock" /\ Goto(c, "settle") /\ KeepsQueue /\ (Fault \/ NoFault)
        /\ UNCHANGED <<dbVars, ok>> /\ lapsed' = lapsed \ {c}
    BY <1>7 DEF Unlock, UnlockError, At
  <2>2. lock' \in [Users -> Tokens]
    BY <1>7, <1>10, <1>11, <1>12 DEF Unlock, UnlockError
  <2> QED BY <1>10, <2>1, <2>2, StepTyping DEF dbVars
<1> QED BY <1>1, <1>2, <1>3, <1>4, <1>5, <1>6, <1>7

LEMMA RequestTyping ==
  ASSUME Typing, NEW u \in Users, NEW v \in Vouchers, SeckillVoucher(u, v)
  PROVE  Typing'
<1> USE DEF Typing, TypeOK
<1> DEFINE m == [user |-> u, voucher |-> v]
<1>1. m \in Message
  BY DEF Message
<1>2. stream' \in Seq(Message) /\ Len(stream') = Len(stream) + 1
  <2>1. stream' = Append(stream, m)
    BY DEF SeckillVoucher
  <2> HIDE DEF m
  <2> QED BY <1>1, <2>1
<1>3. stock' \in [Vouchers -> Nat] /\ buyers' \in [Vouchers -> SUBSET Users]
  BY DEF SeckillVoucher
<1>4. Len(stream') <= MaxMsgs /\ delivered \in 0..Len(stream')
  BY <1>2 DEF SeckillVoucher
<1>5. UNCHANGED <<groupVars, retry, lock, deadVars, lapsed, dbVars, procVars, boundVars>>
  BY DEF SeckillVoucher, NoFault
<1> QED
  BY <1>2, <1>3, <1>4, <1>5
  DEF groupVars, deadVars, dbVars, procVars, boundVars, CountBelowLimit

LEMMA DeliverTyping ==
  ASSUME Typing, Deliver
  PROVE  /\ delivered' \in 0..Len(stream')
         /\ NewMessages \subseteq 1..delivered'
         /\ 1..delivered \subseteq 1..delivered'
         /\ pel' \subseteq 1..delivered'
         /\ Acked' = Acked
<1> USE DEF Typing, TypeOK
<1>1. stream' = stream /\ Len(stream) \in Nat /\ delivered \in Nat /\ delivered <= Len(stream)
  BY DEF Deliver, requestVars
<1>2. PICK d \in delivered..Len(stream) :
         /\ NewMessages = delivered + 1 .. d
         /\ Cardinality(delivered + 1 .. d) = d - delivered
  BY <1>1, FirstNOfInterval DEF NewMessages
<1>3. delivered' = d /\ pel' = pel \cup (delivered + 1 .. d)
  BY <1>1, <1>2 DEF Deliver
<1>4. d \in Nat /\ delivered <= d /\ d <= Len(stream) /\ pel \subseteq 1..delivered
  BY <1>1
<1>5. \A k : (k \in 1..d /\ k \notin pel') <=> (k \in 1..delivered /\ k \notin pel)
  BY <1>1, <1>3, <1>4
<1> QED BY <1>1, <1>2, <1>3, <1>4, <1>5 DEF Acked

LEMMA ReadTyping ==
  ASSUME Typing, ReadNew \/ ReadNewLost \/ ReadPending
  PROVE  Typing'
<1> USE DEF Typing, TypeOK, requestVars, groupVars, deadVars, dbVars, boundVars, Fault, NoFault
<1>1. CASE ReadNew
  <2>1. Deliver
    BY <1>1 DEF ReadNew
  <2>2. batch' \in [Consumers -> SUBSET (1..delivered')]
    BY <1>1, <2>1, DeliverTyping DEF ReadNew
  <2>3. pc' \in [Consumers -> Phases] /\ CountBelowLimit'
    BY <1>1, <2>1 DEF ReadNew, Goto, Deliver, CountBelowLimit, Consumers, Phases
  <2>4. UNCHANGED <<requestVars, retry, lock, deadVars, lapsed, dbVars, ok, cnt, boundVars>>
    BY <1>1 DEF ReadNew, Deliver
  <2>5. /\ delivered' \in 0..Len(stream') /\ pel' \subseteq 1..delivered'
        /\ 1..delivered \subseteq 1..delivered'
    BY <2>1, DeliverTyping
  <2> QED BY <2>2, <2>3, <2>4, <2>5
<1>2. CASE ReadNewLost
  <2>1. Deliver
    BY <1>2 DEF ReadNewLost
  <2>2. /\ delivered' \in 0..Len(stream') /\ pel' \subseteq 1..delivered'
        /\ 1..delivered \subseteq 1..delivered'
    BY <2>1, DeliverTyping
  <2>3. UNCHANGED <<requestVars, retry, lock, deadVars, lapsed, dbVars, ok, cnt, pc, batch, crashes>>
    BY <1>2 DEF ReadNewLost, Deliver
  <2>4. batch' \in [Consumers -> SUBSET (1..delivered')]
    BY <2>2, <2>3
  <2>5. faults' \in 0..MaxFaults
    BY <1>2 DEF ReadNewLost
  <2> QED BY <2>2, <2>3, <2>4, <2>5 DEF CountBelowLimit
<1>3. CASE ReadPending
  <2>1. FirstN(pel, PendingCount) \subseteq 1..delivered
    BY FirstNSubset
  <2>2. batch' \in [Consumers -> SUBSET (1..delivered')]
    BY <1>3, <2>1 DEF ReadPending
  <2>3. pc' \in [Consumers -> Phases] /\ CountBelowLimit'
    BY <1>3 DEF ReadPending, Goto, CountBelowLimit, Consumers, Phases
  <2> QED BY <1>3, <2>2, <2>3 DEF ReadPending
<1> QED BY <1>1, <1>2, <1>3

\* The steps in which a loop acts on a result.
LoopStep(i) ==
  \/ SyncSettle(i) \/ SyncAckError(i) \/ GetRetryCount(i) \/ GetRetryCountError(i)
  \/ PendingSettle(i) \/ PendingSettleError(i) \/ DeadLetter(i) \/ DeadLetterError(i)
  \/ DeadAck(i) \/ DeadAckError(i) \/ ClearRetryCount(i) \/ ClearRetryCountError(i)

LEMMA LoopTyping ==
  ASSUME Typing, NEW i \in Ids, LoopStep(i)
  PROVE  Typing'
<1> USE DEF KeepsStores, requestVars, deadVars, dbVars, boundVars, Fault, NoFault
<1>1. i \in 1..delivered
  BY DEF LoopStep, SyncSettle, SyncAckError, GetRetryCount, GetRetryCountError, StartTry,
         PendingSettle, PendingSettleError, DeadLetter, DeadLetterError, DeadAck,
         DeadAckError, ClearRetryCount, ClearRetryCountError, At, IsNext, Typing, TypeOK,
         Consumers
<1>2. ProcTyping'
  <2>1. CASE NextMessage("sync", i) /\ UNCHANGED delivered
    BY <2>1, NextMessageTyping DEF Consumers
  <2>2. CASE NextMessage("pending", i) /\ UNCHANGED delivered
    BY <2>2, NextMessageTyping DEF Consumers
  <2>3. CASE \E n \in 0..MaxRetries : StartTry(i, n)
    BY <2>3
    DEF StartTry, Goto, ProcTyping, CountBelowLimit, Typing, TypeOK, Consumers, Phases
  <2>4. CASE /\ \E p \in {"deadack", "clear"} : Goto("pending", p)
             /\ UNCHANGED <<batch, ok, cnt, delivered>>
    BY <2>4 DEF Goto, ProcTyping, CountBelowLimit, Typing, TypeOK, Consumers, Phases
  <2>5. retry[i] \in 0..MaxRetries /\ 0 \in 0..MaxRetries
    BY DEF Typing, TypeOK
  <2> QED
    BY <2>1, <2>2, <2>3, <2>4, <2>5
    DEF LoopStep, SyncSettle, SyncAckError, GetRetryCount, GetRetryCountError,
        PendingSettle, PendingSettleError, DeadLetter, DeadLetterError, DeadAck,
        DeadAckError, ClearRetryCount, ClearRetryCountError
<1>3. retry' \in [Ids -> 0..MaxRetries]
  <2>1. CASE retry' = retry
    BY <2>1 DEF Typing, TypeOK
  <2>2. CASE ClearRetryCount(i)
    BY <2>2 DEF ClearRetryCount, Typing, TypeOK
  <2>3. CASE PendingSettle(i)
    <3>1. cnt + 1 \in 0..MaxRetries
      BY <2>3 DEF PendingSettle, At, Typing, TypeOK, CountBelowLimit
    <3> QED BY <2>3, <3>1 DEF PendingSettle, Typing, TypeOK
  <2> QED
    BY <2>1, <2>2, <2>3
    DEF LoopStep, SyncSettle, SyncAckError, GetRetryCount, GetRetryCountError, StartTry,
        PendingSettleError, DeadLetter, DeadLetterError, DeadAck, DeadAckError,
        ClearRetryCountError
<1>4. pel' \subseteq pel /\ dead' \subseteq dead \cup {i} /\ dropped' \subseteq dropped \cup {i}
  BY DEF LoopStep, SyncSettle, SyncAckError, GetRetryCount, GetRetryCountError, StartTry,
         PendingSettle, PendingSettleError, DeadLetter, DeadLetterError, DeadAck,
         DeadAckError, ClearRetryCount, ClearRetryCountError, Ack
<1>5. UNCHANGED <<requestVars, delivered, lock, lapsed, dbVars, crashes>> /\ faults' \in 0..MaxFaults
  BY DEF LoopStep, SyncSettle, SyncAckError, GetRetryCount, GetRetryCountError, StartTry,
         PendingSettle, PendingSettleError, DeadLetter, DeadLetterError, DeadAck,
         DeadAckError, ClearRetryCount, ClearRetryCountError, Typing, TypeOK
<1> QED BY <1>1, <1>2, <1>3, <1>4, <1>5 DEF Typing, TypeOK, ProcTyping

LEMMA TimeTyping ==
  ASSUME Typing, (\E u \in Users : Lapse(u) \/ Expire(u)) \/ Crash
  PROVE  Typing'
<1> USE DEF Typing, TypeOK, CountBelowLimit, requestVars, groupVars, deadVars, dbVars, procVars,
            boundVars, Fault, NoFault, Tokens, Consumers
<1>1. ASSUME NEW u \in Users, Lapse(u) PROVE Typing'
  <2>1. lock' \in [Users -> Tokens] /\ lapsed' \subseteq Consumers
    BY <1>1 DEF Lapse
  <2> QED BY <1>1, <2>1 DEF Lapse
<1>2. ASSUME NEW u \in Users, Expire(u) PROVE Typing'
  BY <1>2 DEF Expire
<1>3. CASE Crash
  <2>1. lock' \in [Users -> Tokens]
    BY <1>3 DEF Crash
  <2> QED BY <1>3, <2>1 DEF Crash, Phases
<1> QED BY <1>1, <1>2, <1>3

\* The next-state relation, sorted by what a step can disturb.
LEMMA NextCases ==
  ASSUME [Next]_vars
  PROVE  \/ \E u \in Users, v \in Vouchers : SeckillVoucher(u, v)
         \/ ReadNew \/ ReadNewLost \/ ReadPending
         \/ \E c \in Consumers, i \in Ids :
              \/ Lock(c, i) \/ LockError(c, i) \/ Check(c, i) \/ CheckError(c, i)
              \/ CreateOrder(c, i) \/ CreateOrderError(c, i) \/ CommitReplyLost(c, i)
              \/ Unlock(c, i) \/ UnlockError(c, i)
         \/ \E i \in Ids : LoopStep(i)
         \/ \E u \in Users : Lapse(u) \/ Expire(u)
         \/ Crash
         \/ UNCHANGED vars
BY Zenon DEF Next, SyncStep, PendingStep, Failure, Process, LoopStep, Consumers

LEMMA NextTyping == Typing /\ [Next]_vars => Typing'
<1> SUFFICES ASSUME Typing, [Next]_vars PROVE Typing'
  OBVIOUS
<1>1. CASE UNCHANGED vars
  BY <1>1 DEF Typing, TypeOK, CountBelowLimit, vars, requestVars, groupVars, deadVars,
              dbVars, procVars, boundVars
<1> QED
  BY <1>1, NextCases, RequestTyping, ReadTyping, ProcessTyping, LoopTyping, TimeTyping

\* The type invariant holds in every state.
THEOREM TypeCorrect == Spec => []TypeOK
<1>1. Typing => TypeOK
  BY DEF Typing
<1> QED BY InitTyping, NextTyping, <1>1, PTL DEF Spec

-----------------------------------------------------------------------------
(***************************************************************************)
(* Who changes what: a step leaves the stream, the stocks and the orders   *)
(* alone unless it is the one action that writes them.                     *)
(***************************************************************************)
LEMMA RequestVarsStep ==
  ASSUME [Next]_vars
  PROVE  \/ UNCHANGED requestVars
         \/ \E u \in Users, v \in Vouchers : SeckillVoucher(u, v)
<1> USE DEF requestVars, KeepsQueue, KeepsStores
<1>1. ASSUME NEW c \in Consumers, NEW i \in Ids,
             \/ Lock(c, i) \/ LockError(c, i) \/ Check(c, i) \/ CheckError(c, i)
             \/ CreateOrder(c, i) \/ CreateOrderError(c, i) \/ CommitReplyLost(c, i)
             \/ Unlock(c, i) \/ UnlockError(c, i)
      PROVE  UNCHANGED requestVars
  BY <1>1 DEF Lock, LockError, Check, CheckError, CreateOrder, CreateOrderError,
              CommitReplyLost, Unlock, UnlockError
<1>2. ASSUME NEW i \in Ids, LoopStep(i) PROVE UNCHANGED requestVars
  BY <1>2 DEF LoopStep, SyncSettle, SyncAckError, GetRetryCount, GetRetryCountError, StartTry,
              PendingSettle, PendingSettleError, DeadLetter, DeadLetterError, DeadAck,
              DeadAckError, ClearRetryCount, ClearRetryCountError
<1>3. ASSUME ReadNew \/ ReadNewLost \/ ReadPending PROVE UNCHANGED requestVars
  BY <1>3 DEF ReadNew, ReadNewLost, ReadPending, Deliver
<1>4. ASSUME NEW u \in Users, Lapse(u) \/ Expire(u) PROVE UNCHANGED requestVars
  BY <1>4 DEF Lapse, Expire
<1>5. CASE Crash \/ UNCHANGED vars
  BY <1>5 DEF Crash, vars
<1> QED BY <1>1, <1>2, <1>3, <1>4, <1>5, NextCases

LEMMA OrdersStep ==
  ASSUME [Next]_vars
  PROVE  \/ UNCHANGED dbVars
         \/ \E c \in Consumers, i \in Ids :
              At(c, i, "write") /\ Insertable(i) /\ InsertOrder(i) /\ UNCHANGED requestVars
<1> USE DEF dbVars, KeepsStores
<1>1. ASSUME NEW c \in Consumers, NEW i \in Ids,
             \/ Lock(c, i) \/ LockError(c, i) \/ Check(c, i) \/ CheckError(c, i)
             \/ CreateOrderError(c, i) \/ Unlock(c, i) \/ UnlockError(c, i)
      PROVE  UNCHANGED dbVars
  BY <1>1 DEF Lock, LockError, Check, CheckError, CreateOrderError, Unlock, UnlockError
<1>2. ASSUME NEW c \in Consumers, NEW i \in Ids, CreateOrder(c, i) \/ CommitReplyLost(c, i)
      PROVE  \/ UNCHANGED dbVars
             \/ At(c, i, "write") /\ Insertable(i) /\ InsertOrder(i) /\ UNCHANGED requestVars
  BY <1>2, Zenon DEF CreateOrder, CommitReplyLost, KeepsQueue, requestVars
<1>3. ASSUME NEW i \in Ids, LoopStep(i) PROVE UNCHANGED dbVars
  BY <1>3 DEF LoopStep, SyncSettle, SyncAckError, GetRetryCount, GetRetryCountError, StartTry,
              PendingSettle, PendingSettleError, DeadLetter, DeadLetterError, DeadAck,
              DeadAckError, ClearRetryCount, ClearRetryCountError
<1>4. ASSUME ReadNew \/ ReadNewLost \/ ReadPending PROVE UNCHANGED dbVars
  BY <1>4 DEF ReadNew, ReadNewLost, ReadPending, Deliver
<1>5. ASSUME NEW u \in Users, Lapse(u) \/ Expire(u) PROVE UNCHANGED dbVars
  BY <1>5 DEF Lapse, Expire
<1>6. CASE Crash \/ UNCHANGED vars
  BY <1>6 DEF Crash, vars
<1>7. ASSUME NEW u \in Users, NEW v \in Vouchers, SeckillVoucher(u, v) PROVE UNCHANGED dbVars
  BY <1>7 DEF SeckillVoucher
<1> QED BY <1>1, <1>2, <1>3, <1>4, <1>5, <1>6, <1>7, NextCases

-----------------------------------------------------------------------------
(***************************************************************************)
(* The reservations of the Lua script.                                     *)
(***************************************************************************)
Reservations == StreamDistinct /\ StreamReserved /\ StockReserved

LEMMA MessageKinds ==
  ASSUME TypeOK, NEW i \in 1..Len(stream)
  PROVE  stream[i] \in Message /\ UserOf(i) \in Users /\ VoucherOf(i) \in Vouchers
<1>1. stream[i] \in Message
  BY DEF TypeOK
<1> QED BY <1>1 DEF UserOf, VoucherOf, Message

LEMMA MessagesFinite ==
  ASSUME TypeOK, NEW v
  PROVE  /\ IsFiniteSet(MessagesOf(v))
         /\ orders \subseteq 1..Len(stream)
         /\ OrdersOf(v) \subseteq MessagesOf(v)
         /\ IsFiniteSet(OrdersOf(v))
<1>1. IsFiniteSet(1..Len(stream))
  <2>1. Len(stream) \in Int
    BY DEF TypeOK
  <2> QED BY <2>1, FS_Interval
<1>2. MessagesOf(v) \subseteq 1..Len(stream)
  BY DEF MessagesOf
<1>3. orders \subseteq 1..Len(stream)
  BY DEF TypeOK
<1>4. OrdersOf(v) \subseteq MessagesOf(v)
  BY <1>3 DEF OrdersOf, MessagesOf
<1>5. IsFiniteSet(MessagesOf(v))
  BY <1>1, <1>2, FS_Subset
<1> QED BY <1>3, <1>4, <1>5, FS_Subset

LEMMA InitReservations == Init => Reservations
<1> SUFFICES ASSUME Init PROVE Reservations
  OBVIOUS
<1>1. Len(stream) = 0 /\ 1..Len(stream) = {}
  BY DEF Init
<1>2. ASSUME NEW v \in Vouchers
      PROVE  /\ stock[v] + Cardinality(buyers[v]) = Stock[v]
             /\ stock[v] + Cardinality(MessagesOf(v)) = Stock[v]
  <2>1. MessagesOf(v) = {} /\ buyers[v] = {}
    BY <1>1 DEF MessagesOf, Init
  <2>2. stock[v] = Stock[v] /\ Stock[v] \in Nat
    BY DEF Init
  <2> QED BY <2>1, <2>2, FS_EmptySet
<1> QED BY <1>1, <1>2 DEF Reservations, StreamDistinct, StreamReserved, StockReserved

LEMMA RequestReservations ==
  ASSUME Typing, Reservations, NEW u \in Users, NEW v \in Vouchers, SeckillVoucher(u, v)
  PROVE  Reservations'
<1> DEFINE m == [user |-> u, voucher |-> v]
<1>0. PICK n \in Nat : n = Len(stream)
  BY DEF Typing, TypeOK
<1>1. stream \in Seq(Message) /\ m \in Message
  BY DEF Typing, TypeOK, Message
<1>2. /\ Len(stream') = n + 1
      /\ stream'[n + 1] = m
      /\ \A i \in 1..n : stream'[i] = stream[i]
  <2>1. stream' = Append(stream, m)
    BY DEF SeckillVoucher
  <2> HIDE DEF m
  <2> QED BY <1>0, <1>1, <2>1
<1>3. 1..Len(stream') = (1..n) \cup {n + 1} /\ n + 1 \notin 1..n
  BY <1>1, <1>2
<1>4. \A i \in 1..n : UserOf(i)' = UserOf(i) /\ VoucherOf(i)' = VoucherOf(i)
  BY <1>2, Zenon DEF UserOf, VoucherOf
<1>5. UserOf(n + 1)' = u /\ VoucherOf(n + 1)' = v
  BY <1>2 DEF UserOf, VoucherOf
<1>6. buyers' = [buyers EXCEPT ![v] = @ \cup {u}] /\ u \notin buyers[v]
  BY DEF SeckillVoucher
<1>7. buyers \in [Vouchers -> SUBSET Users]
  BY DEF Typing, TypeOK
<1>8. StreamReserved'
  <2>1. ASSUME NEW i \in 1..n PROVE UserOf(i)' \in buyers'[VoucherOf(i)']
    <3>1. UserOf(i) \in buyers[VoucherOf(i)] /\ VoucherOf(i) \in Vouchers
      BY <1>0, MessageKinds DEF Reservations, StreamReserved, Typing
    <3> QED BY <1>4, <1>6, <1>7, <3>1
  <2>2. UserOf(n + 1)' \in buyers'[VoucherOf(n + 1)']
    BY <1>5, <1>6, <1>7
  <2> QED BY <1>3, <2>1, <2>2 DEF StreamReserved
<1>9. StreamDistinct'
  <2>1. ASSUME NEW i \in 1..n PROVE stream[i] # m
    <3>1. UserOf(i) \in buyers[VoucherOf(i)]
      BY <1>0 DEF Reservations, StreamReserved
    <3> QED BY <1>6, <3>1 DEF UserOf, VoucherOf
  <2>2. \A i, j \in 1..n : stream'[i] = stream'[j] => i = j
    BY <1>0, <1>2 DEF Reservations, StreamDistinct
  <2> HIDE DEF m
  <2>3. \A i, j \in (1..n) \cup {n + 1} : stream'[i] = stream'[j] => i = j
    BY <1>2, <2>1, <2>2
  <2> QED BY <1>3, <2>3 DEF StreamDistinct
<1>10. StockReserved'
  <2> SUFFICES ASSUME NEW w \in Vouchers
               PROVE  /\ stock'[w] + Cardinality(buyers'[w]) = Stock[w]
                      /\ stock'[w] + Cardinality(MessagesOf(w)') = Stock[w]
    BY DEF StockReserved
  <2>1. /\ stock[w] + Cardinality(buyers[w]) = Stock[w]
        /\ stock[w] + Cardinality(MessagesOf(w)) = Stock[w]
    BY DEF Reservations, StockReserved
  <2>2. stock \in [Vouchers -> Nat] /\ stock' = [stock EXCEPT ![v] = @ - 1]
    BY DEF Typing, TypeOK, SeckillVoucher
  <2>3. IsFiniteSet(buyers[w]) /\ IsFiniteSet(MessagesOf(w))
    BY <1>7, FS_Subset, MessagesFinite DEF Typing
  <2>4. Cardinality(buyers[w]) \in Nat /\ Cardinality(MessagesOf(w)) \in Nat
    BY <2>3, FS_CardinalityType
  <2>5. CASE w = v
    <3>1. buyers'[w] = buyers[w] \cup {u} /\ u \notin buyers[w]
      BY <1>6, <1>7, <2>5
    <3>2. MessagesOf(w)' = MessagesOf(w) \cup {n + 1} /\ n + 1 \notin MessagesOf(w)
      BY <1>0, <1>3, <1>4, <1>5, <2>5 DEF MessagesOf
    <3>3. /\ Cardinality(buyers'[w]) = Cardinality(buyers[w]) + 1
          /\ Cardinality(MessagesOf(w)') = Cardinality(MessagesOf(w)) + 1
      BY <2>3, <3>1, <3>2, FS_AddElement
    <3>4. stock'[w] = stock[w] - 1 /\ stock[w] \in Nat
      BY <2>2, <2>5
    <3> QED BY <2>1, <2>4, <3>3, <3>4
  <2>6. CASE w # v
    <3>1. buyers'[w] = buyers[w] /\ stock'[w] = stock[w]
      BY <1>6, <1>7, <2>2, <2>6
    <3>2. MessagesOf(w)' = MessagesOf(w)
      BY <1>0, <1>3, <1>4, <1>5, <2>6 DEF MessagesOf
    <3> QED BY <2>1, <3>1, <3>2
  <2> QED BY <2>5, <2>6
<1> QED BY <1>8, <1>9, <1>10 DEF Reservations

LEMMA NextReservations == Typing /\ Reservations /\ [Next]_vars => Reservations'
<1> SUFFICES ASSUME Typing, Reservations, [Next]_vars PROVE Reservations'
  OBVIOUS
<1>1. CASE UNCHANGED requestVars
  BY <1>1 DEF requestVars, Reservations, StreamDistinct, StreamReserved, StockReserved,
              MessagesOf, UserOf, VoucherOf
<1> QED BY <1>1, RequestVarsStep, RequestReservations

-----------------------------------------------------------------------------
(***************************************************************************)
(* MySQL: stock and orders.                                                *)
(***************************************************************************)
LEMMA InitStockConserved == Init => StockConserved
<1> SUFFICES ASSUME Init, NEW v \in Vouchers
             PROVE  dbStock[v] + Cardinality(OrdersOf(v)) = Stock[v]
  BY DEF StockConserved
<1>1. OrdersOf(v) = {} /\ dbStock[v] = Stock[v] /\ Stock[v] \in Nat
  BY DEF OrdersOf, Init
<1> QED BY <1>1, FS_EmptySet

LEMMA NextStockConserved == Typing /\ StockConserved /\ [Next]_vars => StockConserved'
<1> SUFFICES ASSUME Typing, StockConserved, [Next]_vars, NEW v \in Vouchers
             PROVE  dbStock'[v] + Cardinality(OrdersOf(v)') = Stock[v]
  BY DEF StockConserved
<1>0. dbStock[v] + Cardinality(OrdersOf(v)) = Stock[v] /\ TypeOK
  BY DEF StockConserved, Typing
<1>1. CASE UNCHANGED dbVars /\ UNCHANGED requestVars
  BY <1>0, <1>1 DEF dbVars, requestVars, OrdersOf, VoucherOf
<1>2. ASSUME NEW u \in Users, NEW w \in Vouchers, SeckillVoucher(u, w)
      PROVE  dbStock'[v] + Cardinality(OrdersOf(v)') = Stock[v]
  <2>1. UNCHANGED dbVars
    BY <1>2 DEF SeckillVoucher
  <2>2. \A i \in orders : stream'[i] = stream[i]
    <3> DEFINE m == [user |-> u, voucher |-> w]
    <3>1. orders \subseteq 1..Len(stream) /\ stream \in Seq(Message) /\ m \in Message
      BY <1>0, MessagesFinite DEF TypeOK, Message
    <3>2. stream' = Append(stream, m)
      BY <1>2 DEF SeckillVoucher
    <3> HIDE DEF m
    <3> QED BY <3>1, <3>2
  <2>3. OrdersOf(v)' = OrdersOf(v)
    BY <2>1, <2>2 DEF OrdersOf, VoucherOf, dbVars
  <2> QED BY <1>0, <2>1, <2>3 DEF dbVars
<1>3. ASSUME NEW i \in Ids, Insertable(i), InsertOrder(i), UNCHANGED requestVars,
             NEW c \in Consumers, At(c, i, "write")
      PROVE  dbStock'[v] + Cardinality(OrdersOf(v)') = Stock[v]
  <2>1. IsFiniteSet(OrdersOf(v)) /\ Cardinality(OrdersOf(v)) \in Nat
    BY <1>0, MessagesFinite, FS_CardinalityType
  <2>2. dbStock \in [Vouchers -> Nat] /\ dbStock' = [dbStock EXCEPT ![VoucherOf(i)] = @ - 1]
    BY <1>0, <1>3 DEF TypeOK, InsertOrder
  <2>3. i \notin orders /\ orders' = orders \cup {i} /\ \A j : VoucherOf(j)' = VoucherOf(j)
    BY <1>3 DEF Insertable, InsertOrder, requestVars, VoucherOf
  <2>4. CASE VoucherOf(i) = v
    <3>1. OrdersOf(v)' = OrdersOf(v) \cup {i} /\ i \notin OrdersOf(v)
      BY <2>3, <2>4 DEF OrdersOf
    <3>2. Cardinality(OrdersOf(v)') = Cardinality(OrdersOf(v)) + 1
      BY <2>1, <3>1, FS_AddElement
    <3>3. dbStock'[v] = dbStock[v] - 1 /\ dbStock[v] \in Nat
      BY <2>2, <2>4
    <3> QED BY <1>0, <2>1, <3>2, <3>3
  <2>5. CASE VoucherOf(i) # v
    <3>1. OrdersOf(v)' = OrdersOf(v)
      BY <2>3, <2>5 DEF OrdersOf
    <3>2. dbStock'[v] = dbStock[v]
      BY <2>2, <2>5
    <3> QED BY <1>0, <3>1, <3>2
  <2> QED BY <2>4, <2>5
<1> QED BY <1>1, <1>2, <1>3, OrdersStep, RequestVarsStep

LEMMA OneOrderFromReservations == Typing /\ Reservations => OneOrderPerUser
<1> SUFFICES ASSUME Typing, Reservations, NEW i \in orders, NEW j \in orders,
                    UserOf(i) = UserOf(j), VoucherOf(i) = VoucherOf(j)
             PROVE  i = j
  BY DEF OneOrderPerUser
<1>1. i \in 1..Len(stream) /\ j \in 1..Len(stream)
  BY MessagesFinite DEF Typing
<1>2. stream[i] \in Message /\ stream[j] \in Message
  BY <1>1, MessageKinds DEF Typing
<1>3. stream[i] = stream[j]
  BY <1>2 DEF UserOf, VoucherOf, Message
<1> QED BY <1>1, <1>3 DEF Reservations, StreamDistinct

LEMMA StockForReserved ==
  Typing /\ Reservations /\ StockConserved => ReservedOrderFindsStock
<1> SUFFICES ASSUME Typing, Reservations, StockConserved,
                    NEW i \in 1..Len(stream), i \notin orders
             PROVE  dbStock[VoucherOf(i)] > 0
  BY DEF ReservedOrderFindsStock, InStock
<1> DEFINE v == VoucherOf(i)
<1>1. v \in Vouchers
  BY MessageKinds DEF Typing
<1>2. /\ IsFiniteSet(MessagesOf(v)) /\ IsFiniteSet(OrdersOf(v))
      /\ OrdersOf(v) \in SUBSET MessagesOf(v)
  BY MessagesFinite DEF Typing
<1>3. Cardinality(MessagesOf(v)) \in Nat /\ Cardinality(OrdersOf(v)) \in Nat
  BY <1>2, FS_CardinalityType
<1>4. i \in MessagesOf(v) /\ i \notin OrdersOf(v)
  BY DEF MessagesOf, OrdersOf
<1>5. /\ Cardinality(OrdersOf(v)) <= Cardinality(MessagesOf(v))
      /\ Cardinality(OrdersOf(v)) # Cardinality(MessagesOf(v))
  BY <1>2, <1>4, FS_Subset
<1>6. /\ stock[v] + Cardinality(MessagesOf(v)) = Stock[v]
      /\ dbStock[v] + Cardinality(OrdersOf(v)) = Stock[v]
      /\ stock[v] \in Nat /\ dbStock[v] \in Nat
  BY <1>1 DEF Reservations, StockReserved, StockConserved, Typing, TypeOK
<1> HIDE DEF v
<1>7. dbStock[v] > 0
  BY <1>3, <1>5, <1>6
<1> QED BY <1>7 DEF v

-----------------------------------------------------------------------------
(***************************************************************************)
(* Acknowledgements.                                                       *)
(***************************************************************************)
\* A step of c leaves the other goroutine's control alone.
LEMMA OthersKeep ==
  ASSUME Typing, NEW c \in Consumers, NEW d \in Consumers, d # c, NEW p,
         NEW i, NextMessage(c, i) \/ (Goto(c, p) /\ UNCHANGED <<batch, ok>>)
  PROVE  pc'[d] = pc[d] /\ batch'[d] = batch[d] /\ ok'[d] = ok[d]
BY DEF Typing, TypeOK, NextMessage, Goto

LEMMA ResultReset ==
  ASSUME Typing, NEW c \in Consumers, NEW i, NextMessage(c, i)
  PROVE  ok'[c] = FALSE
BY DEF Typing, TypeOK, NextMessage

LEMMA InitResult == Init => ResultIsOrder
BY DEF Init, ResultIsOrder

LEMMA ProcessResult ==
  ASSUME Typing, ResultIsOrder, NEW c \in Consumers, NEW i \in Ids,
         \/ Lock(c, i) \/ LockError(c, i) \/ Check(c, i) \/ CheckError(c, i)
         \/ CreateOrder(c, i) \/ CreateOrderError(c, i) \/ CommitReplyLost(c, i)
         \/ Unlock(c, i) \/ UnlockError(c, i)
  PROVE  ResultIsOrder'
<1> SUFFICES ASSUME NEW d \in Consumers, ok'[d] = TRUE
             PROVE  /\ pc'[d] \in {"unlock", "settle", "clear"}
                    /\ \A j \in Ids : IsNext(d, j)' => j \in orders'
  <2>1. ok' \in [Consumers -> BOOLEAN]
    BY ProcessTyping DEF Typing, TypeOK
  <2> QED BY <2>1 DEF ResultIsOrder
<1>1. batch' = batch /\ orders \subseteq orders'
  BY DEF Lock, LockError, Check, CheckError, CreateOrder, CreateOrderError, CommitReplyLost,
         Unlock, UnlockError, KeepsQueue, dbVars, InsertOrder
<1>2. \A j : IsNext(d, j)' <=> IsNext(d, j)
  BY <1>1 DEF IsNext
<1>3. \E p : Goto(c, p)
  BY Zenon DEF Lock, LockError, Check, CheckError, CreateOrder, CreateOrderError,
               CommitReplyLost, Unlock, UnlockError
<1>4. ok[d] = TRUE => /\ pc[d] \in {"unlock", "settle", "clear"}
                      /\ \A j \in Ids : IsNext(d, j) => j \in orders
  BY DEF ResultIsOrder
<1>5. CASE d # c
  <2>1. pc'[d] = pc[d]
    BY <1>3, <1>5 DEF Goto, Typing, TypeOK
  <2>2. ok'[d] = ok[d]
    BY <1>5
    DEF Lock, LockError, Check, CheckError, CreateOrder, CreateOrderError, CommitReplyLost,
        Unlock, UnlockError, Typing, TypeOK
  <2> QED BY <1>1, <1>2, <1>4, <2>1, <2>2
<1>6. CASE d = c /\ CreateOrder(c, i)
  <2>1. pc'[c] = "unlock"
    BY <1>6 DEF CreateOrder, Goto, Typing, TypeOK
  <2>2. Insertable(i)
    <3>1. ok' = [ok EXCEPT ![c] = Insertable(i)]
      BY <1>6, Zenon DEF CreateOrder
    <3>2. ok'[c] = Insertable(i)
      BY <3>1, Zenon DEF Typing, TypeOK
    <3> QED BY <1>6, <3>2
  <2>3. i \in orders' /\ IsNext(c, i)
    BY <1>6, <2>2 DEF CreateOrder, InsertOrder, At
  <2>4. \A j \in Ids : IsNext(c, j) => j = i
    BY <2>3 DEF IsNext, Ids
  <2> QED BY <1>2, <1>6, <2>1, <2>3, <2>4
<1>7. CASE d = c /\ (Unlock(c, i) \/ UnlockError(c, i))
  <2>1. pc'[c] = "settle" /\ ok' = ok
    BY <1>7 DEF Unlock, UnlockError, Goto, Typing, TypeOK
  <2> QED BY <1>1, <1>2, <1>4, <1>7, <2>1
<1>8. CASE d = c /\ ~CreateOrder(c, i) /\ ~(Unlock(c, i) \/ UnlockError(c, i))
  <2>1. pc[c] \in {"lock", "check", "write"} /\ ok' = ok
    BY <1>8
    DEF Lock, LockError, Check, CheckError, CreateOrderError, CommitReplyLost, At
  <2> QED BY <1>4, <1>8, <2>1
<1> QED BY <1>5, <1>6, <1>7, <1>8

LEMMA LoopResult ==
  ASSUME Typing, ResultIsOrder, NEW i \in Ids, LoopStep(i)
  PROVE  ResultIsOrder'
<1> SUFFICES ASSUME NEW d \in Consumers, ok'[d] = TRUE
             PROVE  /\ pc'[d] \in {"unlock", "settle", "clear"}
                    /\ \A j \in Ids : IsNext(d, j)' => j \in orders'
  <2>1. ok' \in [Consumers -> BOOLEAN]
    BY LoopTyping DEF Typing, TypeOK
  <2> QED BY <2>1 DEF ResultIsOrder
<1> DEFINE c == IF SyncSettle(i) \/ SyncAckError(i) THEN "sync" ELSE "pending"
<1>1. /\ c \in Consumers /\ orders' = orders
      /\ \/ NextMessage(c, i)
         \/ /\ \E p \in {"lock", "dead", "deadack", "clear"} :
                 Goto(c, p) /\ (pc[c] \in {"count", "dead"} \/ p = "clear")
            /\ UNCHANGED <<batch, ok>>
  BY Zenon
  DEF LoopStep, SyncSettle, SyncAckError, GetRetryCount, GetRetryCountError, StartTry,
      PendingSettle, PendingSettleError, DeadLetter, DeadLetterError, DeadAck, DeadAckError,
      ClearRetryCount, ClearRetryCountError, KeepsStores, dbVars, Consumers, At
<1> HIDE DEF c
<1>2. ok[d] = TRUE => /\ pc[d] \in {"unlock", "settle", "clear"}
                      /\ \A j \in Ids : IsNext(d, j) => j \in orders
  BY DEF ResultIsOrder
<1>3. CASE d # c
  <2>1. pc'[d] = pc[d] /\ batch'[d] = batch[d] /\ ok'[d] = ok[d]
    BY <1>1, <1>3, OthersKeep
  <2> QED BY <1>1, <1>2, <2>1 DEF IsNext
<1>4. CASE d = c /\ NextMessage(c, i)
  BY <1>1, <1>4, ResultReset
<1>5. ASSUME d = c, UNCHANGED <<batch, ok>>,
             NEW p \in {"lock", "dead", "deadack", "clear"},
             Goto(c, p), pc[c] \in {"count", "dead"} \/ p = "clear"
      PROVE  /\ pc'[d] \in {"unlock", "settle", "clear"}
             /\ \A j \in Ids : IsNext(d, j)' => j \in orders'
  BY <1>1, <1>2, <1>5 DEF Goto, IsNext, Typing, TypeOK
<1> QED BY <1>1, <1>3, <1>4, <1>5

LEMMA ReadResult ==
  ASSUME Typing, ResultIsOrder, ReadNew \/ ReadNewLost \/ ReadPending
  PROVE  ResultIsOrder'
<1> SUFFICES ASSUME NEW d \in Consumers, ok'[d]
             PROVE  /\ pc'[d] \in {"unlock", "settle", "clear"}
                    /\ \A j \in Ids : IsNext(d, j)' => j \in orders'
  BY DEF ResultIsOrder
<1>1. ok' = ok /\ orders' = orders
  BY DEF ReadNew, ReadNewLost, ReadPending, Deliver, dbVars
<1>2. pc[d] \in {"unlock", "settle", "clear"} /\ \A j \in Ids : IsNext(d, j) => j \in orders
  BY <1>1 DEF ResultIsOrder
<1>3. pc'[d] = pc[d] /\ batch'[d] = batch[d]
  BY <1>2 DEF ReadNew, ReadNewLost, ReadPending, Deliver, Goto, Typing, TypeOK
<1> QED BY <1>1, <1>2, <1>3 DEF IsNext

LEMMA NextResult == Typing /\ ResultIsOrder /\ [Next]_vars => ResultIsOrder'
<1> SUFFICES ASSUME Typing, ResultIsOrder, [Next]_vars PROVE ResultIsOrder'
  OBVIOUS
<1>1. CASE /\ UNCHANGED <<pc, batch, ok, orders>>
  BY <1>1 DEF ResultIsOrder, IsNext
<1>2. CASE Crash
  BY <1>2 DEF Crash, ResultIsOrder
<1>3. UNCHANGED vars => UNCHANGED <<pc, batch, ok, orders>>
  BY DEF vars, procVars, dbVars
<1>4. ASSUME NEW u \in Users, Lapse(u) \/ Expire(u) PROVE UNCHANGED <<pc, batch, ok, orders>>
  BY <1>4 DEF Lapse, Expire, procVars, dbVars
<1>5. ASSUME NEW u \in Users, NEW v \in Vouchers, SeckillVoucher(u, v)
      PROVE  UNCHANGED <<pc, batch, ok, orders>>
  BY <1>5 DEF SeckillVoucher, procVars, dbVars
<1> QED
  BY <1>1, <1>2, <1>3, <1>4, <1>5, NextCases, ProcessResult, LoopResult, ReadResult

\* What is pending, given up and ordered changes only in these ways.
LEMMA AckedStep ==
  ASSUME Typing, [Next]_vars
  PROVE  /\ orders \subseteq orders' /\ dead \subseteq dead' /\ dropped \subseteq dropped'
         /\ \/ Acked' = Acked
            \/ \E i \in Ids :
                 /\ Acked' \subseteq Acked \cup {i}
                 /\ \/ \E c \in Consumers : At(c, i, "settle") /\ ok[c]
                    \/ At("pending", i, "deadack")
<1> DEFINE Grow == orders \subseteq orders' /\ dead \subseteq dead' /\ dropped \subseteq dropped'
<1>1. CASE ReadNew \/ ReadNewLost
  <2>1. Acked' = Acked
    BY <1>1, DeliverTyping DEF ReadNew, ReadNewLost
  <2>2. Grow
    BY <1>1 DEF ReadNew, ReadNewLost, Deliver, dbVars, deadVars
  <2> QED BY <2>1, <2>2
<1>2. ASSUME NEW c \in Consumers, NEW i \in Ids,
             \/ Lock(c, i) \/ LockError(c, i) \/ Check(c, i) \/ CheckError(c, i)
             \/ CreateOrder(c, i) \/ CreateOrderError(c, i) \/ CommitReplyLost(c, i)
             \/ Unlock(c, i) \/ UnlockError(c, i)
      PROVE  Grow /\ Acked' = Acked
  <2>1. UNCHANGED groupVars /\ UNCHANGED deadVars /\ orders \subseteq orders'
    BY <1>2
    DEF Lock, LockError, Check, CheckError, CreateOrder, CreateOrderError, CommitReplyLost,
        Unlock, UnlockError, KeepsQueue, dbVars, InsertOrder
  <2> QED BY <2>1 DEF groupVars, deadVars, Acked
<1>3. ASSUME NEW i \in Ids, LoopStep(i)
      PROVE  /\ Grow
             /\ \/ Acked' = Acked
                \/ /\ Acked' \subseteq Acked \cup {i}
                   /\ \/ \E c \in Consumers : At(c, i, "settle") /\ ok[c]
                      \/ At("pending", i, "deadack")
  <2>1. Grow /\ delivered' = delivered
    BY <1>3
    DEF LoopStep, SyncSettle, SyncAckError, GetRetryCount, GetRetryCountError, StartTry,
        PendingSettle, PendingSettleError, DeadLetter, DeadLetterError, DeadAck, DeadAckError,
        ClearRetryCount, ClearRetryCountError, KeepsStores, dbVars, deadVars
  <2>2. \/ pel' = pel
        \/ /\ Ack(i)
           /\ \/ \E c \in Consumers : At(c, i, "settle") /\ ok[c]
              \/ At("pending", i, "deadack")
    BY <1>3, Zenon
    DEF LoopStep, SyncSettle, SyncAckError, GetRetryCount, GetRetryCountError, StartTry,
        PendingSettle, PendingSettleError, DeadLetter, DeadLetterError, DeadAck, DeadAckError,
        ClearRetryCount, ClearRetryCountError, Consumers
  <2>3. pel' = pel => Acked' = Acked
    BY <2>1 DEF Acked
  <2>4. Ack(i) => Acked' \subseteq Acked \cup {i}
    BY <2>1 DEF Acked, Ack
  <2> QED BY <2>1, <2>2, <2>3, <2>4
<1>4. ASSUME \/ \E u \in Users, v \in Vouchers : SeckillVoucher(u, v)
             \/ \E u \in Users : Lapse(u) \/ Expire(u)
             \/ ReadPending \/ Crash \/ UNCHANGED vars
      PROVE  Grow /\ Acked' = Acked
  <2>1. UNCHANGED groupVars /\ UNCHANGED deadVars /\ UNCHANGED dbVars
    BY <1>4 DEF SeckillVoucher, Lapse, Expire, ReadPending, Crash, vars
  <2> QED BY <2>1 DEF groupVars, deadVars, dbVars, Acked
<1> QED BY <1>1, <1>2, <1>3, <1>4, NextCases

\* Only a step of LoopStep's first three kinds, or a dead letter, leads to "deadack".
LEMMA LoopControl ==
  ASSUME Typing, NEW i \in Ids, LoopStep(i)
  PROVE  \E c \in Consumers :
           /\ pc[c] \in {"settle", "count", "dead", "deadack", "clear"}
           /\ IsNext(c, i)
           /\ \A d \in Consumers \ {c} : pc'[d] = pc[d] /\ batch'[d] = batch[d]
           /\ \/ pc'[c] \in {"idle", "lock", "count", "dead", "clear"}
              \/ /\ pc'[c] = "deadack" /\ c = "pending" /\ batch' = batch
                 /\ i \in dead' \cup dropped'
<1> DEFINE c == IF SyncSettle(i) \/ SyncAckError(i) THEN "sync" ELSE "pending"
           Quiet == {"idle", "lock", "count", "dead", "clear"}
<1>1. /\ c \in Consumers
      /\ IsNext(c, i)
      /\ pc[c] \in {"settle", "count", "dead", "deadack", "clear"}
      /\ \/ NextMessage(c, i)
         \/ \E p \in {"lock", "dead", "clear"} : Goto(c, p) /\ UNCHANGED <<batch, ok>>
         \/ /\ Goto(c, "deadack") /\ UNCHANGED <<batch, ok>>
            /\ c = "pending"
            /\ i \in dead' \cup dropped'
  <2>1. CASE SyncSettle(i) \/ SyncAckError(i)
    BY <2>1 DEF SyncSettle, SyncAckError, At, Consumers
  <2>2. CASE ~(SyncSettle(i) \/ SyncAckError(i)) /\ (DeadLetter(i) \/ DeadLetterError(i))
    BY <2>2 DEF DeadLetter, DeadLetterError, At, Consumers
  <2>3. CASE /\ ~(SyncSettle(i) \/ SyncAckError(i))
             /\ PendingSettle(i) \/ PendingSettleError(i)
    BY <2>3, Zenon DEF PendingSettle, PendingSettleError, At, Consumers
  <2>4. CASE /\ ~(SyncSettle(i) \/ SyncAckError(i))
             /\ GetRetryCount(i) \/ GetRetryCountError(i)
    BY <2>4, Zenon DEF GetRetryCount, GetRetryCountError, StartTry, At, Consumers
  <2>5. CASE /\ ~(SyncSettle(i) \/ SyncAckError(i))
             /\ \/ DeadAck(i) \/ DeadAckError(i) \/ ClearRetryCount(i)
                \/ ClearRetryCountError(i)
    BY <2>5, Zenon
    DEF DeadAck, DeadAckError, ClearRetryCount, ClearRetryCountError, At, Consumers
  <2> QED BY <2>1, <2>2, <2>3, <2>4, <2>5 DEF LoopStep
<1> HIDE DEF c
<1>2. \A d \in Consumers \ {c} : pc'[d] = pc[d] /\ batch'[d] = batch[d]
  BY <1>1, OthersKeep
<1>3. CASE NextMessage(c, i)
  <2>1. pc'[c] \in Quiet
    BY <1>1, <1>3 DEF NextMessage, Goto, Start, Typing, TypeOK
  <2> QED BY <1>1, <1>2, <2>1
<1>4. ASSUME NEW p \in {"lock", "dead", "clear"}, Goto(c, p)
      PROVE  pc'[c] \in Quiet
  BY <1>1, <1>4 DEF Goto, Typing, TypeOK
<1>5. Goto(c, "deadack") => pc'[c] = "deadack"
  BY <1>1 DEF Goto, Typing, TypeOK
<1> QED BY <1>1, <1>2, <1>3, <1>4, <1>5

LEMMA ProcessControl ==
  ASSUME Typing, NEW c \in Consumers, NEW i \in Ids,
         \/ Lock(c, i) \/ LockError(c, i) \/ Check(c, i) \/ CheckError(c, i)
         \/ CreateOrder(c, i) \/ CreateOrderError(c, i) \/ CommitReplyLost(c, i)
         \/ Unlock(c, i) \/ UnlockError(c, i)
  PROVE  /\ IsNext(c, i)
         /\ batch' = batch
         /\ \A d \in Consumers \ {c} : pc'[d] = pc[d]
         /\ pc'[c] \in {"check", "write", "unlock", "settle"}
<1>1. PICK p \in {"check", "write", "unlock", "settle"} :
         Goto(c, p) /\ IsNext(c, i) /\ batch' = batch
  BY Zenon DEF Lock, LockError, Check, CheckError, CreateOrder, CreateOrderError,
               CommitReplyLost, Unlock, UnlockError, At, KeepsQueue
<1> QED BY <1>1 DEF Goto, Typing, TypeOK

LEMMA NextOfBatch ==
  ASSUME NEW c \in Consumers, NEW i \in Ids, NEW j \in Ids, IsNext(c, i), IsNext(c, j)
  PROVE  i = j
BY DEF IsNext, Ids

LEMMA InitDeadAck == Init => DeadAckIsGivenUp
BY DEF Init, DeadAckIsGivenUp, At, Consumers

LEMMA NextDeadAck == Typing /\ DeadAckIsGivenUp /\ [Next]_vars => DeadAckIsGivenUp'
<1> SUFFICES ASSUME Typing, DeadAckIsGivenUp, [Next]_vars,
                    NEW j \in Ids, pc'["pending"] = "deadack", IsNext("pending", j)'
             PROVE  j \in dead' \cup dropped'
  BY DEF DeadAckIsGivenUp, At
<1>1. dead \subseteq dead' /\ dropped \subseteq dropped'
  BY AckedStep
<1>2. "pending" \in Consumers
  BY DEF Consumers
<1>3. CASE pc'["pending"] = pc["pending"] /\ batch'["pending"] = batch["pending"]
  BY <1>1, <1>3 DEF DeadAckIsGivenUp, At, IsNext
<1>4. ASSUME NEW i \in Ids, LoopStep(i) PROVE j \in dead' \cup dropped'
  <2>1. PICK c \in Consumers :
           /\ IsNext(c, i)
           /\ \A d \in Consumers \ {c} : pc'[d] = pc[d] /\ batch'[d] = batch[d]
           /\ \/ pc'[c] \in {"idle", "lock", "count", "dead", "clear"}
              \/ /\ pc'[c] = "deadack" /\ c = "pending" /\ batch' = batch
                 /\ i \in dead' \cup dropped'
    BY <1>4, LoopControl
  <2>2. CASE c # "pending"
    BY <1>2, <1>3, <2>1, <2>2
  <2>3. CASE c = "pending"
    <3>1. batch' = batch /\ i \in dead' \cup dropped'
      BY <2>1, <2>3
    <3>2. IsNext("pending", j)
      BY <3>1 DEF IsNext
    <3>3. i = j
      BY <1>2, <2>1, <2>3, <3>2, NextOfBatch
    <3> QED BY <3>1, <3>3
  <2> QED BY <2>2, <2>3
<1>5. ASSUME NEW c \in Consumers, NEW i \in Ids,
             \/ Lock(c, i) \/ LockError(c, i) \/ Check(c, i) \/ CheckError(c, i)
             \/ CreateOrder(c, i) \/ CreateOrderError(c, i) \/ CommitReplyLost(c, i)
             \/ Unlock(c, i) \/ UnlockError(c, i)
      PROVE  j \in dead' \cup dropped'
  <2>1. /\ batch' = batch
        /\ \A d \in Consumers \ {c} : pc'[d] = pc[d]
        /\ pc'[c] \in {"check", "write", "unlock", "settle"}
    BY <1>5, ProcessControl
  <2> QED BY <1>2, <1>3, <2>1
<1>6. CASE ReadPending \/ Crash
  BY <1>6 DEF ReadPending, Crash, Goto, Typing, TypeOK, Consumers
<1>7. CASE ReadNew \/ ReadNewLost
  BY <1>3, <1>7 DEF ReadNew, ReadNewLost, Goto, Typing, TypeOK, Consumers
<1>8. CASE \/ \E u \in Users, v \in Vouchers : SeckillVoucher(u, v)
           \/ \E u \in Users : Lapse(u) \/ Expire(u)
           \/ UNCHANGED vars
  BY <1>3, <1>8 DEF SeckillVoucher, Lapse, Expire, vars, procVars
<1> QED BY <1>4, <1>5, <1>6, <1>7, <1>8, NextCases

LEMMA InitNothingForgotten == Init => NothingForgotten
BY DEF Init, NothingForgotten, Acked

LEMMA NextNothingForgotten ==
  /\ Typing /\ ResultIsOrder /\ DeadAckIsGivenUp /\ NothingForgotten /\ [Next]_vars
  => NothingForgotten'
<1> SUFFICES ASSUME Typing, ResultIsOrder, DeadAckIsGivenUp, NothingForgotten, [Next]_vars
             PROVE  NothingForgotten'
  OBVIOUS
<1>1. orders \subseteq orders' /\ dead \subseteq dead' /\ dropped \subseteq dropped'
  BY AckedStep
<1>2. CASE Acked' = Acked
  BY <1>1, <1>2 DEF NothingForgotten
<1>3. ASSUME NEW i \in Ids, Acked' \subseteq Acked \cup {i},
             \/ \E c \in Consumers : At(c, i, "settle") /\ ok[c]
             \/ At("pending", i, "deadack")
      PROVE  NothingForgotten'
  <2>1. i \in orders \cup dead \cup dropped
    BY <1>3 DEF ResultIsOrder, DeadAckIsGivenUp, At
  <2> QED BY <1>1, <1>3, <2>1 DEF NothingForgotten
<1> QED BY <1>2, <1>3, AckedStep

-----------------------------------------------------------------------------
(***************************************************************************)
(* The lock per user.                                                      *)
(***************************************************************************)
LEMMA InitLockHeld == Init => LockHeld
BY DEF Init, LockHeld, Inside

\* What an unlock, a lapse, an expiry or a restart does to the lock words.
LEMMA LockWordStep ==
  ASSUME Typing, [Next]_vars, NEW u \in Users, NEW c \in Consumers,
         lock[u] = c, lock'[u] # c
  PROVE  \/ \E i \in Ids : (Unlock(c, i) \/ UnlockError(c, i)) /\ UserOf(i) = u
         \/ c \in lapsed'
         \/ Crash
<1> USE DEF Typing, TypeOK
<1>0. c # "free" /\ c # "orphan"
  BY DEF Consumers
<1>1. ASSUME NEW d \in Consumers, NEW i \in Ids, Lock(d, i) PROVE FALSE
  <2>1. lock' = lock \/ (lock[UserOf(i)] = "free" /\ lock' = [lock EXCEPT ![UserOf(i)] = d])
    BY <1>1, Zenon DEF Lock
  <2> QED BY <1>0, <2>1
<1>2. ASSUME NEW d \in Consumers, NEW i \in Ids, LockError(d, i) PROVE FALSE
  <2>1. \/ lock' = lock
        \/ lock[UserOf(i)] = "free" /\ lock' = [lock EXCEPT ![UserOf(i)] = "orphan"]
    <3>1. \/ lock' = lock
          \/ lock' = IF lock[UserOf(i)] = "free"
                       THEN [lock EXCEPT ![UserOf(i)] = "orphan"] ELSE lock
      BY <1>2 DEF LockError
    <3> QED BY <3>1, Zenon
  <2> QED BY <1>0, <2>1
<1>3. ASSUME NEW d \in Consumers, NEW i \in Ids, Unlock(d, i) \/ UnlockError(d, i)
      PROVE  d = c /\ UserOf(i) = u
  <2>1. \/ lock' = lock
        \/ /\ lock[UserOf(i)] = d
           /\ \E t \in {"free", "orphan"} : lock' = [lock EXCEPT ![UserOf(i)] = t]
    BY <1>3, Zenon DEF Unlock, UnlockError
  <2> QED BY <2>1
<1>4. ASSUME NEW d \in Consumers, NEW i \in Ids,
             \/ Check(d, i) \/ CheckError(d, i) \/ CreateOrder(d, i)
             \/ CreateOrderError(d, i) \/ CommitReplyLost(d, i)
      PROVE  FALSE
  BY <1>4 DEF Check, CheckError, CreateOrder, CreateOrderError, CommitReplyLost
<1>5. ASSUME NEW i \in Ids, LoopStep(i) PROVE FALSE
  BY <1>5
  DEF LoopStep, SyncSettle, SyncAckError, GetRetryCount, GetRetryCountError, StartTry,
      PendingSettle, PendingSettleError, DeadLetter, DeadLetterError, DeadAck, DeadAckError,
      ClearRetryCount, ClearRetryCountError, KeepsStores
<1>6. ASSUME NEW w \in Users, Lapse(w) PROVE c \in lapsed'
  BY <1>6 DEF Lapse
<1>7. ASSUME NEW w \in Users, Expire(w) PROVE FALSE
  BY <1>0, <1>7 DEF Expire
<1>8. ASSUME \/ \E w \in Users, v \in Vouchers : SeckillVoucher(w, v)
             \/ ReadNew \/ ReadNewLost \/ ReadPending \/ UNCHANGED vars
      PROVE  FALSE
  BY <1>8 DEF SeckillVoucher, ReadNew, ReadNewLost, Deliver, ReadPending, vars
<1> QED BY <1>1, <1>2, <1>3, <1>4, <1>5, <1>6, <1>7, <1>8, NextCases

\* Who gets inside, and who is taken off the list of lapsed goroutines.
LEMMA InsideStep ==
  ASSUME Typing, [Next]_vars, NEW c \in Consumers, NEW i \in Ids, Inside(c, i)'
  PROVE  /\ \/ Inside(c, i)
            \/ lock'[UserOf(i)] = c
         /\ c \in lapsed => c \in lapsed'
         /\ i \in 1..Len(stream)
         /\ ~Crash
         /\ \A j \in Ids : ~(Unlock(c, j) \/ UnlockError(c, j))
<1> DEFINE Goal == /\ Inside(c, i) \/ lock'[UserOf(i)] = c
                   /\ c \in lapsed => c \in lapsed'
                   /\ i \in 1..Len(stream)
<1>1. pc'[c] \in {"check", "write", "unlock"} /\ IsNext(c, i)'
  BY DEF Inside
<1>2. ~Crash
  BY <1>1 DEF Crash
<1>3. \A j \in Ids : ~(Unlock(c, j) \/ UnlockError(c, j))
  BY <1>1 DEF Unlock, UnlockError, Goto, Typing, TypeOK
<1>4. ASSUME pc'[c] = pc[c], batch'[c] = batch[c], c \in lapsed => c \in lapsed'
      PROVE  Goal
  BY <1>1, <1>4 DEF Inside, IsNext, Typing, TypeOK
<1>5. ASSUME NEW d \in Consumers, NEW j \in Ids,
             \/ Lock(d, j) \/ LockError(d, j) \/ Check(d, j) \/ CheckError(d, j)
             \/ CreateOrder(d, j) \/ CreateOrderError(d, j) \/ CommitReplyLost(d, j)
             \/ Unlock(d, j) \/ UnlockError(d, j)
      PROVE  Goal
  <2>1. /\ IsNext(d, j) /\ batch' = batch
        /\ \A e \in Consumers \ {d} : pc'[e] = pc[e]
    BY <1>5, ProcessControl
  <2>2. CASE d # c
    <3>1. c \in lapsed => c \in lapsed'
      BY <1>5, <2>2
      DEF Lock, LockError, Check, CheckError, CreateOrder, CreateOrderError, CommitReplyLost,
          Unlock, UnlockError
    <3> QED BY <1>4, <2>1, <2>2, <3>1
  <2>3. CASE d = c
    <3>1. IsNext(c, i) /\ i = j /\ i \in 1..Len(stream)
      <4>1. IsNext(c, i)
        BY <1>1, <2>1 DEF IsNext
      <4> QED BY <2>1, <2>3, <4>1, NextOfBatch DEF IsNext, Typing, TypeOK
    <3>2. lapsed' = lapsed /\ (pc[c] \in {"check", "write"} \/ Lock(c, i))
      BY <1>3, <1>5, <2>3, <3>1, <1>1
      DEF Lock, LockError, Check, CheckError, CreateOrder, CreateOrderError, CommitReplyLost,
          At, Goto, Typing, TypeOK
    <3>3. CASE pc[c] \in {"check", "write"}
      BY <3>1, <3>2, <3>3 DEF Inside
    <3>4. CASE Lock(c, i)
      <4>1. lock' = [lock EXCEPT ![UserOf(i)] = c] \/ Goto(c, "settle")
        BY <3>4, Zenon DEF Lock
      <4>2. ~Goto(c, "settle")
        BY <1>1 DEF Goto, Typing, TypeOK
      <4>3. UserOf(i) \in Users
        BY <3>1, MessageKinds DEF Typing
      <4> QED BY <3>1, <3>2, <4>1, <4>2, <4>3 DEF Typing, TypeOK
    <3> QED BY <3>2, <3>3, <3>4
  <2> QED BY <2>2, <2>3
<1>6. ASSUME NEW j \in Ids, LoopStep(j) PROVE Goal
  <2>1. pc'[c] = pc[c] /\ batch'[c] = batch[c]
    BY <1>1, <1>6, LoopControl
  <2>2. lapsed' = lapsed
    BY <1>6
    DEF LoopStep, SyncSettle, SyncAckError, GetRetryCount, GetRetryCountError, StartTry,
        PendingSettle, PendingSettleError, DeadLetter, DeadLetterError, DeadAck, DeadAckError,
        ClearRetryCount, ClearRetryCountError, KeepsStores
  <2> QED BY <1>4, <2>1, <2>2
<1>7. ASSUME ReadNew \/ ReadNewLost \/ ReadPending PROVE Goal
  <2>1. pc'[c] = pc[c] /\ batch'[c] = batch[c] /\ lapsed' = lapsed
    BY <1>1, <1>7
    DEF ReadNew, ReadNewLost, ReadPending, Deliver, Goto, Typing, TypeOK, Consumers
  <2> QED BY <1>4, <2>1
<1>8. ASSUME \/ \E u \in Users, v \in Vouchers : SeckillVoucher(u, v)
             \/ \E u \in Users : Lapse(u) \/ Expire(u)
             \/ UNCHANGED vars
      PROVE  Goal
  <2>1. pc'[c] = pc[c] /\ batch'[c] = batch[c] /\ (c \in lapsed => c \in lapsed')
    BY <1>8 DEF SeckillVoucher, Lapse, Expire, vars, procVars
  <2> QED BY <1>4, <2>1
<1> QED BY <1>2, <1>3, <1>5, <1>6, <1>7, <1>8, NextCases

\* A message's user does not change.
LEMMA UserKept ==
  ASSUME Typing, [Next]_vars, NEW i \in 1..Len(stream)
  PROVE  UserOf(i)' = UserOf(i) /\ VoucherOf(i)' = VoucherOf(i)
<1>1. CASE UNCHANGED requestVars
  BY <1>1 DEF requestVars, UserOf, VoucherOf
<1>2. ASSUME NEW u \in Users, NEW v \in Vouchers, SeckillVoucher(u, v)
      PROVE  stream'[i] = stream[i]
  <2> DEFINE m == [user |-> u, voucher |-> v]
  <2>1. stream' = Append(stream, m) /\ m \in Message /\ stream \in Seq(Message)
    BY <1>2 DEF SeckillVoucher, Message, Typing, TypeOK
  <2> HIDE DEF m
  <2> QED BY <2>1
<1> QED BY <1>1, <1>2, RequestVarsStep DEF UserOf, VoucherOf

LEMMA NextLockHeld == Typing /\ LockHeld /\ [Next]_vars => LockHeld'
<1> SUFFICES ASSUME Typing, LockHeld, [Next]_vars,
                    NEW c \in Consumers, NEW i \in Ids, Inside(c, i)', c \notin lapsed'
             PROVE  lock'[UserOf(i)'] = c
  BY DEF LockHeld
<1>1. /\ Inside(c, i) \/ lock'[UserOf(i)] = c
      /\ c \notin lapsed
      /\ i \in 1..Len(stream)
      /\ ~Crash
      /\ \A j \in Ids : ~(Unlock(c, j) \/ UnlockError(c, j))
  BY InsideStep
<1>2. UserOf(i)' = UserOf(i) /\ UserOf(i) \in Users
  BY <1>1, UserKept, MessageKinds DEF Typing
<1>3. CASE lock'[UserOf(i)] = c
  BY <1>2, <1>3
<1>4. CASE Inside(c, i)
  <2>1. lock[UserOf(i)] = c
    BY <1>1, <1>4 DEF LockHeld
  <2> QED BY <1>1, <1>2, <2>1, LockWordStep
<1> QED BY <1>1, <1>3, <1>4

LEMMA ExclusionFromLock == Typing /\ LockHeld => MutualExclusion
<1> SUFFICES ASSUME Typing, LockHeld, lapsed = {}, NEW u \in Users,
                    InsideFor("sync", u), InsideFor("pending", u)
             PROVE  FALSE
  BY DEF MutualExclusion
<1>1. \A c \in Consumers : batch[c] \subseteq Ids
  BY DEF Typing, TypeOK, Ids
<1>2. ASSUME NEW c \in Consumers, InsideFor(c, u) PROVE lock[u] = c
  BY <1>1, <1>2 DEF InsideFor, LockHeld
<1> QED BY <1>2 DEF Consumers

-----------------------------------------------------------------------------
(***************************************************************************)
(* The theorems.                                                           *)
(***************************************************************************)
LEMMA IndInvInit == Init => IndInv
BY InitTyping, InitReservations, InitStockConserved, InitResult, InitDeadAck,
   InitNothingForgotten, InitLockHeld
   DEF IndInv, Typing, Reservations

LEMMA IndInvNext == IndInv /\ [Next]_vars => IndInv'
BY NextTyping, NextReservations, NextStockConserved, NextResult, NextDeadAck,
   NextNothingForgotten, NextLockHeld
   DEF IndInv, Typing, Reservations

\* The inductive invariant: types, reservations, stock, acknowledgements, locks.
THEOREM Invariance == Spec => []IndInv
BY IndInvInit, IndInvNext, PTL DEF Spec

\* No customer gets two orders for one voucher (sismember in the Lua script).
THEOREM OneOrderTheorem == Spec => []OneOrderPerUser
<1>1. IndInv => OneOrderPerUser
  BY OneOrderFromReservations DEF IndInv, Typing, Reservations
<1> QED BY Invariance, <1>1, PTL

\* MySQL's stock and order rows always add up to what was on sale.
THEOREM StockTheorem == Spec => []StockConserved
<1>1. IndInv => StockConserved
  BY DEF IndInv
<1> QED BY Invariance, <1>1, PTL

\* Whoever the Lua script told "reserved" finds stock in MySQL.
THEOREM ReservedTheorem == Spec => []ReservedOrderFindsStock
<1>1. IndInv => ReservedOrderFindsStock
  BY StockForReserved DEF IndInv, Typing, Reservations
<1> QED BY Invariance, <1>1, PTL

\* An acknowledged message is an order, or was given up.
THEOREM NothingForgottenTheorem == Spec => []NothingForgotten
<1>1. IndInv => NothingForgotten
  BY DEF IndInv
<1> QED BY Invariance, <1>1, PTL

\* Two goroutines work for one user only if a lock lapsed.
THEOREM ExclusionTheorem == Spec => []MutualExclusion
<1>1. IndInv => MutualExclusion
  BY ExclusionFromLock DEF IndInv, Typing
<1> QED BY Invariance, <1>1, PTL

\* A lock that did not lapse is released by its holder, or left by a restart.
THEOREM ReleaseTheorem == Spec => OnlyOwnerReleases
<1> DEFINE Released ==
      \A u \in Users, c \in Consumers :
        lock[u] = c /\ lock'[u] # c =>
          \/ \E i \in Ids : Inside(c, i) /\ UserOf(i) = u /\ pc[c] = "unlock" /\ pc'[c] = "settle"
          \/ c \in lapsed'
          \/ crashes' = crashes + 1
<1>1. ASSUME IndInv, [Next]_vars PROVE Released
  <2> SUFFICES ASSUME NEW u \in Users, NEW c \in Consumers, lock[u] = c, lock'[u] # c
               PROVE  \/ \E i \in Ids : /\ Inside(c, i) /\ UserOf(i) = u
                                        /\ pc[c] = "unlock" /\ pc'[c] = "settle"
                      \/ c \in lapsed'
                      \/ crashes' = crashes + 1
    OBVIOUS
  <2>1. Typing
    BY <1>1 DEF IndInv, Typing
  <2>2. ASSUME NEW i \in Ids, Unlock(c, i) \/ UnlockError(c, i)
        PROVE  Inside(c, i) /\ pc[c] = "unlock" /\ pc'[c] = "settle"
    BY <2>1, <2>2 DEF Unlock, UnlockError, At, Goto, Inside, Typing, TypeOK
  <2>3. Crash => crashes' = crashes + 1
    BY DEF Crash
  <2> QED BY <1>1, <2>1, <2>2, <2>3, LockWordStep
<1>2. IndInv /\ [Next]_vars => [Released]_vars
  BY <1>1
<1> HIDE DEF Released
<1>3. Spec => [][Released]_vars
  BY Invariance, <1>2, PTL DEF Spec
<1> QED BY <1>3 DEF OnlyOwnerReleases, Released

-----------------------------------------------------------------------------
(***************************************************************************)
(* The pipeline implements the sale.                                       *)
(***************************************************************************)
Pair(i) == <<UserOf(i), VoucherOf(i)>>
GivenUp == dead \cup dropped

\* The sale's state changes in one of four ways, one message at a time.
LEMMA SaleCases ==
  ASSUME IndInv, [Next]_vars
  PROVE  \/ /\ \E u \in Users, v \in Vouchers : SeckillVoucher(u, v)
            /\ orders' = orders /\ GivenUp' = GivenUp /\ Acked' = Acked
         \/ /\ UNCHANGED requestVars
            /\ \E i \in 1..delivered :
                 \/ /\ orders' = orders \cup {i} /\ i \notin orders
                    /\ GivenUp' = GivenUp /\ Acked' = Acked
                 \/ /\ GivenUp' = GivenUp \cup {i}
                    /\ orders' = orders /\ Acked' = Acked
                 \/ /\ Acked' = Acked \cup {i} /\ i \in orders \cup GivenUp
                    /\ orders' = orders /\ GivenUp' = GivenUp
         \/ /\ UNCHANGED requestVars
            /\ orders' = orders /\ GivenUp' = GivenUp /\ Acked' = Acked
<1>0. Typing /\ ResultIsOrder /\ DeadAckIsGivenUp
  BY DEF IndInv, Typing
<1>1. \A c \in Consumers, i \in Ids : IsNext(c, i) => i \in 1..delivered
  BY <1>0 DEF IsNext, Typing, TypeOK
<1>2. ASSUME NEW u \in Users, NEW v \in Vouchers, SeckillVoucher(u, v)
      PROVE  orders' = orders /\ GivenUp' = GivenUp /\ Acked' = Acked
  BY <1>2 DEF SeckillVoucher, groupVars, deadVars, dbVars, GivenUp, Acked
<1>3. ASSUME ReadNew \/ ReadNewLost
      PROVE  UNCHANGED requestVars /\ orders' = orders /\ GivenUp' = GivenUp /\ Acked' = Acked
  <2>1. Deliver
    BY <1>3 DEF ReadNew, ReadNewLost
  <2> QED BY <1>0, <2>1, DeliverTyping DEF Deliver, deadVars, dbVars, GivenUp
<1>4. ASSUME \/ \E u \in Users : Lapse(u) \/ Expire(u)
             \/ ReadPending \/ Crash \/ UNCHANGED vars
      PROVE  UNCHANGED requestVars /\ orders' = orders /\ GivenUp' = GivenUp /\ Acked' = Acked
  <2>1. UNCHANGED <<requestVars, groupVars, deadVars, dbVars>>
    BY <1>4 DEF Lapse, Expire, ReadPending, Crash, vars
  <2> QED BY <2>1 DEF groupVars, deadVars, dbVars, GivenUp, Acked
<1>5. ASSUME NEW c \in Consumers, NEW i \in Ids,
             \/ Lock(c, i) \/ LockError(c, i) \/ Check(c, i) \/ CheckError(c, i)
             \/ CreateOrder(c, i) \/ CreateOrderError(c, i) \/ CommitReplyLost(c, i)
             \/ Unlock(c, i) \/ UnlockError(c, i)
      PROVE  /\ UNCHANGED requestVars /\ GivenUp' = GivenUp /\ Acked' = Acked
             /\ \/ orders' = orders
                \/ i \in 1..delivered /\ i \notin orders /\ orders' = orders \cup {i}
  <2>1. UNCHANGED <<requestVars, groupVars, deadVars>> /\ IsNext(c, i)
    BY <1>5
    DEF Lock, LockError, Check, CheckError, CreateOrder, CreateOrderError, CommitReplyLost,
        Unlock, UnlockError, KeepsQueue, At
  <2>2. orders' = orders \/ (i \notin orders /\ orders' = orders \cup {i})
    BY <1>5, Zenon
    DEF Lock, LockError, Check, CheckError, CreateOrder, CreateOrderError, CommitReplyLost,
        Unlock, UnlockError, Insertable, InsertOrder, dbVars
  <2> QED BY <1>1, <2>1, <2>2 DEF groupVars, deadVars, GivenUp, Acked
<1>6. ASSUME NEW i \in Ids, LoopStep(i)
      PROVE  /\ UNCHANGED requestVars /\ orders' = orders
             /\ \/ GivenUp' = GivenUp /\ Acked' = Acked
                \/ i \in 1..delivered /\ GivenUp' = GivenUp \cup {i} /\ Acked' = Acked
                \/ /\ i \in 1..delivered /\ i \in orders \cup GivenUp
                   /\ Acked' = Acked \cup {i} /\ GivenUp' = GivenUp
  <2>1. UNCHANGED <<requestVars, delivered, dbVars>> /\ \E c \in Consumers : IsNext(c, i)
    BY <1>6
    DEF LoopStep, SyncSettle, SyncAckError, GetRetryCount, GetRetryCountError, StartTry,
        PendingSettle, PendingSettleError, DeadLetter, DeadLetterError, DeadAck, DeadAckError,
        ClearRetryCount, ClearRetryCountError, KeepsStores, At, Consumers
  <2>2. i \in 1..delivered
    BY <1>1, <2>1
  <2>3. \/ UNCHANGED pel /\ UNCHANGED deadVars
        \/ /\ UNCHANGED pel
           /\ \/ dead' = dead \cup {i} /\ dropped' = dropped
              \/ dropped' = dropped \cup {i} /\ dead' = dead
        \/ /\ Ack(i) /\ UNCHANGED deadVars
           /\ \/ \E c \in Consumers : At(c, i, "settle") /\ ok[c]
              \/ At("pending", i, "deadack")
    BY <1>6, Zenon
    DEF LoopStep, SyncSettle, SyncAckError, GetRetryCount, GetRetryCountError, StartTry,
        PendingSettle, PendingSettleError, DeadLetter, DeadLetterError, DeadAck, DeadAckError,
        ClearRetryCount, ClearRetryCountError, Consumers
  <2>4. ASSUME Ack(i) PROVE Acked' = Acked \cup {i}
    BY <2>1, <2>2, <2>4 DEF Ack, Acked
  <2>5. UNCHANGED pel => Acked' = Acked
    BY <2>1 DEF Acked
  <2>6. ASSUME \/ \E c \in Consumers : At(c, i, "settle") /\ ok[c]
               \/ At("pending", i, "deadack")
        PROVE  i \in orders \cup GivenUp
    BY <1>0, <2>6 DEF ResultIsOrder, DeadAckIsGivenUp, At, GivenUp
  <2> QED BY <2>1, <2>2, <2>3, <2>4, <2>5, <2>6 DEF deadVars, dbVars, GivenUp
<1> QED BY <1>2, <1>3, <1>4, <1>5, <1>6, NextCases

\* Different messages are different purchases.
LEMMA PairsDiffer ==
  ASSUME IndInv, NEW i \in 1..Len(stream), NEW j \in 1..Len(stream), Pair(i) = Pair(j)
  PROVE  i = j
<1>1. stream[i] \in Message /\ stream[j] \in Message
  BY MessageKinds DEF IndInv
<1>2. stream[i] = stream[j]
  BY <1>1 DEF Pair, UserOf, VoucherOf, Message
<1> QED BY <1>2 DEF IndInv, StreamDistinct

LEMMA PairsOfAdd ==
  ASSUME NEW S, NEW i PROVE PairsOf(S \cup {i}) = PairsOf(S) \cup {Pair(i)}
BY DEF PairsOf, Pair

LEMMA InitSale == Init => Sale!Init
<1> SUFFICES ASSUME Init PROVE Sale!Init
  OBVIOUS
<1>1. 1..Len(stream) = {} /\ orders = {} /\ dead \cup dropped = {} /\ Acked = {}
  BY DEF Init, Acked
<1> QED BY <1>1 DEF Sale!Init, PairsOf

\* A set of messages keeps its purchases.
LEMMA PairsKept ==
  ASSUME Typing, [Next]_vars, NEW S \in SUBSET (1..Len(stream))
  PROVE  {<<UserOf(i)', VoucherOf(i)'>> : i \in S} = PairsOf(S)
BY UserKept DEF PairsOf

LEMMA KnownMessages ==
  ASSUME Typing
  PROVE  /\ orders \subseteq 1..Len(stream) /\ GivenUp \subseteq 1..Len(stream)
         /\ Acked \subseteq 1..Len(stream) /\ 1..delivered \subseteq 1..Len(stream)
BY DEF Typing, TypeOK, GivenUp, Acked

\* A request reserves.
LEMMA RequestSale ==
  ASSUME IndInv, [Next]_vars, NEW u \in Users, NEW v \in Vouchers, SeckillVoucher(u, v),
         orders' = orders, GivenUp' = GivenUp, Acked' = Acked
  PROVE  Sale!Reserve(<<u, v>>)
<1> DEFINE p == <<u, v>>
           m == [user |-> u, voucher |-> v]
<1>0. Typing /\ StreamReserved /\ StockReserved
  BY DEF IndInv, Typing
<1>1. PICK n \in Nat : n = Len(stream)
  BY <1>0 DEF Typing, TypeOK
<1>2. 1..Len(stream') = (1..n) \cup {n + 1} /\ stream'[n + 1] = m
  <2>1. stream' = Append(stream, m) /\ m \in Message /\ stream \in Seq(Message)
    BY <1>0 DEF SeckillVoucher, Message, Typing, TypeOK
  <2> HIDE DEF m
  <2>2. Len(stream') = n + 1 /\ stream'[n + 1] = m
    BY <1>1, <2>1
  <2> QED BY <2>2
<1>3. <<UserOf(n + 1)', VoucherOf(n + 1)'>> = p
  BY <1>2 DEF UserOf, VoucherOf
<1>4. PairsOf(1..Len(stream))' = PairsOf(1..Len(stream)) \cup {p}
  <2>1. PairsOf(1..Len(stream))' = {<<UserOf(i)', VoucherOf(i)'>> : i \in (1..n) \cup {n + 1}}
    BY <1>2 DEF PairsOf
  <2>2. {<<UserOf(i)', VoucherOf(i)'>> : i \in (1..n) \cup {n + 1}}
          = {<<UserOf(i)', VoucherOf(i)'>> : i \in 1..n} \cup {<<UserOf(n + 1)', VoucherOf(n + 1)'>>}
    OBVIOUS
  <2>3. {<<UserOf(i)', VoucherOf(i)'>> : i \in 1..n} = PairsOf(1..n)
    BY <1>0, <1>1, PairsKept
  <2> QED BY <1>1, <1>3, <2>1, <2>2, <2>3, Zenon
<1>5. /\ PairsOf(orders)' = PairsOf(orders)
      /\ PairsOf(dead \cup dropped)' = PairsOf(dead \cup dropped)
      /\ PairsOf(Acked)' = PairsOf(Acked)
  BY <1>0, PairsKept, KnownMessages DEF PairsOf, GivenUp
<1>6. \A w \in Users : <<w, v>> \in PairsOf(1..Len(stream)) => w \in buyers[v]
  BY <1>0 DEF PairsOf, StreamReserved
<1>7. u \notin buyers[v] /\ stock[v] > 0
  BY DEF SeckillVoucher
<1>8. Cardinality(Sale!BuyersOf(v)) < Stock[v]
  <2>1. Sale!BuyersOf(v) \subseteq buyers[v]
    BY <1>6 DEF Sale!BuyersOf
  <2>2. IsFiniteSet(buyers[v])
    BY <1>0, FS_Subset DEF Typing, TypeOK
  <2>3. /\ Cardinality(Sale!BuyersOf(v)) <= Cardinality(buyers[v])
        /\ Cardinality(Sale!BuyersOf(v)) \in Nat /\ Cardinality(buyers[v]) \in Nat
    BY <2>1, <2>2, FS_Subset, FS_CardinalityType
  <2>4. stock[v] + Cardinality(buyers[v]) = Stock[v] /\ stock[v] \in Nat /\ Stock[v] \in Nat
    BY <1>0 DEF StockReserved, Typing, TypeOK
  <2> QED BY <1>7, <2>3, <2>4
<1>9. p \notin PairsOf(1..Len(stream))
  BY <1>6, <1>7
<1>10. p[2] = v
  OBVIOUS
<1> HIDE DEF p
<1>11. Sale!Cardinality(Sale!BuyersOf(p[2])) < Stock[p[2]]
  <2>1. Sale!Cardinality(Sale!BuyersOf(v)) = Cardinality(Sale!BuyersOf(v))
    BY DEF Sale!Cardinality, Cardinality
  <2> QED BY <1>8, <1>10, <2>1, Zenon
<1>12. Sale!Reserve(p)
  BY <1>4, <1>5, <1>9, <1>11, Zenon DEF Sale!Reserve
<1> QED BY <1>12 DEF p

LEMMA NextSale == IndInv /\ [Next]_vars => [Sale!Next]_(Sale!saleVars)
<1> SUFFICES ASSUME IndInv, [Next]_vars PROVE [Sale!Next]_(Sale!saleVars)
  OBVIOUS
<1>0. Typing
  BY DEF IndInv, Typing
<1>1. ASSUME NEW u \in Users, NEW v \in Vouchers, SeckillVoucher(u, v),
             orders' = orders, GivenUp' = GivenUp, Acked' = Acked
      PROVE  Sale!Next
  <2>1. Sale!Reserve(<<u, v>>)
    BY <1>1, RequestSale
  <2>2. <<u, v>> \in Sale!Purchases
    BY DEF Sale!Purchases
  <2> QED BY <2>1, <2>2 DEF Sale!Next
<1>2. ASSUME UNCHANGED requestVars
      PROVE  /\ PairsOf(1..Len(stream))' = PairsOf(1..Len(stream))
             /\ PairsOf(orders)' = PairsOf(orders')
             /\ PairsOf(dead \cup dropped)' = PairsOf(GivenUp')
             /\ PairsOf(Acked)' = PairsOf(Acked')
  BY <1>2 DEF PairsOf, UserOf, VoucherOf, requestVars, GivenUp
<1>3. ASSUME UNCHANGED requestVars, orders' = orders, GivenUp' = GivenUp, Acked' = Acked
      PROVE  UNCHANGED Sale!saleVars
  BY <1>2, <1>3 DEF Sale!saleVars, GivenUp
<1>4. ASSUME UNCHANGED requestVars, NEW i \in 1..delivered,
             \/ /\ orders' = orders \cup {i} /\ i \notin orders
                /\ GivenUp' = GivenUp /\ Acked' = Acked
             \/ /\ GivenUp' = GivenUp \cup {i}
                /\ orders' = orders /\ Acked' = Acked
             \/ /\ Acked' = Acked \cup {i} /\ i \in orders \cup GivenUp
                /\ orders' = orders /\ GivenUp' = GivenUp
      PROVE  Sale!Next \/ UNCHANGED Sale!saleVars
  <2>1. i \in 1..Len(stream) /\ UserOf(i) \in Users /\ VoucherOf(i) \in Vouchers
    BY <1>0, <1>4, KnownMessages, MessageKinds DEF Typing
  <2>2. Pair(i) \in PairsOf(1..Len(stream)) /\ Pair(i) \in Sale!Purchases
    BY <2>1 DEF Pair, PairsOf, Sale!Purchases
  <2>3. \A S \in SUBSET (1..Len(stream)) : Pair(i) \in PairsOf(S) => i \in S
    BY <2>1, PairsDiffer DEF PairsOf, Pair
  <2>4. CASE orders' = orders \cup {i} /\ i \notin orders /\ GivenUp' = GivenUp /\ Acked' = Acked
    <3>1. PairsOf(orders)' = PairsOf(orders) \cup {Pair(i)}
      BY <1>2, <1>4, <2>4, PairsOfAdd
    <3>2. Pair(i) \notin PairsOf(orders)
      BY <1>0, <2>3, <2>4, KnownMessages
    <3>3. /\ PairsOf(1..Len(stream))' = PairsOf(1..Len(stream))
          /\ PairsOf(dead \cup dropped)' = PairsOf(dead \cup dropped)
          /\ PairsOf(Acked)' = PairsOf(Acked)
      BY <1>2, <1>4, <2>4 DEF GivenUp
    <3>4. Sale!Fulfil(Pair(i))
      BY <2>2, <3>1, <3>2, <3>3 DEF Sale!Fulfil
    <3> QED BY <2>2, <3>4 DEF Sale!Next
  <2>5. CASE GivenUp' = GivenUp \cup {i} /\ orders' = orders /\ Acked' = Acked
    <3>1. PairsOf(dead \cup dropped)' = PairsOf(dead \cup dropped) \cup {Pair(i)}
      BY <1>2, <1>4, <2>5, PairsOfAdd, ZenonT(30) DEF GivenUp
    <3>2. /\ PairsOf(1..Len(stream))' = PairsOf(1..Len(stream))
          /\ PairsOf(orders)' = PairsOf(orders)
          /\ PairsOf(Acked)' = PairsOf(Acked)
      BY <1>2, <1>4, <2>5
    <3>3. CASE Pair(i) \in PairsOf(dead \cup dropped)
      BY <3>1, <3>2, <3>3 DEF Sale!saleVars
    <3>4. CASE Pair(i) \notin PairsOf(dead \cup dropped)
      <4>1. Sale!Abandon(Pair(i))
        BY <2>2, <3>1, <3>2, <3>4 DEF Sale!Abandon
      <4> QED BY <2>2, <4>1 DEF Sale!Next
    <3> QED BY <3>3, <3>4
  <2>6. CASE /\ Acked' = Acked \cup {i} /\ i \in orders \cup GivenUp
             /\ orders' = orders /\ GivenUp' = GivenUp
    <3>1. PairsOf(Acked)' = PairsOf(Acked) \cup {Pair(i)}
      BY <1>2, <1>4, <2>6, PairsOfAdd
    <3>2. /\ PairsOf(1..Len(stream))' = PairsOf(1..Len(stream))
          /\ PairsOf(orders)' = PairsOf(orders)
          /\ PairsOf(dead \cup dropped)' = PairsOf(dead \cup dropped)
      BY <1>2, <1>4, <2>6 DEF GivenUp
    <3>3. Pair(i) \in PairsOf(orders) \cup PairsOf(dead \cup dropped)
      BY <2>6 DEF Pair, PairsOf, GivenUp
    <3>4. CASE Pair(i) \in PairsOf(Acked)
      BY <3>1, <3>2, <3>4 DEF Sale!saleVars
    <3>5. CASE Pair(i) \notin PairsOf(Acked)
      <4>1. Sale!Settle(Pair(i))
        BY <3>1, <3>2, <3>3, <3>5 DEF Sale!Settle
      <4> QED BY <2>2, <4>1 DEF Sale!Next
    <3> QED BY <3>4, <3>5
  <2> QED BY <1>4, <2>4, <2>5, <2>6
<1> QED BY <1>1, <1>3, <1>4, SaleCases

\* Streams, locks, retries and transactions implement the abstract sale.
THEOREM Refinement == Spec => SaleSpec
<1> QED BY Invariance, InitSale, NextSale, PTL DEF Spec, SaleSpec, Sale!Spec

-----------------------------------------------------------------------------
(***************************************************************************)
(* A user's lock keeps TokenLock's promise.                                *)
(***************************************************************************)
PhasesFor(u) == [c \in Consumers |-> LockPhase(c, u)]

\* The phase of a goroutine that calls p next for a message of that user (s).
PhaseAt(p, s) ==
  IF p \in {"check", "write", "unlock"} /\ s
    THEN IF p = "unlock" THEN "leaving" ELSE "in"
    ELSE "out"

LEMMA OutsidePhase ==
  ASSUME NEW c \in Consumers, NEW u \in Users
  PROVE  /\ pc[c] \notin {"check", "write", "unlock"} => LockPhase(c, u) = "out"
         /\ pc'[c] \notin {"check", "write", "unlock"} => LockPhase(c, u)' = "out"
BY DEF LockPhase, InsideFor, Inside

LEMMA PhaseKept ==
  ASSUME Typing, [Next]_vars, NEW c \in Consumers, NEW u \in Users,
         pc'[c] = pc[c], batch'[c] = batch[c]
  PROVE  LockPhase(c, u)' = LockPhase(c, u)
<1>1. batch[c] \subseteq 1..Len(stream)
  BY DEF Typing, TypeOK
<1>2. \A i \in batch[c] : UserOf(i)' = UserOf(i)
  BY <1>1, UserKept
<1>3. \A i : IsNext(c, i)' <=> IsNext(c, i)
  BY DEF IsNext
<1>4. InsideFor(c, u)' <=> InsideFor(c, u)
  BY <1>2, <1>3 DEF InsideFor, Inside
<1> QED BY <1>4 DEF LockPhase

LEMMA PhaseOfNext ==
  ASSUME Typing, [Next]_vars, NEW c \in Consumers, NEW i \in Ids, NEW u \in Users,
         IsNext(c, i), batch' = batch
  PROVE  /\ LockPhase(c, u) = PhaseAt(pc[c], UserOf(i) = u)
         /\ LockPhase(c, u)' = PhaseAt(pc'[c], UserOf(i) = u)
<1>1. i \in batch[c] /\ batch[c] \subseteq Ids /\ i \in 1..Len(stream)
  <2>1. i \in batch[c] /\ batch[c] \subseteq 1..delivered
    BY DEF IsNext, Typing, TypeOK
  <2>2. delivered \in 0..Len(stream) /\ Len(stream) \in Nat /\ Len(stream) <= MaxMsgs
    BY DEF Typing, TypeOK
  <2> QED BY <2>1, <2>2, BoundAssumption DEF Ids
<1>2. UserOf(i)' = UserOf(i)
  BY <1>1, UserKept
<1>3. IsNext(c, i)' /\ \A j : IsNext(c, j)' <=> IsNext(c, j)
  BY DEF IsNext
<1>4. \A j \in batch[c] : IsNext(c, j) => j = i
  BY <1>1, NextOfBatch
<1>5. InsideFor(c, u) <=> pc[c] \in {"check", "write", "unlock"} /\ UserOf(i) = u
  BY <1>1, <1>4 DEF InsideFor, Inside
<1>6. InsideFor(c, u)' <=> pc'[c] \in {"check", "write", "unlock"} /\ UserOf(i) = u
  BY <1>1, <1>2, <1>3, <1>4 DEF InsideFor, Inside
<1> QED BY <1>5, <1>6 DEF LockPhase, PhaseAt

LEMMA PhaseMoves ==
  ASSUME NEW u \in Users, NEW c \in Consumers, NEW p, LockPhase(c, u)' = p,
         \A d \in Consumers \ {c} : LockPhase(d, u)' = LockPhase(d, u)
  PROVE  LockOf(u)!Enter(c, p)
<1>1. PhasesFor(u)' = [PhasesFor(u) EXCEPT ![c] = p]
  <2>1. PhasesFor(u)' = [d \in Consumers |-> LockPhase(d, u)']
    BY DEF PhasesFor
  <2>2. [PhasesFor(u) EXCEPT ![c] = p]
          = [d \in Consumers |-> IF d = c THEN p ELSE LockPhase(d, u)]
    BY DEF PhasesFor
  <2>3. \A d \in Consumers : LockPhase(d, u)' = IF d = c THEN p ELSE LockPhase(d, u)
    OBVIOUS
  <2> QED BY <2>1, <2>2, <2>3, Zenon
<1> QED BY <1>1 DEF LockOf!Enter, PhasesFor

LEMMA PhasesStay ==
  ASSUME NEW u \in Users, \A d \in Consumers : LockPhase(d, u)' = LockPhase(d, u)
  PROVE  PhasesFor(u)' = PhasesFor(u)
BY Zenon DEF PhasesFor

LEMMA FaultsKept ==
  ASSUME Typing, [Next]_vars
  PROVE  /\ faults > 0 => faults' > 0
         /\ Fault => faults' > 0
<1>1. faults \in Nat
  BY DEF Typing, TypeOK
<1>2. faults' = faults \/ faults' = faults + 1
  <2>1. ASSUME NEW i \in Ids, LoopStep(i) PROVE faults' = faults \/ faults' = faults + 1
    BY <2>1, Zenon
    DEF LoopStep, SyncSettle, SyncAckError, GetRetryCount, GetRetryCountError,
        PendingSettle, PendingSettleError, DeadLetter, DeadLetterError, DeadAck,
        DeadAckError, ClearRetryCount, ClearRetryCountError, Fault, NoFault, boundVars
  <2>2. ASSUME NEW c \in Consumers, NEW i \in Ids,
               \/ Lock(c, i) \/ LockError(c, i) \/ Check(c, i) \/ CheckError(c, i)
               \/ CreateOrder(c, i) \/ CreateOrderError(c, i) \/ CommitReplyLost(c, i)
               \/ Unlock(c, i) \/ UnlockError(c, i)
        PROVE  faults' = faults \/ faults' = faults + 1
    BY <2>2, Zenon
    DEF Lock, LockError, Check, CheckError, CreateOrder, CreateOrderError, CommitReplyLost,
        Unlock, UnlockError, Fault, NoFault, boundVars
  <2>3. ASSUME \/ \E u \in Users, v \in Vouchers : SeckillVoucher(u, v)
               \/ ReadNew \/ ReadNewLost \/ ReadPending
               \/ \E u \in Users : Lapse(u) \/ Expire(u)
               \/ Crash \/ UNCHANGED vars
        PROVE  faults' = faults \/ faults' = faults + 1
    BY <2>3
    DEF SeckillVoucher, ReadNew, ReadNewLost, ReadPending, Lapse, Expire, Crash, Fault,
        NoFault, boundVars, vars
  <2> QED BY <2>1, <2>2, <2>3, NextCases
<1> QED BY <1>1, <1>2 DEF Fault

LEMMA InitLocks == ASSUME Init, NEW u \in Users PROVE LockOf(u)!Init
<1>1. \A c \in Consumers : LockPhase(c, u) = "out"
  BY OutsidePhase DEF Init
<1>2. [c \in Consumers |-> LockPhase(c, u)] = [c \in Consumers |-> "out"]
  BY <1>1, Zenon
<1>3. lock[u] = "free" /\ (faults > 0) = FALSE
  BY DEF Init
<1> QED BY <1>2, <1>3 DEF LockOf!Init

\* What processVoucherMessage does to the lock of its message's user.
LEMMA ProcessLock ==
  ASSUME Typing, [Next]_vars, NEW u \in Users, NEW c \in Consumers, NEW i \in Ids,
         \/ Lock(c, i) \/ LockError(c, i) \/ Check(c, i) \/ CheckError(c, i)
         \/ CreateOrder(c, i) \/ CreateOrderError(c, i) \/ CommitReplyLost(c, i)
         \/ Unlock(c, i) \/ UnlockError(c, i)
  PROVE  \/ lock'[u] = lock[u] /\ LockPhase(c, u)' = LockPhase(c, u)
         \/ LockPhase(c, u) = "out" /\ LockPhase(c, u)' = "in" /\ lock[u] = "free" /\ lock'[u] = c
         \/ /\ LockPhase(c, u)' = LockPhase(c, u)
            /\ lock[u] = "free" /\ lock'[u] = "orphan" /\ faults' > 0
         \/ LockPhase(c, u) = "in" /\ LockPhase(c, u)' = "leaving" /\ lock'[u] = lock[u]
         \/ /\ LockPhase(c, u) = "leaving" /\ LockPhase(c, u)' = "out"
            /\ \/ lock'[u] = IF lock[u] = c THEN "free" ELSE lock[u]
               \/ faults' > 0 /\ lock'[u] = IF lock[u] = c THEN "orphan" ELSE lock[u]
<1> DEFINE s == UserOf(i) = u
           Goal ==
             \/ lock'[u] = lock[u] /\ LockPhase(c, u)' = LockPhase(c, u)
             \/ /\ LockPhase(c, u) = "out" /\ LockPhase(c, u)' = "in"
                /\ lock[u] = "free" /\ lock'[u] = c
             \/ /\ LockPhase(c, u)' = LockPhase(c, u)
                /\ lock[u] = "free" /\ lock'[u] = "orphan" /\ faults' > 0
             \/ LockPhase(c, u) = "in" /\ LockPhase(c, u)' = "leaving" /\ lock'[u] = lock[u]
             \/ /\ LockPhase(c, u) = "leaving" /\ LockPhase(c, u)' = "out"
                /\ \/ lock'[u] = IF lock[u] = c THEN "free" ELSE lock[u]
                   \/ faults' > 0 /\ lock'[u] = IF lock[u] = c THEN "orphan" ELSE lock[u]
<1>0. lock \in [Users -> Tokens] /\ pc \in [Consumers -> Phases]
  BY DEF Typing, TypeOK
<1>1. /\ LockPhase(c, u) = PhaseAt(pc[c], s)
      /\ LockPhase(c, u)' = PhaseAt(pc'[c], s)
  BY ProcessControl, PhaseOfNext
<1>2. ASSUME NEW p, Goto(c, p) PROVE pc'[c] = p
  BY <1>0, <1>2 DEF Goto
<1> HIDE DEF s
<1>3. ASSUME Lock(c, i) PROVE Goal
  <2>1. \/ lock' = lock /\ Goto(c, "settle")
        \/ /\ lock[UserOf(i)] = "free" /\ lock' = [lock EXCEPT ![UserOf(i)] = c]
           /\ Goto(c, "check")
    BY <1>3, Zenon DEF Lock
  <2>2. pc[c] = "lock"
    BY <1>3 DEF Lock, At
  <2>3. CASE lock' = lock /\ Goto(c, "settle")
    BY <1>1, <1>2, <2>2, <2>3 DEF PhaseAt
  <2>4. CASE /\ lock[UserOf(i)] = "free" /\ lock' = [lock EXCEPT ![UserOf(i)] = c]
             /\ Goto(c, "check")
    <3>1. pc'[c] = "check"
      BY <1>2, <2>4
    <3>2. IF s THEN lock[u] = "free" /\ lock'[u] = c ELSE lock'[u] = lock[u]
      BY <1>0, <2>4 DEF s
    <3> QED BY <1>1, <2>2, <3>1, <3>2 DEF PhaseAt
  <2> QED BY <2>1, <2>3, <2>4
<1>4. ASSUME LockError(c, i) PROVE Goal
  <2>1. \/ lock' = lock
        \/ lock[UserOf(i)] = "free" /\ lock' = [lock EXCEPT ![UserOf(i)] = "orphan"]
    <3>1. \/ lock' = lock
          \/ lock' = IF lock[UserOf(i)] = "free"
                       THEN [lock EXCEPT ![UserOf(i)] = "orphan"] ELSE lock
      BY <1>4 DEF LockError
    <3> QED BY <3>1, Zenon
  <2>2. pc[c] = "lock" /\ pc'[c] = "settle" /\ faults' > 0
    BY <1>2, <1>4, FaultsKept DEF LockError, At
  <2>3. LockPhase(c, u)' = LockPhase(c, u)
    BY <1>1, <2>2 DEF PhaseAt
  <2>4. lock'[u] = lock[u] \/ (lock[u] = "free" /\ lock'[u] = "orphan")
    BY <1>0, <2>1
  <2> QED BY <2>2, <2>3, <2>4
<1>5. ASSUME Check(c, i) \/ CheckError(c, i) PROVE Goal
  <2>1. lock' = lock /\ pc[c] = "check" /\ (Goto(c, "unlock") \/ Goto(c, "write"))
    BY <1>5, Zenon DEF Check, CheckError, At
  <2> QED BY <1>1, <1>2, <2>1 DEF PhaseAt
<1>6. ASSUME CreateOrder(c, i) \/ CreateOrderError(c, i) \/ CommitReplyLost(c, i) PROVE Goal
  <2>1. lock' = lock /\ pc[c] = "write" /\ Goto(c, "unlock")
    BY <1>6, Zenon DEF CreateOrder, CreateOrderError, CommitReplyLost, At
  <2> QED BY <1>1, <1>2, <2>1 DEF PhaseAt
<1>7. ASSUME Unlock(c, i) PROVE Goal
  <2>1. /\ pc[c] = "unlock" /\ Goto(c, "settle")
        /\ lock' = IF lock[UserOf(i)] = c THEN [lock EXCEPT ![UserOf(i)] = "free"] ELSE lock
    BY <1>7 DEF Unlock, At
  <2>2. lock'[u] = IF s /\ lock[u] = c THEN "free" ELSE lock[u]
    BY <1>0, <2>1 DEF s
  <2> QED BY <1>1, <1>2, <2>1, <2>2 DEF PhaseAt
<1>8. ASSUME UnlockError(c, i) PROVE Goal
  <2>1. pc[c] = "unlock" /\ Goto(c, "settle") /\ faults' > 0
    BY <1>8, FaultsKept DEF UnlockError, At
  <2>2. PICK word \in {"free", "orphan"} :
          lock' = IF lock[UserOf(i)] = c THEN [lock EXCEPT ![UserOf(i)] = word] ELSE lock
    BY <1>8 DEF UnlockError
  <2>3. lock'[u] = IF s /\ lock[u] = c THEN word ELSE lock[u]
    BY <1>0, <2>2 DEF s
  <2> QED BY <1>1, <1>2, <2>1, <2>3 DEF PhaseAt
<1> QED BY <1>3, <1>4, <1>5, <1>6, <1>7, <1>8

LEMMA NextLocks ==
  ASSUME Typing, [Next]_vars, NEW u \in Users
  PROVE  [LockOf(u)!Next]_(LockOf(u)!lockVars)
<1> DEFINE Goal == LockOf(u)!Next \/ UNCHANGED LockOf(u)!lockVars
           Same == \A d \in Consumers : LockPhase(d, u)' = LockPhase(d, u)
<1>0. lock \in [Users -> Tokens]
  BY DEF Typing, TypeOK
<1>1. LockOf(u)!Remembers
  BY FaultsKept DEF LockOf!Remembers
\* A step that leaves the lock and the phases as they are.
<1>2. ASSUME lock'[u] = lock[u], Same PROVE Goal
  <2>1. PhasesFor(u)' = PhasesFor(u)
    BY <1>2, PhasesStay
  <2>2. CASE faults' > 0
    BY <1>2, <2>1, <2>2 DEF LockOf!Next, LockOf!Disturb, PhasesFor
  <2>3. CASE ~(faults' > 0)
    <3>1. (faults' > 0) = (faults > 0)
      BY <2>3, FaultsKept
    <3> QED BY <1>2, <2>1, <3>1 DEF LockOf!lockVars, PhasesFor
  <2> QED BY <2>2, <2>3
<1>3. ASSUME \/ \E w \in Users, v \in Vouchers : SeckillVoucher(w, v)
             \/ UNCHANGED vars
      PROVE  Goal
  <2>1. lock' = lock /\ pc' = pc /\ batch' = batch
    BY <1>3 DEF SeckillVoucher, vars, procVars
  <2> QED BY <1>2, <2>1, PhaseKept
<1>4. ASSUME ReadNew \/ ReadNewLost \/ ReadPending PROVE Goal
  <2>1. lock' = lock
    BY <1>4 DEF ReadNew, ReadNewLost, ReadPending, Deliver
  <2>2. ASSUME NEW d \in Consumers
        PROVE  \/ pc'[d] = pc[d] /\ batch'[d] = batch[d]
               \/ pc[d] = "idle" /\ pc'[d] \in {"lock", "count"}
    BY <1>4 DEF ReadNew, ReadNewLost, ReadPending, Deliver, Goto, Typing, TypeOK, Consumers
  <2>3. Same
    BY <2>2, PhaseKept, OutsidePhase
  <2> QED BY <1>2, <2>1, <2>3
<1>5. ASSUME NEW i \in Ids, LoopStep(i) PROVE Goal
  <2>1. lock' = lock
    BY <1>5
    DEF LoopStep, SyncSettle, SyncAckError, GetRetryCount, GetRetryCountError, StartTry,
        PendingSettle, PendingSettleError, DeadLetter, DeadLetterError, DeadAck, DeadAckError,
        ClearRetryCount, ClearRetryCountError, KeepsStores
  <2>2. PICK c \in Consumers :
           /\ pc[c] \in {"settle", "count", "dead", "deadack", "clear"}
           /\ \A d \in Consumers \ {c} : pc'[d] = pc[d] /\ batch'[d] = batch[d]
           /\ pc'[c] \in {"idle", "lock", "count", "dead", "clear", "deadack"}
    BY <1>5, LoopControl
  <2>3. Same
    BY <2>2, PhaseKept, OutsidePhase
  <2> QED BY <1>2, <2>1, <2>3
<1>6. ASSUME NEW w \in Users, Lapse(w) PROVE Goal
  <2>1. pc' = pc /\ batch' = batch /\ faults' > 0
    BY <1>6, FaultsKept DEF Lapse, procVars
  <2>2. Same
    BY <2>1, PhaseKept
  <2>3. CASE w = u
    <3>1. lock[u] \in Consumers /\ lock'[u] = "free"
      BY <1>0, <1>6, <2>3 DEF Lapse
    <3>2. PICK c \in Consumers : lock[u] = c
      BY <3>1
    <3>3. LockOf(u)!Lapse(c)
      BY <1>1, <2>1, <2>2, <3>1, <3>2, PhasesStay DEF LockOf!Lapse, PhasesFor
    <3> QED BY <3>3 DEF LockOf!Next
  <2>4. CASE w # u
    <3>1. lock'[u] = lock[u]
      BY <1>0, <1>6, <2>4 DEF Lapse
    <3> QED BY <1>2, <2>2, <3>1
  <2> QED BY <2>3, <2>4
<1>7. ASSUME NEW w \in Users, Expire(w) PROVE Goal
  <2>1. pc' = pc /\ batch' = batch
    BY <1>7 DEF Expire, procVars
  <2>2. Same
    BY <2>1, PhaseKept
  <2>3. CASE w = u
    <3>1. lock[u] = "orphan" /\ lock'[u] = "free"
      BY <1>0, <1>7, <2>3 DEF Expire
    <3>2. LockOf(u)!Expire
      BY <1>1, <2>2, <3>1, PhasesStay DEF LockOf!Expire, PhasesFor
    <3> QED BY <3>2 DEF LockOf!Next
  <2>4. CASE w # u
    <3>1. lock'[u] = lock[u]
      BY <1>0, <1>7, <2>4 DEF Expire
    <3> QED BY <1>2, <2>2, <3>1
  <2> QED BY <2>3, <2>4
<1>8. ASSUME Crash PROVE Goal
  <2>1. \A d \in Consumers : LockPhase(d, u)' = "out"
    BY <1>8, OutsidePhase DEF Crash
  <2>2. PhasesFor(u)' = [d \in Consumers |-> "out"]
    BY <2>1, Zenon DEF PhasesFor
  <2>3. lock'[u] = IF lock[u] = "free" THEN "free" ELSE "orphan"
    BY <1>0, <1>8 DEF Crash, Tokens, Consumers
  <2>4. LockOf(u)!Restart
    BY <1>1, <2>2, <2>3 DEF LockOf!Restart, PhasesFor
  <2> QED BY <2>4 DEF LockOf!Next
<1>9. ASSUME NEW c \in Consumers, NEW i \in Ids,
             \/ Lock(c, i) \/ LockError(c, i) \/ Check(c, i) \/ CheckError(c, i)
             \/ CreateOrder(c, i) \/ CreateOrderError(c, i) \/ CommitReplyLost(c, i)
             \/ Unlock(c, i) \/ UnlockError(c, i)
      PROVE  Goal
  <2>1. \A d \in Consumers \ {c} : LockPhase(d, u)' = LockPhase(d, u)
    BY <1>9, ProcessControl, PhaseKept
  <2>2. PhasesFor(u)[c] = LockPhase(c, u)
    BY DEF PhasesFor
  <2>3. ASSUME NEW p, LockPhase(c, u)' = p PROVE LockOf(u)!Enter(c, p)
    BY <2>1, <2>3, PhaseMoves
  <2>4. CASE lock'[u] = lock[u] /\ LockPhase(c, u)' = LockPhase(c, u)
    BY <1>2, <2>1, <2>4
  <2>5. CASE /\ LockPhase(c, u) = "out" /\ LockPhase(c, u)' = "in"
             /\ lock[u] = "free" /\ lock'[u] = c
    <3>1. LockOf(u)!Take(c)
      BY <1>1, <2>2, <2>3, <2>5 DEF LockOf!Take, PhasesFor
    <3> QED BY <3>1 DEF LockOf!Next
  <2>6. CASE /\ LockPhase(c, u)' = LockPhase(c, u)
             /\ lock[u] = "free" /\ lock'[u] = "orphan" /\ faults' > 0
    <3>1. PhasesFor(u)' = PhasesFor(u)
      BY <2>1, <2>6, PhasesStay
    <3>2. LockOf(u)!Lose
      BY <2>6, <3>1 DEF LockOf!Lose, PhasesFor
    <3> QED BY <3>2 DEF LockOf!Next
  <2>7. CASE /\ LockPhase(c, u) = "in" /\ LockPhase(c, u)' = "leaving"
             /\ lock'[u] = lock[u]
    <3>1. LockOf(u)!Leave(c)
      BY <1>1, <2>2, <2>3, <2>7 DEF LockOf!Leave, PhasesFor
    <3> QED BY <3>1 DEF LockOf!Next
  <2>8. CASE /\ LockPhase(c, u) = "leaving" /\ LockPhase(c, u)' = "out"
             /\ lock'[u] = IF lock[u] = c THEN "free" ELSE lock[u]
    <3>1. LockOf(u)!Return(c)
      BY <1>1, <2>2, <2>3, <2>8 DEF LockOf!Return, PhasesFor
    <3> QED BY <3>1 DEF LockOf!Next
  <2>9. CASE /\ LockPhase(c, u) = "leaving" /\ LockPhase(c, u)' = "out"
             /\ lock'[u] = IF lock[u] = c THEN "orphan" ELSE lock[u]
             /\ faults' > 0
    <3>1. LockOf(u)!Abandon(c)
      BY <2>2, <2>3, <2>9 DEF LockOf!Abandon, PhasesFor
    <3> QED BY <3>1 DEF LockOf!Next
  <2> HIDE DEF Goal
  <2> QED BY <1>9, <2>4, <2>5, <2>6, <2>7, <2>8, <2>9, ProcessLock
<1> HIDE DEF Goal
<1>10. Goal
  BY <1>3, <1>4, <1>5, <1>6, <1>7, <1>8, <1>9, NextCases
<1> QED BY <1>10 DEF Goal

\* Every user's lock keeps its promise to the two goroutines: who got it keeps
\* it until the deferred unlock, unless a call failed or the process restarted.
THEOREM LockRefinement == Spec => LocksKeepPromise
<1> DEFINE Start0 == \A u \in Users : LockOf(u)!Init
           Steps == \A u \in Users : [LockOf(u)!Next]_(LockOf(u)!lockVars)
<1>1. Init => Start0
  BY InitLocks
<1>2. Typing /\ [Next]_vars => [Steps]_vars
  BY NextLocks
<1> HIDE DEF Start0, Steps
<1>3. Spec => Start0 /\ [][Steps]_vars
  BY InitTyping, NextTyping, <1>1, <1>2, PTL DEF Spec
<1> QED BY <1>3 DEF LocksKeepPromise, Start0, Steps

\* Each user's lock taken alone implements TokenLock.
THEOREM EachLockIsTokenLock == \A u \in Users : Spec => LockOf(u)!Spec
<1> SUFFICES ASSUME NEW u \in Users PROVE Spec => LockOf(u)!Spec
  OBVIOUS
<1>1. Init => LockOf(u)!Init
  BY InitLocks
<1>2. Typing /\ [Next]_vars => [LockOf(u)!Next]_(LockOf(u)!lockVars)
  BY NextLocks
<1> QED BY InitTyping, NextTyping, <1>1, <1>2, PTL DEF Spec, LockOf!Spec

=============================================================================
