-------------------------- MODULE Catalogue_proofs --------------------------
(***************************************************************************)
(* Theorems about Catalogue, for any clients, shops, types, keys, hashes,  *)
(* sizes and bounds.                                                       *)
(***************************************************************************)
EXTENDS Catalogue, Counting, SequenceTheorems

USE CallsAssumption, QueueAssumption, HotAssumption, TypeCountAssumption,
    BitCountAssumption, HashAssumption

-----------------------------------------------------------------------------
(***************************************************************************)
(* Hot shops: types, and which rows may be where.                          *)
(***************************************************************************)
Read == [at: {"idle", "get", "lock", "send", "unlock"}, shop: HotShops \cup {"none"}]
Work == [at: {"receive", "query", "set"}, shop: HotShops \cup {"none"}, row: Nat]

\* Nothing is newer than the row, and what the worker is about to set is not
\* older than what it may meet: the entry, and SETs that are still on their way.
RowsFit ==
  /\ \A c \in Clients : hotReq[c].at # "idle" => hotReq[c].shop \in HotShops
  /\ worker.at # "receive" => worker.shop \in HotShops
  /\ \A s \in HotShops : hot[s].row <= hotRow[s]
  /\ \A l \in late : l.row <= hotRow[l.shop]
  /\ worker.at = "set" =>
       /\ hot[worker.shop].row <= worker.row /\ worker.row <= hotRow[worker.shop]
       /\ \A l \in late : l.shop = worker.shop => l.row <= worker.row

HotInv == HotTypeOK /\ RowsFit

LEMMA InitHotInv == Init => HotInv
<1> SUFFICES ASSUME Init PROVE HotInv
  OBVIOUS
<1>1. NoRead \in Read /\ NoRead.at = "idle" /\ Receiver \in Work /\ Receiver.at = "receive"
  BY DEF NoRead, Read, Receiver, Work
<1>2. /\ hotRow = [s \in HotShops |-> 1] /\ hot = [s \in HotShops |-> [row |-> 1, expired |-> FALSE]]
      /\ hotLock = [s \in HotShops |-> "free"] /\ hotReq = [c \in Clients |-> NoRead]
      /\ queue = <<>> /\ worker = Receiver /\ late = {}
  BY DEF Init, HotInit
<1>3. hotRow \in [HotShops -> Nat] /\ hot \in [HotShops -> Entries]
  BY <1>2 DEF Entries
<1>4. hotReq \in [Clients -> Read] /\ worker \in Work
  BY <1>1, <1>2
<1>5. queue \in Seq(HotShops) /\ Len(queue) = 0
  BY <1>2
<1>6. HotTypeOK
  BY <1>2, <1>3, <1>4, <1>5 DEF HotTypeOK, Read, Work
<1>7. RowsFit
  BY <1>1, <1>2 DEF RowsFit
<1> QED BY <1>6, <1>7 DEF HotInv

\* A request that goes on, or ends.
LEMMA ReadType ==
  ASSUME NEW c \in Clients, hotReq \in [Clients -> Read]
  PROVE  /\ hotReq[c] \in Read
         /\ EndRead(c) =>
              /\ hotReq' \in [Clients -> Read] /\ hotReq'[c].at = "idle"
              /\ \A d \in Clients \ {c} : hotReq'[d] = hotReq[d]
         /\ \A at \in {"lock", "send", "unlock"} : Reads(c, at) =>
              /\ hotReq' \in [Clients -> Read] /\ hotReq'[c].shop = hotReq[c].shop
              /\ \A d \in Clients \ {c} : hotReq'[d] = hotReq[d]
<1>1. NoRead \in Read /\ NoRead.at = "idle"
  BY DEF NoRead, Read
<1>2. ASSUME NEW at \in {"lock", "send", "unlock"}, Reads(c, at)
      PROVE  /\ hotReq' \in [Clients -> Read] /\ hotReq'[c].shop = hotReq[c].shop
             /\ \A d \in Clients \ {c} : hotReq'[d] = hotReq[d]
  <2>1. [hotReq[c] EXCEPT !.at = at] \in Read /\ [hotReq[c] EXCEPT !.at = at].shop = hotReq[c].shop
    BY DEF Read
  <2> QED BY <1>2, <2>1 DEF Reads
<1> QED BY <1>1, <1>2 DEF EndRead

LEMMA NextHotInv == HotInv /\ [Next]_catalogueVars => HotInv'
<1> SUFFICES ASSUME HotInv, [Next]_catalogueVars PROVE HotInv'
  OBVIOUS
<1>0. /\ hotRow \in [HotShops -> Nat] /\ hot \in [HotShops -> Entries]
      /\ hotLock \in [HotShops -> Clients \cup {"free", "orphan"}]
      /\ hotReq \in [Clients -> Read] /\ worker \in Work
      /\ queue \in Seq(HotShops) /\ Len(queue) <= QueueSize
      /\ late \subseteq [shop: HotShops, row: Nat]
      /\ NoRead \in Read /\ NoRead.at = "idle" /\ Receiver \in Work /\ Receiver.at = "receive"
  BY DEF HotInv, HotTypeOK, Read, Work, NoRead, Receiver
\* A step of a request: entries, rows and the worker are left alone.
<1>1. ASSUME OnlyReads, hotReq' \in [Clients -> Read], queue' \in Seq(HotShops), Len(queue') <= QueueSize,
             hotLock' \in [HotShops -> Clients \cup {"free", "orphan"}],
             \A c \in Clients : hotReq'[c].at # "idle" => hotReq'[c].shop \in HotShops
      PROVE  HotInv'
  <2>1. HotTypeOK'
    BY <1>0, <1>1 DEF OnlyReads, HotTypeOK, Read, Work
  <2> QED BY <1>1, <2>1 DEF OnlyReads, HotInv, RowsFit
<1>2. ASSUME NEW c \in Clients, NEW s \in HotShops, HotRead(c, s) PROVE HotInv'
  <2>1. [at |-> "get", shop |-> s] \in Read
    BY DEF Read
  <2>2. hotReq' \in [Clients -> Read] /\ \A d \in Clients : hotReq'[d].at # "idle" => hotReq'[d].shop \in HotShops
    BY <1>0, <1>2, <2>1 DEF HotRead, HotInv, RowsFit
  <2> QED BY <1>0, <1>1, <1>2, <2>2 DEF HotRead
<1>3. ASSUME NEW c \in Clients, HotStep(c) \/ HotReadError(c) PROVE HotInv'
  <2>1. OnlyReads
    BY <1>3 DEF HotStep, HotReadError, HotGet, HotTryLock, HotSend, HotUnlock
  <2>2. hotReq[c].at # "idle"
    BY <1>3 DEF HotStep, HotReadError, HotGet, HotTryLock, HotSend, HotUnlock
  <2>3. hotReq[c].shop \in HotShops
    BY <2>2 DEF HotInv, RowsFit
  <2>4. EndRead(c) \/ \E at \in {"lock", "send", "unlock"} : Reads(c, at)
    BY <1>3 DEF HotStep, HotReadError, HotGet, HotTryLock, HotSend, HotUnlock
  <2>5. hotReq' \in [Clients -> Read] /\ \A d \in Clients : hotReq'[d].at # "idle" => hotReq'[d].shop \in HotShops
    BY <1>0, <2>3, <2>4, ReadType DEF HotInv, RowsFit
  <2>6. queue' = queue \/ (queue' = Append(queue, hotReq[c].shop) /\ Len(queue) < QueueSize)
    BY <1>3 DEF HotStep, HotReadError, HotGet, HotTryLock, HotSend, HotUnlock
  <2>7. queue' \in Seq(HotShops) /\ Len(queue') <= QueueSize
    <3>1. CASE queue' = queue
      BY <1>0, <3>1
    <3>2. CASE queue' = Append(queue, hotReq[c].shop) /\ Len(queue) < QueueSize
      <4>1. queue' \in Seq(HotShops) /\ Len(queue') = Len(queue) + 1
        BY <1>0, <2>3, <3>2, AppendProperties
      <4>2. Len(queue) \in Nat /\ QueueSize \in Nat
        BY <1>0, LenProperties
      <4> QED BY <3>2, <4>1, <4>2
    <3> QED BY <2>6, <3>1, <3>2
  <2>8. hotLock' \in [HotShops -> Clients \cup {"free", "orphan"}]
    BY <1>0, <1>3, <2>3, ZenonT(30) DEF HotStep, HotReadError, HotGet, HotTryLock, HotSend, HotUnlock, FreeLock
  <2> QED BY <1>1, <2>1, <2>5, <2>7, <2>8
<1>4. CASE Receive
  <2>1. Head(queue) \in HotShops /\ Tail(queue) \in Seq(HotShops) /\ Len(Tail(queue)) = Len(queue) - 1
    BY <1>0, <1>4, HeadTailProperties, EmptySeq DEF Receive
  <2>2. Len(queue) \in Nat /\ QueueSize \in Nat
    BY <1>0, LenProperties
  <2>3. Len(Tail(queue)) <= QueueSize
    BY <1>0, <2>1, <2>2
  <2>4. worker' \in Work /\ worker'.at = "query" /\ worker'.shop \in HotShops
    BY <1>0, <1>4, <2>1 DEF Receive, Work
  <2>5. HotTypeOK'
    BY <1>0, <1>4, <2>1, <2>3, <2>4 DEF Receive, OnlyWorks, HotTypeOK, Read, Work
  <2> QED BY <1>4, <2>4, <2>5 DEF Receive, OnlyWorks, HotInv, RowsFit
<1>5. CASE QueryHot
  <2>1. worker.shop \in HotShops /\ hotRow[worker.shop] \in Nat
    BY <1>0, <1>5 DEF QueryHot, HotInv, RowsFit
  <2>2. worker' \in Work /\ worker'.at = "set" /\ worker'.shop = worker.shop /\ worker'.row = hotRow[worker.shop]
    BY <1>0, <1>5, <2>1 DEF QueryHot, Work
  <2>3. HotTypeOK'
    BY <1>0, <1>5, <2>2 DEF QueryHot, OnlyWorks, HotTypeOK, Read, Work
  <2> QED BY <1>0, <1>5, <2>1, <2>2, <2>3 DEF QueryHot, OnlyWorks, HotInv, RowsFit
<1>6. CASE SetHot
  <2>1. worker.shop \in HotShops /\ worker.row \in Nat /\ worker.row <= hotRow[worker.shop]
    BY <1>0, <1>6 DEF SetHot, HotInv, RowsFit, Work
  <2>2. hot' \in [HotShops -> Entries] /\ \A s \in HotShops : hot'[s].row <= hotRow[s]
    BY <1>0, <1>6, <2>1 DEF SetHot, HotInv, RowsFit, Entries
  <2>3. HotTypeOK'
    BY <1>0, <1>6, <2>2 DEF SetHot, OnlyWorks, HotTypeOK, Read, Work
  <2> QED BY <1>0, <1>6, <2>2, <2>3 DEF SetHot, OnlyWorks, HotInv, RowsFit
<1>7. CASE WorkerError
  <2>1. worker' \in {worker, Receiver} /\ OnlyWorks /\ hot' = hot /\ queue' = queue
    BY <1>7 DEF WorkerError
  <2>2. \/ late' = late
        \/ worker.at = "set" /\ late' = late \cup {[shop |-> worker.shop, row |-> worker.row]}
    BY <1>7 DEF WorkerError
  <2>3. late' \subseteq [shop: HotShops, row: Nat] /\ \A l \in late' : l.row <= hotRow[l.shop]
    BY <1>0, <2>2 DEF HotInv, RowsFit, Work
  <2>4. HotTypeOK'
    BY <1>0, <2>1, <2>3 DEF OnlyWorks, HotTypeOK, Read, Work
  <2>5. CASE worker' = Receiver
    BY <1>0, <2>1, <2>3, <2>4, <2>5 DEF OnlyWorks, HotInv, RowsFit
  <2>6. CASE worker' = worker
    <3>1. \A l \in late' : worker.at = "set" /\ l.shop = worker.shop => l.row <= worker.row
      BY <1>0, <2>2 DEF HotInv, RowsFit, Work
    <3> QED BY <1>0, <2>1, <2>3, <2>4, <2>6, <3>1 DEF OnlyWorks, HotInv, RowsFit
  <2> QED BY <2>1, <2>5, <2>6
<1>8. CASE LandHot
  <2>1. PICK l \in late : /\ hot' = [hot EXCEPT ![l.shop] = [row |-> l.row, expired |-> FALSE]]
                          /\ late' = late \ {l}
                          /\ OnlyWorks /\ UNCHANGED <<queue, worker>>
    BY <1>8 DEF LandHot
  <2>2. l.shop \in HotShops /\ l.row \in Nat /\ l.row <= hotRow[l.shop]
    BY <1>0 DEF HotInv, RowsFit
  <2>3. hot' \in [HotShops -> Entries] /\ \A s \in HotShops : hot'[s].row <= hotRow[s]
    BY <1>0, <2>1, <2>2 DEF HotInv, RowsFit, Entries
  <2>4. worker.at = "set" => hot'[worker.shop].row <= worker.row
    BY <1>0, <2>1, <2>2 DEF HotInv, RowsFit, Entries
  <2>5. HotTypeOK'
    BY <1>0, <2>1, <2>3 DEF OnlyWorks, HotTypeOK, Read, Work
  <2> QED BY <2>1, <2>3, <2>4, <2>5 DEF OnlyWorks, HotInv, RowsFit
<1>9. ASSUME NEW s \in HotShops, ChangeRow(s) PROVE HotInv'
  <2>1. hotRow' \in [HotShops -> Nat] /\ \A t \in HotShops : hotRow[t] <= hotRow'[t]
    BY <1>0, <1>9 DEF ChangeRow
  <2>2. HotTypeOK'
    BY <1>0, <1>9, <2>1 DEF ChangeRow, HotTypeOK, Read, Work
  <2>3. \A t \in HotShops : hot'[t].row <= hotRow'[t]
    BY <1>0, <1>9, <2>1 DEF ChangeRow, HotInv, RowsFit, Entries
  <2>4. \A l \in late' : l.row <= hotRow'[l.shop]
    BY <1>0, <1>9, <2>1 DEF ChangeRow, HotInv, RowsFit
  <2>5. worker'.at = "set" => worker'.row <= hotRow'[worker'.shop]
    BY <1>0, <1>9, <2>1 DEF ChangeRow, HotInv, RowsFit, Work
  <2> QED BY <1>9, <2>2, <2>3, <2>4, <2>5 DEF ChangeRow, HotInv, RowsFit
<1>10. ASSUME NEW s \in HotShops, DeleteHot(s) \/ ExpireHot(s) PROVE HotInv'
  <2>1. \/ hot' = [hot EXCEPT ![s] = Gone]
        \/ hot' = [hot EXCEPT ![s].expired = TRUE]
    BY <1>10 DEF DeleteHot, ExpireHot
  <2>2. UNCHANGED <<hotRow, hotLock, hotReq, queue, worker, late>>
    BY <1>10 DEF DeleteHot, ExpireHot
  <2>3. hot' \in [HotShops -> Entries] /\ \A t \in HotShops : hot'[t].row <= hot[t].row
    <3> DEFINE e == [hot[s] EXCEPT !.expired = TRUE]
    <3>1. Gone \in Entries /\ Gone.row = 0 /\ \A t \in HotShops : hot[t] \in Entries /\ hot[t].row \in Nat
      BY <1>0 DEF Entries, Gone
    <3>2. e \in Entries /\ e.row = hot[s].row
      BY <1>0 DEF Entries
    <3>3. hot' = [hot EXCEPT ![s] = Gone] \/ hot' = [hot EXCEPT ![s] = e]
      BY <2>1
    <3> HIDE DEF e
    <3>4. \A t \in HotShops : hot'[t] = hot[t] \/ hot'[t] = Gone \/ (t = s /\ hot'[t] = e)
      BY <1>0, <3>3
    <3>5. \A t \in HotShops : hot'[t].row <= hot[t].row
      BY <3>1, <3>2, <3>4
    <3>6. hot' \in [HotShops -> Entries]
      BY <1>0, <3>1, <3>2, <3>3
    <3> QED BY <3>5, <3>6
  <2>4. HotTypeOK'
    BY <1>0, <2>2, <2>3 DEF HotTypeOK, Read, Work
  <2>5. \A t \in HotShops : hot'[t].row <= hotRow'[t]
    BY <1>0, <2>2, <2>3 DEF HotInv, RowsFit, Entries
  <2>6. worker'.at = "set" => hot'[worker'.shop].row <= worker'.row
    BY <1>0, <2>2, <2>3 DEF HotInv, RowsFit, Entries, Work
  <2> QED BY <2>2, <2>4, <2>5, <2>6 DEF HotInv, RowsFit
<1>11. ASSUME NEW s \in HotShops, FreeOrphan(s) \/ LoseLock(s) PROVE HotInv'
  <2>1. hotLock' = [hotLock EXCEPT ![s] = "free"] /\ UNCHANGED <<hotRow, hot, hotReq, queue, worker, late>>
    BY <1>11 DEF FreeOrphan, LoseLock
  <2>2. HotTypeOK'
    BY <1>0, <2>1 DEF HotTypeOK, Read, Work
  <2> QED BY <2>1, <2>2 DEF HotInv, RowsFit
<1>12. CASE HotCrash
  <2>1. hotReq' \in [Clients -> Read] /\ \A c \in Clients : hotReq'[c].at = "idle"
    BY <1>0, <1>12 DEF HotCrash
  <2>2. queue' \in Seq(HotShops) /\ Len(queue') <= QueueSize
    BY <1>12 DEF HotCrash
  <2>3. HotTypeOK'
    BY <1>0, <1>12, <2>1, <2>2 DEF HotCrash, HotTypeOK, Read, Work
  <2> QED BY <1>0, <1>12, <2>1, <2>3 DEF HotCrash, HotInv, RowsFit
<1>13. CASE UNCHANGED hotVars
  BY <1>13 DEF hotVars, HotInv, HotTypeOK, RowsFit
<1>14. HotNext => HotInv'
  BY <1>2, <1>3, <1>4, <1>5, <1>6, <1>7, <1>8, <1>9, <1>10, <1>11 DEF HotNext, WorkerStep
<1> QED BY <1>12, <1>13, <1>14 DEF Next, Crash, catalogueVars

(***************************************************************************)
(* An entry never goes back, unless a SET lands late.  The worker's row is *)
(* not older than the entry because nobody else writes entries: that is    *)
(* what RowsFit carries from its SELECT to its SET.                        *)
(***************************************************************************)
THEOREM RowsMoveForward == Spec => RebuildsInOrder
<1>1. HotInv /\ [Next]_catalogueVars => [late = {} => Forward]_hotVars
  <2> SUFFICES ASSUME HotInv, [Next]_catalogueVars, late = {} PROVE Forward
    OBVIOUS
  <2>0. hot \in [HotShops -> Entries] /\ worker \in Work
    BY DEF HotInv, HotTypeOK, Work
  <2>1. CASE hot' = hot
    BY <2>0, <2>1 DEF Forward, Entries
  <2>2. CASE SetHot
    BY <2>0, <2>2 DEF SetHot, Forward, Entries, Work, HotInv, RowsFit
  <2>3. ASSUME NEW s \in HotShops, DeleteHot(s) \/ ExpireHot(s) PROVE Forward
    BY <2>0, <2>3 DEF DeleteHot, ExpireHot, Forward, Entries
  <2>4. ~LandHot
    BY DEF LandHot
  <2>5. \/ hot' = hot \/ SetHot \/ LandHot
        \/ \E s \in HotShops : DeleteHot(s) \/ ExpireHot(s)
    BY DEF Next, catalogueVars, hotVars, HotNext, HotStep, HotGet, HotTryLock, HotSend, HotUnlock,
       HotReadError, HotRead, OnlyReads, WorkerStep, Receive, QueryHot, WorkerError,
       ChangeRow, FreeOrphan, LoseLock, Crash, HotCrash
  <2> QED BY <2>1, <2>2, <2>3, <2>4, <2>5
<1> QED BY InitHotInv, NextHotInv, <1>1, PTL DEF Spec, RebuildsInOrder

-----------------------------------------------------------------------------
(***************************************************************************)
(* The list of shop types and the Bloom filter: types.                     *)
(***************************************************************************)
ListReq == [at: {"idle", "range", "query", "push"}, type: Types]

LEMMA ListReqType ==
  /\ NoList \in ListReq
  /\ [NoList EXCEPT !.at = "range"] \in ListReq /\ [NoList EXCEPT !.at = "query"] \in ListReq
  /\ Push(1) \in ListReq /\ \A t \in Types : Push(t + 1) \in ListReq
<1>1. 1 \in Types /\ \A t \in Types : t \in Int /\ (~(t + 1 > TypeCount) => t + 1 \in Types)
  BY DEF Types
<1>2. NoList \in ListReq /\ \A t \in Types : [at |-> "push", type |-> t] \in ListReq
  BY <1>1 DEF NoList, ListReq
<1>3. [NoList EXCEPT !.at = "range"] \in ListReq /\ [NoList EXCEPT !.at = "query"] \in ListReq
  BY <1>1 DEF NoList, ListReq
<1>4. Push(1) \in ListReq
  BY <1>1, <1>2 DEF Push
<1>5. ASSUME NEW t \in Types PROVE Push(t + 1) \in ListReq
  BY <1>1, <1>2 DEF Push
<1> QED BY <1>2, <1>3, <1>4, <1>5

LEMMA InitListType == Init => ListTypeOK
<1> SUFFICES ASSUME Init PROVE ListTypeOK
  OBVIOUS
<1>1. list \in Seq(Types) /\ listReq \in [Clients -> ListReq]
  BY ListReqType DEF Init, ListInit
<1>2. listCut \in BOOLEAN
  BY Zenon DEF Init, ListInit
<1>3. strays \in [Types -> Nat] /\ lost \in Nat
  BY DEF Init, ListInit
<1> QED BY <1>1, <1>2, <1>3, Zenon DEF ListTypeOK, ListReq

LEMMA NextListType == ListTypeOK /\ [Next]_catalogueVars => ListTypeOK'
<1> SUFFICES ASSUME ListTypeOK, [Next]_catalogueVars PROVE ListTypeOK'
  OBVIOUS
<1>0. /\ list \in Seq(Types) /\ listReq \in [Clients -> ListReq] /\ listCut \in BOOLEAN
      /\ strays \in [Types -> Nat] /\ lost \in Nat
  BY Zenon DEF ListTypeOK, ListReq
<1>1. ASSUME NEW c \in Clients,
             QueryTypeList(c) \/ LRange(c) \/ QueryTypes(c) \/ RPush(c) \/ RPushResent(c) \/ ListError(c)
      PROVE  ListTypeOK'
  <2>1. listReq[c].type \in Types
    BY <1>0 DEF ListReq
  <2>2. listReq' = listReq \/ \E to \in ListReq : Goes(c, to)
    BY <1>1, <2>1, ListReqType DEF QueryTypeList, LRange, QueryTypes, RPush, RPushResent, ListError
  <2>3. listReq' \in [Clients -> ListReq]
    BY <1>0, <2>2 DEF Goes
  <2>4. list' = list \/ list' = Append(list, listReq[c].type)
    BY <1>1 DEF QueryTypeList, LRange, QueryTypes, RPush, RPushResent, ListError
  <2>5. list' \in Seq(Types)
    <3>1. Append(list, listReq[c].type) \in Seq(Types)
      BY <1>0, <2>1, AppendProperties
    <3> QED BY <1>0, <2>4, <3>1
  <2>6. listCut' = listCut \/ listCut' = (listCut \/ Pushing(c))
    BY <1>1, Zenon DEF QueryTypeList, LRange, QueryTypes, RPush, RPushResent, ListError
  <2>7. listCut' \in BOOLEAN
    BY <1>0, <2>6, Zenon
  <2>8. Stray(c) \/ NoStray
    BY <1>1 DEF QueryTypeList, LRange, QueryTypes, RPush, RPushResent, ListError
  <2>9. strays' \in [Types -> Nat] /\ lost' \in Nat
    BY <1>0, <2>1, <2>8 DEF Stray, NoStray
  <2> QED BY <2>3, <2>5, <2>7, <2>9, Zenon DEF ListTypeOK, ListReq
<1>4. ASSUME NEW t \in Types, LandPush(t) PROVE ListTypeOK'
  <2>1. list' \in Seq(Types)
    BY <1>0, <1>4, AppendProperties DEF LandPush
  <2>2. strays' \in [Types -> Nat] /\ lost' \in Nat
    BY <1>0, <1>4 DEF LandPush
  <2>3. listReq' = listReq /\ listCut' = listCut
    BY <1>4 DEF LandPush
  <2> QED BY <1>0, <2>1, <2>2, <2>3, Zenon DEF ListTypeOK, ListReq
<1>2. CASE ListCrash
  <2>1. list' = list /\ listReq' \in [Clients -> ListReq] /\ strays' = strays /\ lost' = lost
    BY <1>2, ListReqType DEF ListCrash, NoStray
  <2>2. listCut' \in BOOLEAN
    BY <1>2, Zenon DEF ListCrash
  <2> QED BY <1>0, <2>1, <2>2, Zenon DEF ListTypeOK, ListReq
<1>3. CASE UNCHANGED listVars
  BY <1>0, <1>3, Zenon DEF ListTypeOK, ListReq, listVars
<1> QED BY <1>1, <1>2, <1>3, <1>4 DEF Next, ListNext, Crash, catalogueVars

\* A position is inside the array, whatever the hash and the number of bits.
LEMMA PositionType ==
  ASSUME NEW k \in Keys, NEW i \in Seeds
  PROVE  Position(k, i) \in Bytes \X (0..7)
<1> DEFINE hash == Hash(k, i) % BitCount
<1>1. hash \in 0..(BitCount - 1)
  BY HashAssumption, BitCountAssumption
<1>2. Position(k, i) = <<hash \div 8, hash % 8>>
  BY DEF Position
<1> HIDE DEF hash
<1>3. hash \div 8 \in Bytes
  BY <1>1 DEF Bytes
<1>4. hash % 8 \in 0..7
  BY <1>1
<1> QED BY <1>2, <1>3, <1>4

AddReq == [at: {"load", "store"}, key: Keys, seed: Seeds, byte: SUBSET (0..7)]

\* An Add that goes on, or returns.
LEMMA AddReqType ==
  /\ 0 \in Seeds
  /\ \A k \in Keys, b \in SUBSET (0..7) :
       [at |-> "store", key |-> k, seed |-> 0, byte |-> b] \in AddReq
  /\ \A r \in AddReq, b \in SUBSET (0..7) : [r EXCEPT !.at = "store", !.byte = b] \in AddReq
  /\ \A r \in AddReq : r.seed # SeedCount - 1 =>
       [r EXCEPT !.at = "load", !.seed = @ + 1, !.byte = {}] \in AddReq
<1>1. SeedCount \in Nat \ {0}
  BY BitCountAssumption
<1>2. 0 \in Seeds /\ \A i \in Seeds : i # SeedCount - 1 => i + 1 \in Seeds
  BY <1>1 DEF Seeds
<1>3. ASSUME NEW r \in AddReq, r.seed # SeedCount - 1
      PROVE  [r EXCEPT !.at = "load", !.seed = @ + 1, !.byte = {}] \in AddReq
  <2>1. r.seed \in Seeds /\ r.seed + 1 \in Seeds
    BY <1>2, <1>3 DEF AddReq
  <2>2. {} \in SUBSET (0..7)
    OBVIOUS
  <2> QED BY <1>3, <2>1, <2>2 DEF AddReq
<1>4. \A k \in Keys, b \in SUBSET (0..7) :
        [at |-> "store", key |-> k, seed |-> 0, byte |-> b] \in AddReq
  BY <1>2 DEF AddReq
<1>5. \A r \in AddReq, b \in SUBSET (0..7) : [r EXCEPT !.at = "store", !.byte = b] \in AddReq
  BY DEF AddReq
<1> QED BY <1>2, <1>3, <1>4, <1>5

LEMMA NextBloomType == BloomTypeOK /\ [Next]_catalogueVars => BloomTypeOK'
<1> SUFFICES ASSUME BloomTypeOK, [Next]_catalogueVars PROVE BloomTypeOK'
  OBVIOUS
<1>0. /\ bits \subseteq Bytes \X (0..7) /\ alone \subseteq Clients /\ added \subseteq Keys
      /\ addReq \in [Clients -> {NoAdd} \cup AddReq]
      /\ NoAdd.at = "idle" /\ \A r \in AddReq : r.at \in {"load", "store"}
      /\ \A k, i : Loaded(k, i) \in SUBSET (0..7)
  BY DEF BloomTypeOK, AddReq, NoAdd, Loaded
\* One client goes on, the others stay where they are.
<1>1. ASSUME NEW c \in Clients, NEW r \in {NoAdd} \cup AddReq, addReq' = [addReq EXCEPT ![c] = r],
             bits' \subseteq Bytes \X (0..7), alone' \subseteq Clients, added' \subseteq Keys
      PROVE  BloomTypeOK'
  <2>1. addReq' \in [Clients -> {NoAdd} \cup AddReq]
    BY <1>0, <1>1
  <2> QED BY <1>1, <2>1 DEF BloomTypeOK, AddReq
<1>2. ASSUME NEW c \in Clients, addReq[c].at \in {"load", "store"}
      PROVE  addReq[c] \in AddReq /\ addReq[c].key \in Keys /\ addReq[c].seed \in Seeds
  BY <1>0, <1>2 DEF AddReq
<1>3. ASSUME NEW c \in Clients, NEW k \in Keys, Add(c, k) PROVE BloomTypeOK'
  BY <1>0, <1>1, <1>3, AddReqType DEF Add
<1>4. ASSUME NEW c \in Clients, LoadByte(c) PROVE BloomTypeOK'
  <2>1. addReq[c].at = "load"
    BY <1>4 DEF LoadByte
  <2>2. [addReq[c] EXCEPT !.at = "store", !.byte = Loaded(addReq[c].key, addReq[c].seed)] \in AddReq
    BY <1>0, <1>2, <2>1, AddReqType
  <2> QED BY <1>0, <1>1, <1>4, <2>2 DEF LoadByte
<1>5. ASSUME NEW c \in Clients, StoreByte(c) PROVE BloomTypeOK'
  <2>1. addReq[c].at = "store" /\ addReq[c] \in AddReq /\ addReq[c].key \in Keys /\ addReq[c].seed \in Seeds
    BY <1>2, <1>5 DEF StoreByte
  <2>2. bits' \subseteq Bytes \X (0..7)
    <3>1. Target(c) \in Bytes \X (0..7)
      BY <2>1, PositionType DEF Target
    <3>2. addReq[c].byte \subseteq 0..7
      BY <2>1 DEF AddReq
    <3>3. bits' = BitsWith(c)
      BY <1>5 DEF StoreByte
    <3> QED BY <1>0, <3>1, <3>2, <3>3 DEF BitsWith
  <2>3. alone' \subseteq Clients /\ added' \subseteq Keys
    BY <1>0, <1>5, <2>1 DEF StoreByte
  <2>4. CASE Last(c)
    BY <1>1, <1>5, <2>2, <2>3, <2>4 DEF StoreByte
  <2>5. CASE ~Last(c)
    <3>1. [addReq[c] EXCEPT !.at = "load", !.seed = @ + 1, !.byte = {}] \in AddReq
      BY <2>1, <2>5, AddReqType DEF Last
    <3> QED BY <1>1, <1>5, <2>2, <2>3, <2>5, <3>1 DEF StoreByte
  <2> QED BY <2>4, <2>5
<1>6. CASE BloomCrash
  BY <1>6 DEF BloomCrash, BloomTypeOK
<1>7. CASE UNCHANGED bloomVars
  BY <1>7 DEF bloomVars, BloomTypeOK
<1> QED BY <1>3, <1>4, <1>5, <1>6, <1>7 DEF Next, BloomNext, Crash, catalogueVars

LEMMA NextCallsType == CallsTypeOK /\ [Next]_catalogueVars => CallsTypeOK'
<1> SUFFICES ASSUME CallsTypeOK, [Next]_catalogueVars PROVE CallsTypeOK'
  OBVIOUS
<1>1. Arrive \/ NoFault \/ Fault \/ Restart
  BY DEF Next, catalogueVars, callVars, NoFault, Crash, BloomNext, Add, LoadByte, StoreByte,
     ListNext, QueryTypeList, LRange, QueryTypes, RPush, RPushResent, LandPush, ListError,
     HotNext, HotStep, HotGet, HotTryLock, HotSend, HotUnlock, HotReadError, HotRead,
     WorkerStep, Receive, QueryHot, SetHot, WorkerError, LandHot,
     ChangeRow, DeleteHot, ExpireHot, FreeOrphan, LoseLock
<1> QED BY <1>1 DEF Arrive, NoFault, Fault, Restart, callVars, CallsTypeOK

(***************************************************************************)
(* The types of the three parts, positions in the filter included: no hash *)
(* and no number of bits makes an index outside of the array.              *)
(***************************************************************************)
THEOREM TypeCorrect == Spec => []TypeOK
<1>1. Init => BloomTypeOK /\ CallsTypeOK
  BY DEF Init, BloomInit, BloomTypeOK, CallsInit, CallsTypeOK
<1>2. HotInv => HotTypeOK
  BY DEF HotInv
<1> QED BY <1>1, <1>2, InitHotInv, NextHotInv, InitListType, NextListType, NextBloomType,
           NextCallsType, PTL DEF Spec, TypeOK

-----------------------------------------------------------------------------
(***************************************************************************)
(* The list of shop types: how often a type is in it.                      *)
(***************************************************************************)
At(t) == {i \in DOMAIN list : list[i] = t}

\* Requests that will push type t, and requests between their pushes of t and u.
Ahead(t) ==
  {c \in Clients : listReq[c].at = "query" \/ (listReq[c].at = "push" /\ listReq[c].type <= t)}

Between(t, u) ==
  {c \in Clients : listReq[c].at = "push" /\ t < listReq[c].type /\ listReq[c].type <= u}

\* No more of a type than requests could push, and replies were lost.
Few(t) == Copies(t) + strays[t] + Cardinality(Ahead(t)) <= Cardinality(Clients) + lost

Later(t, u) ==
  /\ Copies(t) + lost >= Copies(u) + strays[u] + Cardinality(Between(t, u))
  /\ ~listCut => Copies(u) + lost + Cardinality(Between(t, u)) >= Copies(t) + strays[t]

\* A request that pushes has executed its pushes of the types before.
Filled == \A c \in Clients : Pushing(c) => \A t \in Types : t < listReq[c].type => Copies(t) > 0

\* Either somebody pushes, or all types are there, or none, and none to come.
Whole ==
  ~listCut => \/ \E c \in Clients : Pushing(c)
              \/ \A t \in Types : Copies(t) > 0
              \/ \A t \in Types : Copies(t) = 0 /\ strays[t] = 0

ListInv ==
  /\ ListTypeOK
  /\ \A t \in Types : strays[t] <= lost
  /\ \A t \in Types : Few(t)
  /\ \A t, u \in Types : t < u => Later(t, u)
  /\ Filled /\ Whole

LEMMA CopiesType ==
  ASSUME ListTypeOK, NEW t
  PROVE  IsFiniteSet(At(t)) /\ Copies(t) = Cardinality(At(t)) /\ Copies(t) \in Nat
<1>1. list \in Seq(Types)
  BY DEF ListTypeOK
<1>2. DOMAIN list = 1..Len(list) /\ Len(list) \in Nat
  BY <1>1, LenProperties
<1>3. IsFiniteSet(DOMAIN list)
  BY <1>2, FS_Interval
<1>4. IsFiniteSet(At(t))
  BY <1>3, FS_Subset DEF At
<1> QED BY <1>4, FS_CardinalityType DEF Copies, At

LEMMA ClientSets ==
  ASSUME NEW S, S \subseteq Clients
  PROVE  IsFiniteSet(S) /\ Cardinality(S) \in Nat /\ Cardinality(S) <= Cardinality(Clients)
         /\ Cardinality(Clients) \in Nat
BY FinitelyManyClients, FS_Subset, FS_CardinalityType

LEMMA InitListInv == Init => ListInv
<1> SUFFICES ASSUME Init PROVE ListInv
  OBVIOUS
<1>1. ListTypeOK
  BY InitListType
<1>2. /\ list = <<>> /\ lost = 0 /\ \A c \in Clients : listReq[c].at = "idle"
      /\ \A t \in Types : strays[t] = 0
  BY DEF Init, ListInit, NoList
<1>3. ASSUME NEW t \in Types PROVE Copies(t) = 0
  <2>1. At(t) = {}
    BY <1>2 DEF At
  <2> QED BY <1>1, <2>1, CopiesType, FS_EmptySet
<1>4. ASSUME NEW t \in Types PROVE Few(t)
  <2>1. Ahead(t) = {}
    BY <1>2 DEF Ahead
  <2> QED BY <1>2, <1>3, <2>1, ClientSets, FS_EmptySet DEF Few
<1>5. ASSUME NEW t \in Types, NEW u \in Types PROVE Later(t, u)
  <2>1. Between(t, u) = {}
    BY <1>2 DEF Between
  <2> QED BY <1>2, <1>3, <2>1, FS_EmptySet DEF Later
<1>6. Filled
  BY <1>2 DEF Filled, Pushing
<1>7. Whole
  BY <1>2, <1>3 DEF Whole
<1> QED BY <1>1, <1>2, <1>4, <1>5, <1>6, <1>7 DEF ListInv

\* What an RPUSH does to the copies of a type.
LEMMA PushCopies ==
  ASSUME ListTypeOK, ListTypeOK', NEW x \in Types, list' = Append(list, x), NEW t \in Types
  PROVE  Copies(t)' = IF t = x THEN Copies(t) + 1 ELSE Copies(t)
<1>1. list \in Seq(Types) /\ Len(list) \in Nat /\ DOMAIN list = 1..Len(list)
  BY LenProperties DEF ListTypeOK
<1>2. /\ Len(list') = Len(list) + 1 /\ DOMAIN list' = 1..Len(list) + 1
      /\ list'[Len(list) + 1] = x /\ \A i \in 1..Len(list) : list'[i] = list[i]
  BY <1>1, AppendProperties
<1>3. IsFiniteSet(At(t)) /\ Copies(t) = Cardinality(At(t)) /\ Copies(t) \in Nat
  BY CopiesType
<1>4. Copies(t)' = Cardinality(At(t)')
  BY DEF Copies, At
<1>5. CASE t = x
  <2> DEFINE A == At(t)   n == Len(list) + 1
  <2>1. At(t)' = A \cup {n} /\ n \notin A
    BY <1>1, <1>2, <1>5 DEF At
  <2>2. IsFiniteSet(A)
    BY <1>3
  <2> HIDE DEF A, n
  <2>3. Cardinality(A \cup {n}) = Cardinality(A) + 1
    BY <2>1, <2>2, FS_AddElement
  <2>4. Copies(t)' = Copies(t) + 1
    BY <1>3, <1>4, <2>1, <2>3, Zenon DEF A
  <2> QED BY <1>5, <2>4
<1>6. CASE t # x
  <2>1. At(t)' = At(t)
    BY <1>1, <1>2, <1>6 DEF At
  <2> QED BY <1>3, <1>4, <1>6, <2>1
<1> QED BY <1>5, <1>6

\* What a step of client c does to the sets of clients.
LEMMA OthersStay ==
  ASSUME NEW c \in Clients, NEW t \in Types, NEW u \in Types,
         \A d \in Clients \ {c} : listReq'[d] = listReq[d]
  PROVE  /\ (c \in Ahead(t) <=> c \in Ahead(t)') => Cardinality(Ahead(t))' = Cardinality(Ahead(t))
         /\ c \in Ahead(t) /\ c \notin Ahead(t)' => Cardinality(Ahead(t))' = Cardinality(Ahead(t)) - 1
         /\ (c \in Between(t, u) <=> c \in Between(t, u)') =>
              Cardinality(Between(t, u))' = Cardinality(Between(t, u))
         /\ c \in Between(t, u) /\ c \notin Between(t, u)' =>
              Cardinality(Between(t, u))' = Cardinality(Between(t, u)) - 1
         /\ c \notin Between(t, u) /\ c \in Between(t, u)' =>
              Cardinality(Between(t, u))' = Cardinality(Between(t, u)) + 1
<1>1. Ahead(t) \ {c} = Ahead(t)' \ {c} /\ Between(t, u) \ {c} = Between(t, u)' \ {c}
  BY DEF Ahead, Between
<1>2. IsFiniteSet(Ahead(t)) /\ IsFiniteSet(Between(t, u))
  BY ClientSets DEF Ahead, Between
<1> DEFINE A == Ahead(t)   B == Ahead(t)'   C == Between(t, u)   D == Between(t, u)'
<1>3. Cardinality(Ahead(t))' = Cardinality(B) /\ Cardinality(Between(t, u))' = Cardinality(D)
  BY DEF Ahead, Between
<1>4. A \ {c} = B \ {c} /\ C \ {c} = D \ {c} /\ IsFiniteSet(A) /\ IsFiniteSet(C)
  BY <1>1, <1>2
<1> HIDE DEF A, B, C, D
<1>5. /\ (c \in A <=> c \in B) => Cardinality(B) = Cardinality(A)
      /\ c \in A /\ c \notin B => Cardinality(B) = Cardinality(A) - 1
  BY <1>4, ButOne
<1>6. /\ (c \in C <=> c \in D) => Cardinality(D) = Cardinality(C)
      /\ c \in C /\ c \notin D => Cardinality(D) = Cardinality(C) - 1
      /\ c \notin C /\ c \in D => Cardinality(D) = Cardinality(C) + 1
  BY <1>4, ButOne
<1> QED BY <1>3, <1>5, <1>6, Zenon DEF A, B, C, D

LEMMA NextListInv == ListInv /\ [Next]_catalogueVars => ListInv'
<1> SUFFICES ASSUME ListInv, [Next]_catalogueVars PROVE ListInv'
  OBVIOUS
<1>0. ListTypeOK /\ ListTypeOK'
  BY NextListType DEF ListInv
<1>1. /\ listReq \in [Clients -> ListReq] /\ listReq' \in [Clients -> ListReq]
      /\ lost \in Nat /\ strays \in [Types -> Nat]
  BY <1>0 DEF ListTypeOK, ListReq
<1>2. \A t \in Types : Copies(t) \in Nat /\ t \in Int /\ strays[t] \in Nat
  BY <1>0, <1>1, CopiesType DEF Types
<1>3. \A t, u \in Types : /\ Cardinality(Ahead(t)) \in Nat /\ Cardinality(Ahead(t)) <= Cardinality(Clients)
                         /\ Cardinality(Between(t, u)) \in Nat /\ Cardinality(Clients) \in Nat
  BY ClientSets DEF Ahead, Between
<1>4. /\ \A t, u \in Types : Few(t) /\ (t < u => Later(t, u)) /\ strays[t] <= lost
      /\ Filled /\ Whole
  BY DEF ListInv
\* A step that pushes nothing and takes nobody out of a set.
<1>5. ASSUME NEW c \in Clients, QueryTypeList(c) \/ LRange(c) \/ QueryTypes(c) PROVE ListInv'
  <2>1. /\ list' = list /\ listCut' = listCut /\ \A t \in Types : Copies(t)' = Copies(t)
        /\ strays' = strays /\ lost' = lost
    BY <1>5 DEF QueryTypeList, LRange, QueryTypes, Copies, NoStray
  <2>2. /\ \A d \in Clients \ {c} : listReq'[d] = listReq[d]
        /\ listReq[c].at \in {"idle", "range", "query"}
    BY <1>1, <1>5 DEF QueryTypeList, LRange, QueryTypes, Goes, NoList
  <2>3. \/ listReq[c].at # "query" /\ listReq'[c].at \in {"idle", "range"}
        \/ listReq[c].at # "query" /\ listReq'[c].at = "query" /\ list = <<>>
        \/ listReq[c].at = "query" /\ listReq'[c] = Push(1)
    BY <1>1, <1>5 DEF QueryTypeList, LRange, QueryTypes, Goes, NoList
  <2>4. Push(1).at = "push" /\ Push(1).type = 1 /\ \A t \in Types : 1 <= t
    BY DEF Push, Types
  <2>5. ASSUME NEW t \in Types PROVE Few(t)'
    <3>1. CASE listReq'[c].at = "query"
      <4>1. At(t) = {}
        BY <2>2, <2>3, <2>4, <3>1 DEF At
      <4>2. Copies(t)' = 0
        BY <1>0, <2>1, <4>1, CopiesType, FS_EmptySet
      <4>3. Cardinality(Ahead(t)') <= Cardinality(Clients) /\ Cardinality(Ahead(t)') \in Nat
        BY ClientSets DEF Ahead
      <4>4. Cardinality(Ahead(t))' = Cardinality(Ahead(t)')
        BY DEF Ahead
      <4> QED BY <1>1, <1>2, <1>3, <1>4, <2>1, <4>2, <4>3, <4>4 DEF Few
    <3>2. CASE listReq'[c].at # "query"
      <4>1. c \in Ahead(t) <=> c \in Ahead(t)'
        BY <2>2, <2>3, <2>4, <3>2 DEF Ahead
      <4>2. Cardinality(Ahead(t))' = Cardinality(Ahead(t))
        BY <2>2, <4>1, OthersStay
      <4> QED BY <1>4, <2>1, <4>2 DEF Few
    <3> QED BY <3>1, <3>2
  <2>6. ASSUME NEW t \in Types, NEW u \in Types, t < u PROVE Later(t, u)'
    <3>1. c \notin Between(t, u) /\ c \notin Between(t, u)'
      BY <1>2, <2>2, <2>3, <2>4 DEF Between
    <3>2. Cardinality(Between(t, u))' = Cardinality(Between(t, u))
      BY <2>2, <3>1, OthersStay
    <3> QED BY <1>4, <2>1, <2>6, <3>2 DEF Later
  <2>7. Filled'
    <3>1. ASSUME NEW d \in Clients, Pushing(d)', NEW t \in Types, t < listReq'[d].type
          PROVE  Copies(t)' > 0
      <4>1. d # c
        BY <1>2, <2>3, <2>4, <3>1 DEF Pushing
      <4> QED BY <1>4, <2>1, <2>2, <3>1, <4>1 DEF Filled, Pushing
    <3> QED BY <3>1 DEF Filled
  <2>8. \A d \in Clients : Pushing(d) => Pushing(d)'
    BY <2>2 DEF Pushing
  <2>9. Whole'
    BY <1>4, <2>1, <2>8 DEF Whole
  <2> QED BY <1>0, <1>4, <2>1, <2>5, <2>6, <2>7, <2>9 DEF ListInv
<1>6. ASSUME NEW c \in Clients, RPush(c) PROVE ListInv'
  <2> DEFINE x == listReq[c].type
  <2>1. /\ listReq[c].at = "push" /\ x \in Types /\ list' = Append(list, x) /\ listCut' = listCut
        /\ listReq'[c] = Push(x + 1) /\ \A d \in Clients \ {c} : listReq'[d] = listReq[d]
    BY <1>1, <1>6 DEF RPush, Pushing, Goes, ListReq
  <2>2. \/ x = TypeCount /\ listReq'[c].at = "idle"
        \/ listReq'[c].at = "push" /\ listReq'[c].type = x + 1
    BY <2>1 DEF Push, NoList, Types
  <2>3. \A t \in Types : t <= TypeCount
    BY DEF Types
  <2>4. \A t \in Types : Copies(t)' = IF t = x THEN Copies(t) + 1 ELSE Copies(t)
    BY <1>0, <2>1, PushCopies
  <2>5. x \in Int /\ TypeCount \in Int /\ (listCut' <=> listCut)
    BY <1>2, <2>1
  <2>6. strays' = strays /\ lost' = lost
    BY <1>6 DEF RPush, NoStray
  <2>8. ASSUME NEW t \in Types PROVE Few(t)'
    <3>1. CASE t = x
      <4>1. c \in Ahead(t) /\ c \notin Ahead(t)'
        BY <2>1, <2>2, <2>5, <3>1 DEF Ahead
      <4>2. Cardinality(Ahead(t))' = Cardinality(Ahead(t)) - 1
        BY <2>1, <4>1, OthersStay
      <4> QED BY <1>1, <1>2, <1>3, <1>4, <2>4, <2>6, <3>1, <4>2 DEF Few
    <3>2. CASE t # x
      <4>1. c \in Ahead(t) <=> c \in Ahead(t)'
        BY <1>2, <2>1, <2>2, <2>3, <2>5, <3>2, SMTT(30) DEF Ahead
      <4>2. Cardinality(Ahead(t))' = Cardinality(Ahead(t))
        BY <2>1, <4>1, OthersStay
      <4> QED BY <1>4, <2>4, <2>6, <3>2, <4>2 DEF Few
    <3> QED BY <3>1, <3>2
  <2>9. ASSUME NEW t \in Types, NEW u \in Types, t < u PROVE Later(t, u)'
    <3> DEFINE between == Cardinality(Between(t, u))
    <3>0. /\ t \in Int /\ u \in Int /\ u <= TypeCount /\ between \in Nat
          /\ Copies(t) \in Nat /\ Copies(u) \in Nat /\ Later(t, u)
          /\ strays[t] \in Nat /\ strays[u] \in Nat /\ lost \in Nat
      BY <1>1, <1>2, <1>3, <1>4, <2>3, <2>9
    <3>1. CASE x = t
      <4>1. c \notin Between(t, u) /\ c \in Between(t, u)'
        BY <1>2, <2>1, <2>2, <2>3, <2>5, <2>9, <3>1 DEF Between
      <4>2. Cardinality(Between(t, u))' = Cardinality(Between(t, u)) + 1
        BY <2>1, <4>1, OthersStay
      <4>3. Copies(t)' = Copies(t) + 1 /\ Copies(u)' = Copies(u)
        BY <1>2, <2>4, <2>9, <3>1
      <4> QED BY <2>5, <2>6, <3>0, <4>2, <4>3 DEF Later
    <3>2. CASE x = u
      <4>1. c \in Between(t, u) /\ c \notin Between(t, u)'
        BY <1>2, <2>1, <2>2, <2>5, <2>9, <3>2 DEF Between
      <4>2. Cardinality(Between(t, u))' = Cardinality(Between(t, u)) - 1
        BY <2>1, <4>1, OthersStay
      <4>3. Copies(t)' = Copies(t) /\ Copies(u)' = Copies(u) + 1
        BY <1>2, <2>4, <2>9, <3>2
      <4> QED BY <2>5, <2>6, <3>0, <4>2, <4>3 DEF Later
    <3>3. CASE x # t /\ x # u
      <4>1. c \in Between(t, u) <=> c \in Between(t, u)'
        <5>1. c \in Between(t, u) <=> t < x /\ x < u
          BY <2>1, <2>5, <3>0, <3>3 DEF Between
        <5>2. c \in Between(t, u)' <=> t < x /\ x < u
          BY <2>2, <2>5, <3>0, <3>3 DEF Between
        <5> QED BY <5>1, <5>2
      <4>2. Cardinality(Between(t, u))' = Cardinality(Between(t, u))
        BY <2>1, <4>1, OthersStay
      <4>3. Copies(t)' = Copies(t) /\ Copies(u)' = Copies(u)
        BY <2>4, <3>3
      <4> QED BY <2>5, <2>6, <3>0, <4>2, <4>3 DEF Later
    <3> QED BY <3>1, <3>2, <3>3
  <2>10. \A t \in Types : t <= x => Copies(t)' > 0
    <3> SUFFICES ASSUME NEW t \in Types, t <= x PROVE Copies(t)' > 0
      OBVIOUS
    <3>1. t # x => Copies(t) > 0
      BY <1>2, <1>4, <2>1, <2>5 DEF Filled, Pushing
    <3> QED BY <1>2, <2>4, <3>1
  <2>11. Filled'
    <3>1. ASSUME NEW d \in Clients, Pushing(d)', NEW t \in Types, t < listReq'[d].type
          PROVE  Copies(t)' > 0
      <4>1. CASE d = c
        BY <1>2, <2>2, <2>5, <2>10, <3>1, <4>1 DEF Pushing
      <4>2. CASE d # c
        <5>1. Copies(t) > 0
          BY <1>4, <2>1, <3>1, <4>2 DEF Filled, Pushing
        <5> QED BY <1>2, <2>4, <5>1
      <4> QED BY <4>1, <4>2
    <3> QED BY <3>1 DEF Filled
  <2>12. Whole'
    <3>1. Pushing(c)' \/ \A t \in Types : Copies(t)' > 0
      BY <2>2, <2>3, <2>10 DEF Pushing
    <3> QED BY <3>1 DEF Whole
  <2> QED BY <1>0, <1>4, <2>6, <2>8, <2>9, <2>11, <2>12 DEF ListInv
\* An RPUSH without a reply: of the type's copies one more may be to come.
<1>7. ASSUME NEW c \in Clients, Pushing(c), Stray(c), UNCHANGED list, listCut => listCut',
             \/ listReq' = listReq
             \/ /\ listReq'[c].at = "idle" /\ listCut'
                /\ \A d \in Clients \ {c} : listReq'[d] = listReq[d]
      PROVE  ListInv'
  <2> DEFINE x == listReq[c].type
  <2>1. /\ listReq[c].at = "push" /\ x \in Types /\ x \in Int /\ lost' = lost + 1
        /\ \A t \in Types : strays'[t] = IF t = x THEN strays[t] + 1 ELSE strays[t]
        /\ \A t \in Types : Copies(t)' = Copies(t)
        /\ \A d \in Clients \ {c} : listReq'[d] = listReq[d]
    BY <1>1, <1>2, <1>7 DEF Stray, Pushing, ListReq, Copies
  <2>2. \A t \in Types : strays'[t] <= lost'
    BY <1>1, <1>2, <1>4, <2>1
  <2>3. ASSUME NEW t \in Types PROVE Few(t)'
    <3>1. t = x => c \in Ahead(t)
      BY <1>2, <2>1 DEF Ahead
    <3>2. \/ Cardinality(Ahead(t))' = Cardinality(Ahead(t))
          \/ Cardinality(Ahead(t))' = Cardinality(Ahead(t)) - 1
      <4>1. CASE listReq' = listReq
        BY <4>1 DEF Ahead
      <4>2. CASE listReq'[c].at = "idle"
        <5>1. c \notin Ahead(t)'
          BY <4>2 DEF Ahead
        <5> QED BY <2>1, <5>1, OthersStay
      <4> QED BY <1>7, <4>1, <4>2
    <3> QED BY <1>1, <1>2, <1>3, <1>4, <2>1, <3>2 DEF Few
  <2>4. ASSUME NEW t \in Types, NEW u \in Types, t < u PROVE Later(t, u)'
    <3>0. /\ t \in Int /\ u \in Int /\ t # u /\ Cardinality(Between(t, u)) \in Nat
          /\ Copies(t) \in Nat /\ Copies(u) \in Nat /\ Later(t, u)
          /\ strays[t] \in Nat /\ strays[u] \in Nat /\ lost \in Nat
      BY <1>1, <1>2, <1>3, <1>4, <2>4
    <3>1. CASE listReq' = listReq
      <4>1. Cardinality(Between(t, u))' = Cardinality(Between(t, u))
        BY <3>1 DEF Between
      <4>2. /\ Copies(t)' + lost' >= Copies(u)' + strays'[u] + Cardinality(Between(t, u))'
        BY <2>1, <3>0, <4>1 DEF Later
      <4>3. ~listCut => Copies(u)' + lost' + Cardinality(Between(t, u))' >= Copies(t)' + strays'[t]
        BY <2>1, <3>0, <4>1 DEF Later
      <4> QED BY <1>7, <4>2, <4>3 DEF Later
    <3>2. CASE listReq'[c].at = "idle" /\ listCut'
      <4>1. c \notin Between(t, u)'
        BY <3>2 DEF Between
      <4>2. \/ Cardinality(Between(t, u))' = Cardinality(Between(t, u))
            \/ Cardinality(Between(t, u))' = Cardinality(Between(t, u)) - 1
        BY <2>1, <4>1, OthersStay
      <4>3. Copies(t)' + lost' >= Copies(u)' + strays'[u] + Cardinality(Between(t, u))'
        BY <2>1, <3>0, <4>2 DEF Later
      <4> QED BY <3>2, <4>3 DEF Later
    <3> QED BY <1>7, <3>1, <3>2
  <2>5. Filled'
    BY <1>4, <1>7, <2>1 DEF Filled, Pushing
  <2>6. Whole'
    BY <1>7, <2>1 DEF Whole, Pushing
  <2> QED BY <1>0, <2>2, <2>3, <2>4, <2>5, <2>6 DEF ListInv
\* A request that has not begun to push, and fails.
<1>8. ASSUME NEW c \in Clients, ListError(c), ~Pushing(c) PROVE ListInv'
  <2>1. /\ listReq'[c].at = "idle" /\ \A d \in Clients \ {c} : listReq'[d] = listReq[d]
        /\ listCut' <=> listCut
        /\ list' = list /\ strays' = strays /\ lost' = lost
    BY <1>1, <1>8 DEF ListError, Goes, NoList, NoStray
  <2>2. \A t \in Types : Copies(t)' = Copies(t)
    BY <2>1 DEF Copies
  <2>3. ASSUME NEW t \in Types PROVE Few(t)'
    <3>1. c \notin Ahead(t)'
      BY <2>1 DEF Ahead
    <3>2. \/ Cardinality(Ahead(t))' = Cardinality(Ahead(t))
          \/ Cardinality(Ahead(t))' = Cardinality(Ahead(t)) - 1
      BY <2>1, <3>1, OthersStay
    <3> QED BY <1>1, <1>2, <1>3, <1>4, <2>1, <2>2, <3>2 DEF Few
  <2>4. ASSUME NEW t \in Types, NEW u \in Types, t < u PROVE Later(t, u)'
    <3>1. c \notin Between(t, u) /\ c \notin Between(t, u)'
      BY <1>8, <2>1 DEF Between, Pushing
    <3>2. Cardinality(Between(t, u))' = Cardinality(Between(t, u))
      BY <2>1, <3>1, OthersStay
    <3> QED BY <1>4, <2>1, <2>2, <2>4, <3>2 DEF Later
  <2>5. \A d \in Clients : (Pushing(d) <=> Pushing(d)') /\ (Pushing(d)' => d # c)
    BY <1>8, <2>1 DEF Pushing
  <2>6. Filled'
    BY <1>4, <2>1, <2>2, <2>5 DEF Filled
  <2>7. Whole'
    BY <1>4, <2>1, <2>2, <2>5 DEF Whole
  <2> QED BY <1>0, <1>4, <2>1, <2>3, <2>4, <2>6, <2>7 DEF ListInv
<1>9. ASSUME NEW x \in Types, LandPush(x) PROVE ListInv'
  <2>1. /\ list' = Append(list, x) /\ strays[x] > 0 /\ lost' = lost /\ x \in Int
        /\ \A t \in Types : strays'[t] = IF t = x THEN strays[t] - 1 ELSE strays[t]
        /\ listReq' = listReq /\ (listCut' <=> listCut)
    BY <1>1, <1>2, <1>9 DEF LandPush
  <2>2. \A t \in Types : Copies(t)' = IF t = x THEN Copies(t) + 1 ELSE Copies(t)
    BY <1>0, <2>1, PushCopies
  <2>3. \A t, u \in Types : /\ Cardinality(Ahead(t))' = Cardinality(Ahead(t))
                           /\ Cardinality(Between(t, u))' = Cardinality(Between(t, u))
    BY <2>1 DEF Ahead, Between
  <2>4. ASSUME NEW t \in Types
        PROVE  /\ Copies(t)' + strays'[t] = Copies(t) + strays[t] /\ Copies(t)' >= Copies(t)
               /\ Copies(t)' \in Nat /\ strays'[t] \in Nat
    <3>1. Copies(t) \in Nat /\ strays[t] \in Nat
      BY <1>2
    <3>2. CASE t = x
      <4>1. Copies(t)' = Copies(t) + 1 /\ strays'[t] = strays[t] - 1 /\ strays[t] > 0
        BY <2>1, <2>2, <3>2
      <4> QED BY <3>1, <4>1
    <3>3. CASE t # x
      <4>1. Copies(t)' = Copies(t) /\ strays'[t] = strays[t]
        BY <2>1, <2>2, <3>3
      <4> QED BY <3>1, <4>1
    <3> QED BY <3>2, <3>3
  <2>5. \A t \in Types : strays'[t] <= lost'
    BY <1>1, <1>2, <1>4, <2>1
  <2>6. \A t \in Types : Copies(t)' \in Nat /\ strays'[t] \in Nat
    BY <2>4
  <2>7. ASSUME NEW t \in Types PROVE Few(t)'
    BY <1>1, <1>2, <1>3, <1>4, <2>1, <2>3, <2>4 DEF Few
  <2>8. ASSUME NEW t \in Types, NEW u \in Types, t < u PROVE Later(t, u)'
    <3>1. /\ Copies(t)' + strays'[t] = Copies(t) + strays[t] /\ Copies(t)' >= Copies(t)
          /\ Copies(u)' + strays'[u] = Copies(u) + strays[u] /\ Copies(u)' >= Copies(u)
          /\ Cardinality(Between(t, u))' = Cardinality(Between(t, u)) /\ lost' = lost
          /\ Later(t, u)
      BY <1>4, <2>1, <2>3, <2>4, <2>8
    <3>2. /\ Copies(t) \in Nat /\ Copies(u) \in Nat /\ strays[t] \in Nat /\ strays[u] \in Nat
          /\ Copies(t)' \in Nat /\ Copies(u)' \in Nat /\ strays'[t] \in Nat /\ strays'[u] \in Nat
          /\ lost \in Nat /\ Cardinality(Between(t, u)) \in Nat
      BY <1>1, <1>2, <1>3, <2>6
    <3>3. Copies(t)' + lost' >= Copies(u)' + strays'[u] + Cardinality(Between(t, u))'
      BY <3>1, <3>2 DEF Later
    <3>4. ~listCut => Copies(u)' + lost' + Cardinality(Between(t, u))' >= Copies(t)' + strays'[t]
      BY <3>1, <3>2 DEF Later
    <3> QED BY <2>1, <3>3, <3>4 DEF Later
  <2>9. Filled'
    <3>1. ASSUME NEW d \in Clients, Pushing(d)', NEW t \in Types, t < listReq'[d].type
          PROVE  Copies(t)' > 0
      <4>1. Copies(t) > 0
        BY <1>4, <2>1, <3>1 DEF Filled, Pushing
      <4> QED BY <1>2, <2>4, <2>6, <4>1
    <3> QED BY <3>1 DEF Filled
  <2>10. Whole'
    <3>1. \A t \in Types : Copies(t) > 0 => Copies(t)' > 0
      BY <1>2, <2>4, <2>6
    <3>2. \A d \in Clients : Pushing(d) => Pushing(d)'
      BY <2>1 DEF Pushing
    <3>3. ~\A t \in Types : Copies(t) = 0 /\ strays[t] = 0
      BY <1>2, <2>1
    <3> QED BY <1>4, <2>1, <3>1, <3>2, <3>3 DEF Whole
  <2> QED BY <1>0, <2>5, <2>7, <2>8, <2>9, <2>10 DEF ListInv
<1>10. CASE ListCrash
  <2>1. /\ list' = list /\ \A c \in Clients : listReq'[c].at = "idle"
        /\ listCut' <=> (listCut \/ \E c \in Clients : Pushing(c))
        /\ strays' = strays /\ lost' = lost
    BY <1>10 DEF ListCrash, NoList, NoStray
  <2>2. \A t \in Types : Copies(t)' = Copies(t)
    BY <2>1 DEF Copies
  <2>3. \A t, u \in Types : Ahead(t)' = {} /\ Between(t, u)' = {}
    BY <2>1 DEF Ahead, Between
  <2>4. \A t, u \in Types : Cardinality(Ahead(t)') = 0 /\ Cardinality(Between(t, u)') = 0
    BY <2>3, FS_EmptySet
  <2>5. ASSUME NEW t \in Types PROVE Few(t)'
    <3>1. Cardinality(Ahead(t))' = 0
      BY <2>4 DEF Ahead
    <3> QED BY <1>1, <1>2, <1>3, <1>4, <2>1, <2>2, <3>1 DEF Few
  <2>6. ASSUME NEW t \in Types, NEW u \in Types, t < u PROVE Later(t, u)'
    <3>1. Cardinality(Between(t, u))' = 0
      BY <2>4 DEF Between
    <3>2. ~listCut' => Cardinality(Between(t, u)) = 0
      <4>1. ~listCut' => Between(t, u) = {}
        BY <2>1 DEF Between, Pushing
      <4> QED BY <4>1, FS_EmptySet
    <3>3. ~listCut' => ~listCut
      BY <2>1
    <3> QED BY <1>1, <1>2, <1>3, <1>4, <2>1, <2>2, <2>6, <3>1, <3>2, <3>3 DEF Later
  <2>7. Filled'
    BY <2>1 DEF Filled, Pushing
  <2>8. Whole'
    BY <1>4, <2>1, <2>2 DEF Whole
  <2> QED BY <1>0, <1>4, <2>1, <2>5, <2>6, <2>7, <2>8 DEF ListInv
<1>11. CASE UNCHANGED listVars
  BY <1>0, <1>4, <1>11 DEF listVars, ListInv, Few, Later, Copies, Ahead, Between, Filled, Whole, Pushing
<1>12. ASSUME NEW c \in Clients, RPushResent(c) PROVE ListInv'
  BY <1>7, <1>12 DEF RPushResent
<1>13. ASSUME NEW c \in Clients, ListError(c), Pushing(c) PROVE ListInv'
  <2>1. /\ Stray(c) /\ UNCHANGED list /\ listCut'
        /\ listReq'[c].at = "idle" /\ \A d \in Clients \ {c} : listReq'[d] = listReq[d]
    BY <1>1, <1>13 DEF ListError, Goes, NoList
  <2> QED BY <1>7, <1>13, <2>1
<1> QED BY <1>5, <1>6, <1>8, <1>9, <1>10, <1>11, <1>12, <1>13 DEF Next, ListNext, Crash, catalogueVars

(***************************************************************************)
(* Racing requests fill the list in step, but for replies that are lost.   *)
(* The inequalities alone do not survive an RPUSH: what makes them         *)
(* inductive is to count, besides the copies, the RPUSHes that Redis may   *)
(* yet execute, the requests that still have the type to push, and those   *)
(* that are between the two types.                                         *)
(***************************************************************************)
THEOREM TypesRepeatEvenly == Spec => []TypesInStep
<1>1. ListInv => TypesInStep
  <2> SUFFICES ASSUME ListInv PROVE TypesInStep
    OBVIOUS
  <2>0. lost \in Nat /\ strays \in [Types -> Nat]
    BY DEF ListInv, ListTypeOK
  <2>1. \A t, u \in Types : /\ Copies(t) \in Nat /\ t \in Int /\ strays[t] \in Nat
                           /\ Cardinality(Ahead(t)) \in Nat /\ Cardinality(Between(t, u)) \in Nat
                           /\ Cardinality(Clients) \in Nat
    BY <2>0, CopiesType, ClientSets DEF ListInv, Types, Ahead, Between
  <2>2. \A t, u \in Types : t < u => Later(t, u)
    BY DEF ListInv
  <2>3. \A t \in Types : Copies(t) <= Cardinality(Clients) + lost
    BY <2>0, <2>1 DEF ListInv, Few
  <2>4. \A t, u \in Types : t < u => Copies(t) + lost >= Copies(u)
    BY <2>0, <2>1, <2>2 DEF Later
  <2>5. ASSUME ListQuiet, ~listCut, NEW t \in Types, NEW u \in Types
        PROVE  Copies(t) + lost >= Copies(u) /\ (Copies(t) = 0 => Copies(u) = 0)
    <3>1. Between(u, t) = {} /\ \A c \in Clients : ~Pushing(c)
      BY <2>5 DEF ListQuiet, NoList, Between, Pushing
    <3>2. Cardinality(Between(u, t)) = 0
      BY <3>1, FS_EmptySet
    <3>3. u < t => Copies(t) + lost >= Copies(u)
      BY <2>0, <2>1, <2>2, <2>5, <3>2 DEF Later
    <3>4. Copies(t) + lost >= Copies(u)
      BY <2>0, <2>1, <2>4, <3>3
    <3>5. Copies(t) = 0 => Copies(u) = 0
      BY <2>1, <2>5, <3>1 DEF ListInv, Whole
    <3> QED BY <3>4, <3>5
  <2> QED BY <2>3, <2>4, <2>5 DEF TypesInStep
<1> QED BY InitListInv, NextListInv, <1>1, PTL DEF Spec

-----------------------------------------------------------------------------
(***************************************************************************)
(* Every hot shop's lock keeps TokenLock's promise to the reads.           *)
(***************************************************************************)
ShopPhases(s) == [c \in Clients |-> LockPhase(c, s)]

ReadPhase(r, s) ==
  IF r.shop = s /\ r.at = "send" THEN "in"
  ELSE IF r.shop = s /\ r.at = "unlock" THEN "leaving" ELSE "out"

LEMMA PhaseOfRead ==
  ASSUME NEW c \in Clients, NEW s \in HotShops, HotTypeOK
  PROVE  /\ LockPhase(c, s) = ReadPhase(hotReq[c], s)
         /\ HotTypeOK' => LockPhase(c, s)' = ReadPhase(hotReq'[c], s)
<1>2. hotReq[c] \in Read /\ (HotTypeOK' => hotReq'[c] \in Read)
  BY DEF HotTypeOK, Read
<1> DEFINE PhaseIs(r) ==
      CASE r = [at |-> "send", shop |-> s]   -> "in"
        [] r = [at |-> "unlock", shop |-> s] -> "leaving"
        [] OTHER                             -> "out"
<1>3. ASSUME NEW r \in Read PROVE PhaseIs(r) = ReadPhase(r, s)
  <2>1. r.at = "send" /\ r.shop = s => r = [at |-> "send", shop |-> s]
    BY DEF Read
  <2>2. r.at = "unlock" /\ r.shop = s => r = [at |-> "unlock", shop |-> s]
    BY DEF Read
  <2>3. CASE r = [at |-> "send", shop |-> s]
    BY <2>3 DEF ReadPhase
  <2>4. CASE r = [at |-> "unlock", shop |-> s]
    <3>1. r # [at |-> "send", shop |-> s] /\ r.at = "unlock" /\ r.shop = s
      BY <2>4
    <3> QED BY <2>4, <3>1 DEF ReadPhase
  <2>5. CASE r # [at |-> "send", shop |-> s] /\ r # [at |-> "unlock", shop |-> s]
    <3>1. ReadPhase(r, s) = "out"
      BY <2>1, <2>2, <2>5, Zenon DEF ReadPhase
    <3>2. PhaseIs(r) = "out"
      BY <2>5
    <3> QED BY <3>1, <3>2
  <2> QED BY <2>3, <2>4, <2>5
<1>4. LockPhase(c, s) = PhaseIs(hotReq[c]) /\ LockPhase(c, s)' = PhaseIs(hotReq'[c])
  BY DEF LockPhase
<1> QED BY <1>2, <1>3, <1>4

LEMMA PhasesStay ==
  ASSUME HotTypeOK, HotTypeOK', NEW s \in HotShops,
         \A c \in Clients : ReadPhase(hotReq'[c], s) = ReadPhase(hotReq[c], s)
  PROVE  ShopPhases(s)' = ShopPhases(s)
<1>1. \A c \in Clients : LockPhase(c, s)' = LockPhase(c, s)
  BY PhaseOfRead
<1> QED BY <1>1, Zenon DEF ShopPhases

LEMMA PhaseMoves ==
  ASSUME HotTypeOK, HotTypeOK', NEW s \in HotShops, NEW c \in Clients, NEW p,
         ReadPhase(hotReq'[c], s) = p,
         \A d \in Clients \ {c} : hotReq'[d] = hotReq[d]
  PROVE  LockOf(s)!Enter(c, p)
<1>1. \A d \in Clients : LockPhase(d, s)' = IF d = c THEN p ELSE LockPhase(d, s)
  BY PhaseOfRead
<1>2. ShopPhases(s)' = [ShopPhases(s) EXCEPT ![c] = p]
  <2>1. ShopPhases(s)' = [d \in Clients |-> LockPhase(d, s)']
    BY DEF ShopPhases
  <2>2. [ShopPhases(s) EXCEPT ![c] = p]
          = [d \in Clients |-> IF d = c THEN p ELSE LockPhase(d, s)]
    BY DEF ShopPhases
  <2> QED BY <1>1, <2>1, <2>2, Zenon
<1> QED BY <1>2 DEF LockOf!Enter, ShopPhases

LEMMA FaultsKept ==
  ASSUME CallsTypeOK, [Next]_catalogueVars
  PROVE  /\ faults > 0 => faults' > 0
         /\ Fault => faults' > 0
<1>1. Arrive \/ NoFault \/ Fault \/ Restart
  BY DEF Next, catalogueVars, callVars, NoFault, Crash, BloomNext, Add, LoadByte, StoreByte,
     ListNext, QueryTypeList, LRange, QueryTypes, RPush, RPushResent, LandPush, ListError,
     HotNext, HotStep, HotGet, HotTryLock, HotSend, HotUnlock, HotReadError, HotRead,
     WorkerStep, Receive, QueryHot, SetHot, WorkerError, LandHot,
     ChangeRow, DeleteHot, ExpireHot, FreeOrphan, LoseLock
<1>2. faults \in Nat /\ (faults' = faults \/ faults' = faults + 1)
  BY <1>1 DEF CallsTypeOK, Arrive, NoFault, Fault, Restart, callVars
<1> QED BY <1>2 DEF Fault

LEMMA InitLocks == ASSUME Init, NEW s \in HotShops PROVE LockOf(s)!Init
<1>1. \A c \in Clients : LockPhase(c, s) = "out"
  <2>1. \A c \in Clients : hotReq[c].at = "idle"
    BY DEF Init, HotInit, NoRead
  <2>2. HotTypeOK
    BY InitHotInv DEF HotInv
  <2> QED BY <2>1, <2>2, PhaseOfRead DEF ReadPhase
<1>2. [c \in Clients |-> LockPhase(c, s)] = [c \in Clients |-> "out"]
  BY <1>1, Zenon
<1>3. hotLock[s] = "free" /\ (faults > 0) = FALSE
  BY DEF Init, HotInit, CallsInit
<1> QED BY <1>2, <1>3 DEF LockOf!Init

\* What a read's step does to the lock of a shop.
LEMMA ReadLock ==
  ASSUME HotInv, CallsTypeOK, [Next]_catalogueVars, NEW c \in Clients, NEW s \in HotShops,
         HotStep(c) \/ HotReadError(c)
  PROVE  /\ \A d \in Clients \ {c} : hotReq'[d] = hotReq[d]
         /\ \/ hotLock'[s] = hotLock[s] /\ ReadPhase(hotReq'[c], s) = ReadPhase(hotReq[c], s)
            \/ /\ ReadPhase(hotReq[c], s) = "out" /\ ReadPhase(hotReq'[c], s) = "in"
               /\ hotLock[s] = "free" /\ hotLock'[s] = c
            \/ /\ ReadPhase(hotReq'[c], s) = ReadPhase(hotReq[c], s)
               /\ hotLock[s] = "free" /\ hotLock'[s] = "orphan" /\ faults' > 0
            \/ /\ ReadPhase(hotReq[c], s) = "in" /\ ReadPhase(hotReq'[c], s) = "leaving"
               /\ hotLock'[s] = hotLock[s]
            \/ /\ ReadPhase(hotReq[c], s) = "leaving" /\ ReadPhase(hotReq'[c], s) = "out"
               /\ \/ hotLock'[s] = IF hotLock[s] = c THEN "free" ELSE hotLock[s]
                  \/ /\ faults' > 0
                     /\ hotLock'[s] = IF hotLock[s] = c THEN "orphan" ELSE hotLock[s]
<1> DEFINE Goal ==
      \/ hotLock'[s] = hotLock[s] /\ ReadPhase(hotReq'[c], s) = ReadPhase(hotReq[c], s)
      \/ /\ ReadPhase(hotReq[c], s) = "out" /\ ReadPhase(hotReq'[c], s) = "in"
         /\ hotLock[s] = "free" /\ hotLock'[s] = c
      \/ /\ ReadPhase(hotReq'[c], s) = ReadPhase(hotReq[c], s)
         /\ hotLock[s] = "free" /\ hotLock'[s] = "orphan" /\ faults' > 0
      \/ /\ ReadPhase(hotReq[c], s) = "in" /\ ReadPhase(hotReq'[c], s) = "leaving"
         /\ hotLock'[s] = hotLock[s]
      \/ /\ ReadPhase(hotReq[c], s) = "leaving" /\ ReadPhase(hotReq'[c], s) = "out"
         /\ \/ hotLock'[s] = IF hotLock[s] = c THEN "free" ELSE hotLock[s]
            \/ /\ faults' > 0
               /\ hotLock'[s] = IF hotLock[s] = c THEN "orphan" ELSE hotLock[s]
<1>0. /\ hotReq \in [Clients -> Read]
      /\ hotLock \in [HotShops -> Clients \cup {"free", "orphan"}]
      /\ hotReq[c].at # "idle" => hotReq[c].shop \in HotShops
  BY DEF HotInv, HotTypeOK, Read, RowsFit
<1>1. ASSUME EndRead(c) PROVE ReadPhase(hotReq'[c], s) = "out"
  BY <1>0, <1>1, ReadType DEF ReadPhase
<1>2. ASSUME NEW at \in {"lock", "send", "unlock"}, Reads(c, at)
      PROVE  hotReq'[c].at = at /\ hotReq'[c].shop = hotReq[c].shop
  <2>1. [hotReq[c] EXCEPT !.at = at].at = at /\ [hotReq[c] EXCEPT !.at = at].shop = hotReq[c].shop
    BY <1>0 DEF Read
  <2> QED BY <1>0, <1>2, <2>1 DEF Reads
<1>3. \A d \in Clients \ {c} : hotReq'[d] = hotReq[d]
  <2>1. EndRead(c) \/ \E at \in {"lock", "send", "unlock"} : Reads(c, at)
    BY DEF HotStep, HotReadError, HotGet, HotTryLock, HotSend, HotUnlock
  <2> QED BY <1>0, <2>1, ReadType
<1>4. ASSUME HotGet(c) PROVE Goal
  <2>1. hotReq[c].at = "get" /\ hotLock' = hotLock /\ (Reads(c, "lock") \/ EndRead(c))
    BY <1>4 DEF HotGet
  <2> QED BY <1>1, <1>2, <2>1 DEF ReadPhase
<1>5. ASSUME HotTryLock(c) PROVE Goal
  <2>1. hotReq[c].at = "lock"
    BY <1>5 DEF HotTryLock
  <2>2. \/ /\ hotLock[hotReq[c].shop] = "free" /\ Reads(c, "send")
           /\ hotLock' = [hotLock EXCEPT ![hotReq[c].shop] = c]
        \/ hotLock' = hotLock /\ EndRead(c)
    BY <1>5, Zenon DEF HotTryLock
  <2> QED BY <1>0, <1>1, <1>2, <2>1, <2>2 DEF ReadPhase
<1>6. ASSUME HotSend(c) PROVE Goal
  <2>1. hotReq[c].at = "send" /\ hotLock' = hotLock /\ Reads(c, "unlock")
    BY <1>6 DEF HotSend
  <2> QED BY <1>2, <2>1 DEF ReadPhase
<1>7. ASSUME NEW word \in {"free", "orphan"}, FreeLock(c, word), hotReq[c].at = "unlock"
      PROVE  hotLock'[s] = IF hotReq[c].shop = s /\ hotLock[s] = c THEN word ELSE hotLock[s]
  BY <1>0, <1>7 DEF FreeLock
<1>8. ASSUME HotUnlock(c) PROVE Goal
  <2>1. hotReq[c].at = "unlock" /\ FreeLock(c, "free") /\ EndRead(c)
    BY <1>8 DEF HotUnlock
  <2>2. hotLock'[s] = IF hotReq[c].shop = s /\ hotLock[s] = c THEN "free" ELSE hotLock[s]
    BY <1>7, <2>1
  <2> QED BY <1>1, <2>1, <2>2 DEF ReadPhase
<1>9. ASSUME HotReadError(c) PROVE Goal
  <2>1. EndRead(c) /\ faults' > 0
    BY <1>9, FaultsKept DEF HotReadError
  <2>2. CASE hotReq[c].at \in {"get", "lock"} /\ hotLock' = hotLock
    BY <1>1, <2>1, <2>2 DEF ReadPhase
  <2>3. CASE /\ hotReq[c].at = "lock" /\ hotLock[hotReq[c].shop] = "free"
             /\ hotLock' = [hotLock EXCEPT ![hotReq[c].shop] = "orphan"]
    BY <1>0, <1>1, <2>1, <2>3 DEF ReadPhase
  <2>4. ASSUME NEW word \in {"free", "orphan"}, FreeLock(c, word), hotReq[c].at = "unlock"
        PROVE  Goal
    <3>1. hotLock'[s] = IF hotReq[c].shop = s /\ hotLock[s] = c THEN word ELSE hotLock[s]
      BY <1>7, <2>4
    <3> QED BY <1>1, <2>1, <2>4, <3>1 DEF ReadPhase
  <2> QED BY <1>9, <2>2, <2>3, <2>4 DEF HotReadError
<1> HIDE DEF Goal
<1>10. Goal
  BY <1>4, <1>5, <1>6, <1>8, <1>9 DEF HotStep
<1> QED BY <1>3, <1>10 DEF Goal

LEMMA NextLocks ==
  ASSUME HotInv, CallsTypeOK, [Next]_catalogueVars, NEW s \in HotShops
  PROVE  [LockOf(s)!Next]_(LockOf(s)!lockVars)
<1> DEFINE Goal == LockOf(s)!Next \/ UNCHANGED LockOf(s)!lockVars
           Same == \A d \in Clients : ReadPhase(hotReq'[d], s) = ReadPhase(hotReq[d], s)
<1>0. /\ HotTypeOK /\ HotTypeOK'
      /\ hotReq \in [Clients -> Read] /\ hotReq' \in [Clients -> Read]
      /\ hotLock \in [HotShops -> Clients \cup {"free", "orphan"}]
  BY NextHotInv DEF HotInv, HotTypeOK, Read
<1>1. LockOf(s)!Remembers
  BY FaultsKept DEF LockOf!Remembers
\* A step that leaves the lock and the phases as they are.
<1>2. ASSUME hotLock'[s] = hotLock[s], Same PROVE Goal
  <2>1. ShopPhases(s)' = ShopPhases(s)
    BY <1>0, <1>2, PhasesStay
  <2>2. CASE faults' > 0
    BY <1>2, <2>1, <2>2 DEF LockOf!Next, LockOf!Disturb, ShopPhases
  <2>3. CASE ~(faults' > 0)
    <3>1. (faults' > 0) = (faults > 0)
      BY <2>3, FaultsKept
    <3> QED BY <1>2, <2>1, <3>1 DEF LockOf!lockVars, ShopPhases
  <2> QED BY <2>2, <2>3
<1>3. ASSUME hotLock' = hotLock, hotReq' = hotReq PROVE Goal
  BY <1>2, <1>3
<1>4. ASSUME NEW c \in Clients, HotStep(c) \/ HotReadError(c) PROVE Goal
  <2>0. \A d \in Clients \ {c} : hotReq'[d] = hotReq[d]
    BY <1>4, ReadLock
  <2>1. ASSUME NEW p, ReadPhase(hotReq'[c], s) = p PROVE LockOf(s)!Enter(c, p)
    BY <1>0, <2>0, <2>1, PhaseMoves
  <2>2. ShopPhases(s)[c] = ReadPhase(hotReq[c], s)
    BY <1>0, PhaseOfRead DEF ShopPhases
  <2>3. ASSUME ReadPhase(hotReq'[c], s) = ReadPhase(hotReq[c], s)
        PROVE  Same /\ ShopPhases(s)' = ShopPhases(s)
    <3>1. Same
      BY <2>0, <2>3
    <3> QED BY <1>0, <3>1, PhasesStay
  <2>4. CASE hotLock'[s] = hotLock[s] /\ ReadPhase(hotReq'[c], s) = ReadPhase(hotReq[c], s)
    BY <1>2, <2>3, <2>4
  <2>5. CASE /\ ReadPhase(hotReq[c], s) = "out" /\ ReadPhase(hotReq'[c], s) = "in"
             /\ hotLock[s] = "free" /\ hotLock'[s] = c
    <3>1. LockOf(s)!Take(c)
      BY <1>1, <2>1, <2>2, <2>5 DEF LockOf!Take, ShopPhases
    <3> QED BY <3>1 DEF LockOf!Next
  <2>6. CASE /\ ReadPhase(hotReq'[c], s) = ReadPhase(hotReq[c], s)
             /\ hotLock[s] = "free" /\ hotLock'[s] = "orphan" /\ faults' > 0
    <3>1. LockOf(s)!Lose
      BY <2>3, <2>6 DEF LockOf!Lose, ShopPhases
    <3> QED BY <3>1 DEF LockOf!Next
  <2>7. CASE /\ ReadPhase(hotReq[c], s) = "in" /\ ReadPhase(hotReq'[c], s) = "leaving"
             /\ hotLock'[s] = hotLock[s]
    <3>1. LockOf(s)!Leave(c)
      BY <1>1, <2>1, <2>2, <2>7 DEF LockOf!Leave, ShopPhases
    <3> QED BY <3>1 DEF LockOf!Next
  <2>8. CASE /\ ReadPhase(hotReq[c], s) = "leaving" /\ ReadPhase(hotReq'[c], s) = "out"
             /\ hotLock'[s] = IF hotLock[s] = c THEN "free" ELSE hotLock[s]
    <3>1. LockOf(s)!Return(c)
      BY <1>1, <2>1, <2>2, <2>8 DEF LockOf!Return, ShopPhases
    <3> QED BY <3>1 DEF LockOf!Next
  <2>9. CASE /\ ReadPhase(hotReq[c], s) = "leaving" /\ ReadPhase(hotReq'[c], s) = "out"
             /\ faults' > 0
             /\ hotLock'[s] = IF hotLock[s] = c THEN "orphan" ELSE hotLock[s]
    <3>1. LockOf(s)!Abandon(c)
      BY <2>1, <2>2, <2>9 DEF LockOf!Abandon, ShopPhases
    <3> QED BY <3>1 DEF LockOf!Next
  <2> HIDE DEF Goal
  <2> QED BY <1>4, <2>4, <2>5, <2>6, <2>7, <2>8, <2>9, ReadLock
<1>5. ASSUME NEW c \in Clients, NEW t \in HotShops, HotRead(c, t) PROVE Goal
  <2>1. /\ hotLock' = hotLock /\ hotReq[c].at = "idle" /\ hotReq'[c].at = "get"
        /\ \A d \in Clients \ {c} : hotReq'[d] = hotReq[d]
    BY <1>0, <1>5 DEF HotRead, NoRead
  <2>2. Same
    BY <2>1 DEF ReadPhase
  <2> QED BY <1>2, <2>1, <2>2
<1>6. ASSUME WorkerStep \/ WorkerError \/ LandHot PROVE Goal
  <2>1. OnlyWorks
    BY <1>6 DEF WorkerStep, Receive, QueryHot, SetHot, WorkerError, LandHot
  <2> QED BY <1>3, <2>1 DEF OnlyWorks
<1>7. ASSUME NEW t \in HotShops, ChangeRow(t) \/ DeleteHot(t) \/ ExpireHot(t) PROVE Goal
  BY <1>3, <1>7 DEF ChangeRow, DeleteHot, ExpireHot
<1>8. ASSUME NEW t \in HotShops, FreeOrphan(t) \/ LoseLock(t) PROVE Goal
  <2>1. /\ hotReq' = hotReq /\ hotLock' = [hotLock EXCEPT ![t] = "free"]
        /\ \/ hotLock[t] = "orphan"
           \/ hotLock[t] \in Clients /\ faults' > 0
    BY <1>8, FaultsKept DEF FreeOrphan, LoseLock
  <2>2. CASE t # s
    <3>1. hotLock'[s] = hotLock[s]
      BY <1>0, <2>1, <2>2
    <3> QED BY <1>2, <2>1, <3>1
  <2>3. CASE t = s
    <3>1. hotLock'[s] = "free" /\ ShopPhases(s)' = ShopPhases(s)
      BY <1>0, <2>1, <2>3, PhasesStay
    <3>2. CASE hotLock[s] = "orphan"
      <4>1. LockOf(s)!Expire
        BY <1>1, <3>1, <3>2 DEF LockOf!Expire, ShopPhases
      <4> QED BY <4>1 DEF LockOf!Next
    <3>3. CASE hotLock[s] \in Clients /\ faults' > 0
      <4>0. PICK c \in Clients : hotLock[s] = c
        BY <3>3
      <4>1. LockOf(s)!Lapse(c)
        BY <1>1, <3>1, <3>3, <4>0 DEF LockOf!Lapse, ShopPhases
      <4> QED BY <4>1 DEF LockOf!Next
    <3> QED BY <2>1, <2>3, <3>2, <3>3
  <2> QED BY <2>2, <2>3
<1>9. ASSUME HotCrash PROVE Goal
  <2>1. \A c \in Clients : LockPhase(c, s)' = "out"
    <3>1. \A c \in Clients : hotReq'[c].at = "idle"
      BY <1>9 DEF HotCrash, NoRead
    <3> QED BY <1>0, <3>1, PhaseOfRead DEF ReadPhase
  <2>2. ShopPhases(s)' = [c \in Clients |-> "out"]
    BY <2>1, Zenon DEF ShopPhases
  <2>3. hotLock'[s] = IF hotLock[s] = "free" THEN "free" ELSE "orphan"
    BY <1>9 DEF HotCrash
  <2>4. LockOf(s)!Restart
    BY <1>1, <2>2, <2>3 DEF LockOf!Restart, ShopPhases
  <2> QED BY <2>4 DEF LockOf!Next
<1>10. ASSUME UNCHANGED hotVars PROVE Goal
  BY <1>3, <1>10 DEF hotVars
<1> HIDE DEF Goal
<1>11. HotNext => Goal
  BY <1>4, <1>5, <1>6, <1>7, <1>8 DEF HotNext
<1>12. Goal
  BY <1>9, <1>10, <1>11 DEF Next, Crash, catalogueVars
<1> QED BY <1>12 DEF Goal

(***************************************************************************)
(* Whoever has got a hot shop's lock keeps it until it unlocks, while it   *)
(* waits for room in the queue, too.                                       *)
(***************************************************************************)
THEOREM LockRefinement == Spec => LocksKeepPromise
<1> DEFINE Starts == \A s \in HotShops : LockOf(s)!Init
           Steps  == \A s \in HotShops : [LockOf(s)!Next]_(LockOf(s)!lockVars)
<1>1. Init => Starts
  BY InitLocks
<1>2. HotInv /\ CallsTypeOK /\ [Next]_catalogueVars => [Steps]_<<hotVars, faults>>
  BY NextLocks
<1>3. Init => CallsTypeOK
  BY DEF Init, CallsInit, CallsTypeOK
<1> HIDE DEF Starts, Steps
<1>4. Spec => Starts /\ [][Steps]_<<hotVars, faults>>
  BY InitHotInv, NextHotInv, NextCallsType, <1>1, <1>2, <1>3, PTL DEF Spec
<1> QED BY <1>4 DEF LocksKeepPromise, Starts, Steps

-----------------------------------------------------------------------------
(***************************************************************************)
(* The Bloom filter.                                                       *)
(***************************************************************************)
\* A byte that somebody is about to write back holds the bits of every added
\* key in it, or else the write would take them away.
Fresh ==
  \A c \in Clients : addReq[c].at = "store" =>
    \A k \in added, i \in Seeds :
      Position(k, i)[1] = Target(c)[1] => Position(k, i)[2] \in addReq[c].byte

\* While an Add runs alone the bits it has set stay.
OwnBitsStay ==
  \A c \in alone :
    /\ ~Idles(c) /\ \A d \in Clients \ {c} : Idles(d)
    /\ \A i \in Seeds : i < addReq[c].seed =>
         /\ Position(addReq[c].key, i) \in bits
         /\ addReq[c].at = "store" /\ Position(addReq[c].key, i)[1] = Target(c)[1] =>
              Position(addReq[c].key, i)[2] \in addReq[c].byte

BloomInv == BloomTypeOK /\ NoFalseNegative /\ Fresh /\ OwnBitsStay

\* A write takes no bit away that the byte had when it was read.
LEMMA BitStays ==
  ASSUME BloomTypeOK, NEW c \in Clients, NEW k \in Keys, NEW i \in Seeds, Position(k, i) \in bits,
         Position(k, i)[1] = Target(c)[1] => Position(k, i)[2] \in addReq[c].byte
  PROVE  Position(k, i) \in BitsWith(c)
<1> DEFINE p == Position(k, i)
<1>1. p \in Bytes \X (0..7)
  BY PositionType
<1>2. p = <<p[1], p[2]>>
  BY <1>1
<1> HIDE DEF p
<1>3. p \in bits /\ (p[1] = Target(c)[1] => p[2] \in addReq[c].byte)
  BY DEF p
<1>4. CASE p[1] = Target(c)[1]
  <2>1. p \in {Target(c)[1]} \X addReq[c].byte
    BY <1>2, <1>3, <1>4
  <2> QED BY <2>1 DEF BitsWith, p
<1>5. CASE p[1] # Target(c)[1]
  <2>1. p \notin {Target(c)[1]} \X (0..7)
    BY <1>5
  <2> QED BY <1>3, <2>1 DEF BitsWith, p
<1> QED BY <1>4, <1>5

\* A byte that is read has every bit that is set.
LEMMA BitSeen ==
  ASSUME NEW k \in Keys, NEW i \in Seeds, NEW j \in Keys, NEW n \in Seeds,
         Position(k, i) \in bits, Position(k, i)[1] = Position(j, n)[1]
  PROVE  Position(k, i)[2] \in Loaded(j, n)
<1> DEFINE p == Position(k, i)
<1>1. p \in Bytes \X (0..7)
  BY PositionType
<1>2. p[2] \in 0..7 /\ <<p[1], p[2]>> = p
  BY <1>1
<1> HIDE DEF p
<1>3. <<Position(j, n)[1], p[2]>> \in bits
  BY <1>2 DEF p
<1> QED BY <1>2, <1>3 DEF Loaded, p

LEMMA NextBloomInv == BloomInv /\ [Next]_catalogueVars => BloomInv'
<1> SUFFICES ASSUME BloomInv, [Next]_catalogueVars PROVE BloomInv'
  OBVIOUS
<1>0. BloomTypeOK /\ BloomTypeOK' /\ NoFalseNegative /\ Fresh /\ OwnBitsStay
  BY NextBloomType DEF BloomInv
<1>1. /\ added \subseteq Keys /\ addReq \in [Clients -> {NoAdd} \cup AddReq]
      /\ alone \subseteq Clients
      /\ NoAdd.at = "idle" /\ \A r \in AddReq : r.at \in {"load", "store"}
  BY <1>0 DEF BloomTypeOK, AddReq, NoAdd
<1>2. ASSUME NEW c \in Clients, ~Idles(c)
      PROVE  addReq[c] \in AddReq /\ addReq[c].key \in Keys /\ addReq[c].seed \in Seeds
  BY <1>1, <1>2 DEF Idles, AddReq
<1>3. ASSUME NEW c \in Clients, NEW k \in Keys, Add(c, k) PROVE BloomInv'
  <2> DEFINE r == [at |-> "store", key |-> k, seed |-> 0, byte |-> Loaded(k, 0)]
  <2>1. /\ bits' = bits /\ added' = added /\ addReq' = [addReq EXCEPT ![c] = r]
        /\ alone' = IF \A d \in Clients : Idles(d) THEN {c} ELSE {}
    BY <1>3 DEF Add
  <2>2. /\ r.at = "store" /\ r.key = k /\ r.seed = 0 /\ r.byte = Loaded(k, 0)
        /\ 0 \in Seeds /\ \A i \in Seeds : ~(i < 0)
    <3>1. SeedCount \in Nat
      BY BitCountAssumption
    <3>2. \A i \in Seeds : ~(i < 0)
      BY <3>1 DEF Seeds
    <3> QED BY <3>2, AddReqType
  <2> HIDE DEF r
  <2>3. addReq'[c] = r /\ \A d \in Clients \ {c} : addReq'[d] = addReq[d]
    BY <1>1, <2>1
  <2>4. NoFalseNegative'
    BY <1>0, <2>1 DEF NoFalseNegative, Contains
  <2>5. Fresh'
    <3>1. ASSUME NEW d \in Clients, addReq'[d].at = "store", NEW j \in added, NEW i \in Seeds,
                 Position(j, i)[1] = Target(d)'[1]
          PROVE  Position(j, i)[2] \in addReq'[d].byte
      <4>1. CASE d = c
        <5>1. Target(d)' = Position(k, 0)
          BY <2>2, <2>3, <4>1 DEF Target
        <5>2. Position(j, i) \in bits
          BY <1>0 DEF NoFalseNegative, Contains
        <5>3. Position(j, i)[2] \in Loaded(k, 0)
          BY <1>1, <2>2, <3>1, <5>1, <5>2, BitSeen
        <5> QED BY <2>2, <2>3, <4>1, <5>3
      <4>2. CASE d # c
        <5>1. Target(d)' = Target(d)
          BY <2>3, <4>2 DEF Target
        <5> QED BY <1>0, <2>3, <3>1, <4>2, <5>1 DEF Fresh
      <4> QED BY <4>1, <4>2
    <3> QED BY <2>1, <3>1 DEF Fresh
  <2>6. OwnBitsStay'
    <3>1. ASSUME NEW d \in alone'
          PROVE  /\ d = c /\ ~Idles(d)' /\ \A e \in Clients \ {d} : Idles(e)'
                 /\ \A i \in Seeds : ~(i < addReq'[d].seed)
      BY <2>1, <2>2, <2>3 DEF Idles
    <3> QED BY <3>1 DEF OwnBitsStay
  <2> QED BY <1>0, <2>4, <2>5, <2>6 DEF BloomInv
<1>4. ASSUME NEW c \in Clients, LoadByte(c) PROVE BloomInv'
  <2> DEFINE r == [addReq[c] EXCEPT !.at = "store", !.byte = Loaded(addReq[c].key, addReq[c].seed)]
  <2>1. /\ bits' = bits /\ added' = added /\ alone' = alone /\ addReq' = [addReq EXCEPT ![c] = r]
        /\ addReq[c].at = "load" /\ ~Idles(c)
    BY <1>4 DEF LoadByte, Idles
  <2>2. addReq[c] \in AddReq /\ addReq[c].key \in Keys /\ addReq[c].seed \in Seeds
    BY <1>2, <2>1
  <2>3. /\ r.at = "store" /\ r.key = addReq[c].key /\ r.seed = addReq[c].seed
        /\ r.byte = Loaded(addReq[c].key, addReq[c].seed)
    BY <2>2 DEF AddReq
  <2> HIDE DEF r
  <2>4. addReq'[c] = r /\ \A d \in Clients \ {c} : addReq'[d] = addReq[d]
    BY <1>1, <2>1
  <2>5. \A d \in Clients : Target(d)' = Target(d)
    BY <2>3, <2>4 DEF Target
  <2>6. NoFalseNegative'
    BY <1>0, <2>1 DEF NoFalseNegative, Contains
  <2>7. ASSUME NEW j \in Keys, NEW i \in Seeds, Position(j, i) \in bits, Position(j, i)[1] = Target(c)[1]
        PROVE  Position(j, i)[2] \in addReq'[c].byte
    BY <2>2, <2>3, <2>4, <2>7, BitSeen DEF Target
  <2>8. Fresh'
    <3>1. ASSUME NEW d \in Clients, addReq'[d].at = "store", NEW j \in added, NEW i \in Seeds,
                 Position(j, i)[1] = Target(d)[1]
          PROVE  Position(j, i)[2] \in addReq'[d].byte
      <4>1. CASE d = c
        BY <1>0, <1>1, <2>7, <3>1, <4>1 DEF NoFalseNegative, Contains
      <4>2. CASE d # c
        BY <1>0, <2>4, <3>1, <4>2 DEF Fresh
      <4> QED BY <4>1, <4>2
    <3> QED BY <2>1, <2>5, <3>1 DEF Fresh
  <2>9. OwnBitsStay'
    <3>1. ASSUME NEW d \in alone
          PROVE  /\ d = c /\ ~Idles(d)' /\ \A e \in Clients \ {d} : Idles(e)'
      BY <1>0, <1>1, <2>1, <2>3, <2>4 DEF OwnBitsStay, Idles
    <3>2. ASSUME c \in alone, NEW i \in Seeds, i < addReq'[c].seed
          PROVE  /\ Position(addReq'[c].key, i) \in bits
                 /\ Position(addReq'[c].key, i)[1] = Target(c)[1] =>
                      Position(addReq'[c].key, i)[2] \in addReq'[c].byte
      <4>1. Position(addReq[c].key, i) \in bits
        BY <1>0, <2>3, <2>4, <3>2 DEF OwnBitsStay
      <4> QED BY <2>2, <2>3, <2>4, <2>7, <4>1
    <3> QED BY <2>1, <2>5, <3>1, <3>2 DEF OwnBitsStay
  <2> QED BY <1>0, <2>6, <2>8, <2>9 DEF BloomInv
<1>5. ASSUME NEW c \in Clients, StoreByte(c) PROVE BloomInv'
  <2>1. /\ bits' = BitsWith(c) /\ addReq[c].at = "store" /\ ~Idles(c)
        /\ added' = IF Last(c) /\ c \in alone THEN added \cup {addReq[c].key} ELSE added
        /\ alone' = IF Last(c) THEN alone \ {c} ELSE alone
    BY <1>5 DEF StoreByte, Idles
  <2>2. addReq[c] \in AddReq /\ addReq[c].key \in Keys /\ addReq[c].seed \in Seeds
    BY <1>2, <2>1
  <2> DEFINE r == IF Last(c) THEN NoAdd
                  ELSE [addReq[c] EXCEPT !.at = "load", !.seed = @ + 1, !.byte = {}]
  <2>3. addReq' = [addReq EXCEPT ![c] = r]
    BY <1>5 DEF StoreByte
  <2>4. /\ Last(c) => r.at = "idle"
        /\ ~Last(c) => r.at = "load" /\ r.key = addReq[c].key /\ r.seed = addReq[c].seed + 1
    BY <1>1, <2>2 DEF AddReq
  <2> HIDE DEF r
  <2>5. addReq'[c] = r /\ \A d \in Clients \ {c} : addReq'[d] = addReq[d]
    BY <1>1, <2>3
  <2>6. \A k \in added, i \in Seeds : Position(k, i) \in bits'
    BY <1>0, <1>1, <2>1, BitStays DEF NoFalseNegative, Contains, Fresh
  \* Its own bits, those it has set before and the one it sets now.
  <2>7. ASSUME c \in alone, NEW i \in Seeds, i <= addReq[c].seed
        PROVE  Position(addReq[c].key, i) \in bits'
    <3>1. CASE i = addReq[c].seed
      BY <2>1, <3>1 DEF BitsWith, Target
    <3>2. CASE i < addReq[c].seed
      BY <1>0, <2>1, <2>2, <2>7, <3>2, BitStays DEF OwnBitsStay
    <3> QED BY <2>2, <2>7, <3>1, <3>2 DEF Seeds
  <2>8. NoFalseNegative'
    <3>1. ASSUME Last(c), c \in alone, NEW i \in Seeds PROVE Position(addReq[c].key, i) \in bits'
      <4>1. SeedCount \in Nat
        BY BitCountAssumption
      <4>2. i <= addReq[c].seed
        BY <3>1, <4>1 DEF Last, Seeds
      <4> QED BY <2>7, <3>1, <4>2
    <3>2. ASSUME NEW k \in added', NEW i \in Seeds PROVE Position(k, i) \in bits'
      BY <2>1, <2>6, <3>1, <3>2
    <3> QED BY <3>2 DEF NoFalseNegative, Contains
  <2>9. Fresh'
    <3>1. ASSUME NEW d \in Clients, addReq'[d].at = "store", NEW k \in added', NEW i \in Seeds,
                 Position(k, i)[1] = Target(d)'[1]
          PROVE  Position(k, i)[2] \in addReq'[d].byte
      <4>1. d # c
        BY <2>4, <2>5, <3>1
      <4>2. addReq'[d] = addReq[d] /\ Target(d)' = Target(d)
        BY <2>5, <4>1 DEF Target
      <4>3. added' = added
        <5>1. ~Idles(d)
          BY <3>1, <4>2 DEF Idles
        <5> QED BY <1>0, <2>1, <4>1, <5>1 DEF OwnBitsStay
      <4> QED BY <1>0, <3>1, <4>2, <4>3 DEF Fresh
    <3> QED BY <3>1 DEF Fresh
  <2>10. OwnBitsStay'
    <3>1. ASSUME NEW d \in alone' PROVE d = c /\ c \in alone /\ ~Last(c)
      BY <1>0, <1>1, <2>1 DEF OwnBitsStay
    <3>2. ASSUME c \in alone, ~Last(c)
          PROVE  /\ ~Idles(c)' /\ \A e \in Clients \ {c} : Idles(e)'
                 /\ addReq'[c].at = "load"
                 /\ \A i \in Seeds : i < addReq'[c].seed => Position(addReq'[c].key, i) \in bits'
      <4>1. ~Idles(c)' /\ addReq'[c].at = "load" /\ \A e \in Clients \ {c} : Idles(e)'
        BY <1>0, <2>4, <2>5, <3>2 DEF OwnBitsStay, Idles
      <4>2. ASSUME NEW i \in Seeds, i < addReq'[c].seed PROVE Position(addReq'[c].key, i) \in bits'
        <5>1. i <= addReq[c].seed
          BY <2>2, <2>4, <2>5, <3>2, <4>2 DEF Seeds
        <5> QED BY <2>4, <2>5, <2>7, <3>2, <5>1
      <4> QED BY <4>1, <4>2
    <3> QED BY <3>1, <3>2 DEF OwnBitsStay
  <2> QED BY <1>0, <2>8, <2>9, <2>10 DEF BloomInv
<1>6. CASE BloomCrash
  <2>1. alone' = {} /\ added' = {} /\ \A c \in Clients : addReq'[c].at # "store"
    BY <1>6 DEF BloomCrash, NoAdd
  <2> QED BY <1>0, <2>1 DEF BloomInv, NoFalseNegative, Fresh, OwnBitsStay
<1>7. CASE UNCHANGED bloomVars
  BY <1>0, <1>7 DEF bloomVars, BloomInv, NoFalseNegative, Contains, Fresh, OwnBitsStay, Target, Idles
<1> QED BY <1>3, <1>4, <1>5, <1>6, <1>7 DEF Next, BloomNext, Crash, catalogueVars

(***************************************************************************)
(* A key whose Add ran alone is never denied, although Adds that overlap   *)
(* before and after it write whole bytes back.  That the bits are set      *)
(* today is not inductive: a byte that was read before could still be      *)
(* written.  It is, with the bytes that are about to be written.           *)
(***************************************************************************)
THEOREM NothingAddedIsDenied == Spec => []NoFalseNegative
<1>1. Init => BloomInv
  <2> SUFFICES ASSUME Init PROVE BloomInv
    OBVIOUS
  <2>1. /\ bits = {} /\ alone = {} /\ added = {} /\ addReq = [c \in Clients |-> NoAdd]
        /\ NoAdd.at = "idle"
    BY DEF Init, BloomInit, NoAdd
  <2>2. BloomTypeOK
    BY <2>1 DEF BloomTypeOK
  <2> QED BY <2>1, <2>2 DEF BloomInv, NoFalseNegative, Fresh, OwnBitsStay
<1>2. BloomInv => NoFalseNegative
  BY DEF BloomInv
<1> QED BY <1>1, <1>2, NextBloomInv, PTL DEF Spec

=============================================================================
