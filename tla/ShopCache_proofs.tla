-------------------------- MODULE ShopCache_proofs --------------------------
(***************************************************************************)
(* Theorems about ShopCache, for any clients, versions and bounds, with    *)
(* the lock wired or not.                                                  *)
(***************************************************************************)
EXTENDS ShopCache, TLAPS

USE CallsAssumption, VersionsAssumption, LockAssumption, WiredAssumption

-----------------------------------------------------------------------------
(***************************************************************************)
(* Types.                                                                  *)
(***************************************************************************)
Request == [at: Places, kind: ReadKinds \cup {"update", "none"}, shop: Shop]

LEMMA IdleType == Idle \in Request /\ Idle.at = "idle" /\ Idle.kind = "none" /\ Idle.shop = "none"
BY DEF Idle, Request, Places, Shop

\* Goto changes one request's place, or ends it.
LEMMA GotoType ==
  ASSUME NEW c \in Clients, NEW place \in Places, req \in [Clients -> Request], Goto(c, place)
  PROVE  /\ req' \in [Clients -> Request]
         /\ \A d \in Clients \ {c} : req'[d] = req[d]
         /\ place = "idle" => req'[c] = Idle
         /\ place # "idle" => /\ req'[c].at = place
                              /\ req'[c].kind = req[c].kind
                              /\ req'[c].shop = req[c].shop
<1>1. CASE place = "idle"
  BY <1>1, IdleType DEF Goto
<1>2. CASE place # "idle"
  <2>1. req' = [req EXCEPT ![c] = [req[c] EXCEPT !.at = place]]
    BY <1>2 DEF Goto
  <2>2. [req[c] EXCEPT !.at = place] \in Request
    BY DEF Request
  <2> QED BY <1>2, <2>1, <2>2 DEF Request
<1> QED BY <1>1, <1>2

\* What Query does to a request that goes on.
LEMMA ShopType ==
  ASSUME NEW c \in Clients, NEW place \in Places, req \in [Clients -> Request]
  PROVE  \A s \in Shop :
           req' = [req EXCEPT ![c].shop = s, ![c].at = place] =>
             /\ req' \in [Clients -> Request]
             /\ \A d \in Clients \ {c} : req'[d] = req[d]
             /\ req'[c].at = place /\ req'[c].kind = req[c].kind /\ req'[c].shop = s
<1> SUFFICES ASSUME NEW s \in Shop, req' = [req EXCEPT ![c].shop = s, ![c].at = place]
             PROVE  /\ req' \in [Clients -> Request]
                    /\ \A d \in Clients \ {c} : req'[d] = req[d]
                    /\ req'[c].at = place /\ req'[c].kind = req[c].kind /\ req'[c].shop = s
  OBVIOUS
<1> DEFINE r == [req[c] EXCEPT !.shop = s, !.at = place]
<1>1. r \in Request /\ r.at = place /\ r.kind = req[c].kind /\ r.shop = s
  BY DEF Request
<1>2. req' = [req EXCEPT ![c] = r]
  OBVIOUS
<1> HIDE DEF r
<1> QED BY <1>1, <1>2, ZenonT(30)

LEMMA InitType == Init => TypeOK
<1> SUFFICES ASSUME Init PROVE TypeOK
  OBVIOUS
<1>1. req \in [Clients -> Request]
  BY IdleType DEF Init
<1>2. CallsTypeOK
  BY DEF Init, CallsInit, CallsTypeOK
<1> QED BY <1>1, <1>2 DEF Init, TypeOK, Request

\* An update has a version from its arrival on: what it submitted, later
\* what its SELECT found.
Updating(r) == r.at \in {"save", "del", "commit"} \/ r.kind = "update"

SavesVersion == \A c \in Clients : Updating(req[c]) => req[c].shop \in Versions

\* What a SELECT leaves is a shop.
LEMMA ScannedType ==
  ASSUME TypeOK, NEW c \in Clients
  PROVE  /\ Scanned(c) \in Shop
         /\ Scanned(c) \in {row, req[c].shop}
         /\ row # "null" => Scanned(c) = row
BY DEF TypeOK, Scanned, Shop

\* A step by the variables it writes: the request of a client, the entry, the
\* lock; what the row and the origins become.
LEMMA NextType == TypeOK /\ SavesVersion /\ [Next]_vars => TypeOK'
<1> SUFFICES ASSUME TypeOK, SavesVersion, [Next]_vars PROVE TypeOK'
  OBVIOUS
<1>0. /\ row \in Versions \cup {"none", "null"}
      /\ cache \in Versions \cup {"empty", "blank", "absent"}
      /\ lock \in Clients \cup {"free", "orphan"}
      /\ req \in [Clients -> Request]
      /\ origin \in [Versions -> {"nobody", "put", "save"}]
      /\ lapsed \subseteq Clients
      /\ CallsTypeOK
  BY DEF TypeOK, Request
<1>1. Arrive \/ NoFault \/ Fault \/ Restart \/ UNCHANGED callVars
  BY DEF Next, Step, Fails, QueryShopById, PutShop, SaveShop, UpdateShop, Get, GetError, Lock, LockError,
         Query, QueryError, Fill, FillError, Unlock, UnlockError, Save, Del, Commit, UpdateError,
         Expire, ExpireOrphan, Lapse, Crash, vars
<1>2. CallsTypeOK'
  BY <1>0, <1>1 DEF CallsTypeOK, Arrive, NoFault, Fault, Restart, callVars
<1>3. ASSUME row' \in Versions \cup {"none", "null"}, cache' \in Versions \cup {"empty", "blank", "absent"},
             lock' \in Clients \cup {"free", "orphan"}, req' \in [Clients -> Request],
             origin' \in [Versions -> {"nobody", "put", "save"}], lapsed' \subseteq Clients
      PROVE  TypeOK'
  BY <1>2, <1>3 DEF TypeOK, Request
<1>4. ASSUME NEW c \in Clients, QueryShopById(c) PROVE TypeOK'
  <2>1. req' \in [Clients -> Request]
    BY <1>0, <1>4 DEF QueryShopById, Request, Places, Shop
  <2> QED BY <1>0, <1>3, <1>4, <2>1 DEF QueryShopById
<1>5. ASSUME NEW c \in Clients, NEW v \in Versions, PutShop(c, v) PROVE TypeOK'
  <2>1. req' \in [Clients -> Request]
    BY <1>0, <1>5 DEF PutShop, Request, Places, Shop
  <2> QED BY <1>0, <1>3, <1>5, <2>1 DEF PutShop, Submit
<1>6. ASSUME NEW v \in Versions, SaveShop(v) \/ UpdateShop(v) PROVE TypeOK'
  BY <1>0, <1>3, <1>6 DEF SaveShop, UpdateShop, Submit
<1>7. ASSUME NEW c \in Clients, Get(c) \/ GetError(c) PROVE TypeOK'
  <2>1. \E p \in Places : Goto(c, p)
    BY <1>7 DEF Get, GetError, Places
  <2>2. req' \in [Clients -> Request]
    BY <1>0, <2>1, GotoType
  <2> QED BY <1>0, <1>3, <1>7, <2>2 DEF Get, GetError, KeepsShop
<1>8. ASSUME NEW c \in Clients, Lock(c) \/ LockError(c) PROVE TypeOK'
  <2>1. (\E p \in Places : Goto(c, p)) /\ lock' \in {lock, c, "orphan"}
    BY <1>8 DEF Lock, LockError, Places
  <2>2. req' \in [Clients -> Request]
    BY <1>0, <2>1, GotoType
  <2> QED BY <1>0, <1>3, <1>8, <2>1, <2>2 DEF Lock, LockError, KeepsShop
<1>9. ASSUME NEW c \in Clients, Query(c) \/ QueryError(c) PROVE TypeOK'
  <2>1. \/ \E p \in Places : Goto(c, p)
        \/ \E p \in Places, s \in Shop : req' = [req EXCEPT ![c].shop = s, ![c].at = p]
    <3>1. CASE Query(c)
      BY <1>0, <3>1, ScannedType DEF Query, Places
    <3>2. CASE QueryError(c)
      BY <3>2 DEF QueryError, Places
    <3> QED BY <1>9, <3>1, <3>2
  <2>2. req' \in [Clients -> Request]
    BY <1>0, <2>1, GotoType, ShopType
  <2> QED BY <1>0, <1>3, <1>9, <2>2 DEF Query, QueryError, KeepsShop
<1>10. ASSUME NEW c \in Clients, Fill(c) \/ FillError(c) PROVE TypeOK'
  <2>1. \E p \in Places : Goto(c, p)
    BY <1>10 DEF Fill, FillError, AfterFill, Places
  <2>2. req' \in [Clients -> Request]
    BY <1>0, <2>1, GotoType
  <2>3. Entry(req[c].shop) \in Versions \cup {"empty", "blank", "absent"}
    BY <1>0 DEF Entry, Request, Shop
  <2> QED BY <1>0, <1>3, <1>10, <2>2, <2>3 DEF Fill, FillError, KeepsShop
<1>11. ASSUME NEW c \in Clients, Unlock(c) \/ UnlockError(c) PROVE TypeOK'
  <2>1. Goto(c, "idle") /\ lock' \in {lock, "free", "orphan"} /\ lapsed' = lapsed \ {c}
    BY <1>11 DEF Unlock, UnlockError, Release
  <2>2. req' \in [Clients -> Request]
    BY <1>0, <2>1, GotoType DEF Places
  <2> QED BY <1>0, <1>3, <1>11, <2>1, <2>2 DEF Unlock, UnlockError, KeepsShop
<1>12. ASSUME NEW c \in Clients, Save(c) \/ Del(c) PROVE TypeOK'
  <2>1. \E p \in Places : Goto(c, p)
    BY <1>12 DEF Save, Del, Places
  <2>2. req' \in [Clients -> Request]
    BY <1>0, <2>1, GotoType
  <2> QED BY <1>0, <1>3, <1>12, <2>2 DEF Save, Del, KeepsLock
<1>13. ASSUME NEW c \in Clients, Commit(c) \/ UpdateError(c) PROVE TypeOK'
  <2>1. Goto(c, "idle")
    BY <1>13 DEF Commit, UpdateError
  <2>2. req' \in [Clients -> Request]
    BY <1>0, <2>1, GotoType DEF Places
  <2>3. row' \in {row} \cup Versions
    BY <1>13 DEF Commit, UpdateError, SavesVersion, Updating, At
  <2> QED BY <1>0, <1>3, <1>13, <2>2, <2>3 DEF Commit, UpdateError, KeepsLock, At
<1>14. CASE Expire \/ ExpireOrphan
  BY <1>0, <1>3, <1>14 DEF Expire, ExpireOrphan
<1>15. ASSUME NEW c \in Clients, Lapse(c) PROVE TypeOK'
  BY <1>0, <1>3, <1>15 DEF Lapse
<1>16. CASE Crash
  BY <1>0, <1>3, <1>16, IdleType DEF Crash
<1>17. CASE UNCHANGED vars
  BY <1>0, <1>3, <1>17 DEF vars, shopVars
<1> QED
  BY <1>4, <1>5, <1>6, <1>7, <1>8, <1>9, <1>10, <1>11, <1>12, <1>13, <1>14, <1>15, <1>16, <1>17
  DEF Next, Step, Fails

(***************************************************************************)
(* One client's step as the invariants below see it: only its request      *)
(* changes, and it goes on from its place in one of these ways.            *)
(***************************************************************************)
Others(c) == \A d \in Clients \ {c} : req'[d] = req[d]

LEMMA Moves ==
  ASSUME TypeOK, NEW c \in Clients, Step(c) \/ Fails(c)
  PROVE  /\ Others(c)
         /\ \/ req'[c] = Idle
            \/ req'[c] = req[c]
            \/ /\ req'[c].shop = req[c].shop /\ req'[c].kind = req[c].kind
               /\ \/ req'[c].at \in {"get", "lock", "unlock"} /\ (req[c].at = "query" => req[c].kind = "mutex")
                  \/ req'[c].at = "query" /\ req[c].at \in {"get", "lock"}
                  \/ req'[c].at = "del" /\ req[c].at = "save"
                  \/ req'[c].at = "commit" /\ req[c].at = "del"
            \/ /\ req[c].at = "query" /\ req'[c].kind = req[c].kind
               /\ \/ /\ req'[c].at = "fill" /\ req[c].kind # "update"
                     /\ req'[c].shop \in {row, req[c].shop}
                  \/ /\ req'[c].at = "save" /\ req[c].kind = "update"
                     /\ req'[c].shop = Scanned(c) /\ row # "none"
<1>0. req \in [Clients -> Request] /\ Scanned(c) \in {row, req[c].shop}
  BY ScannedType DEF TypeOK, Request
<1>1. ASSUME NEW place \in Places, Goto(c, place) PROVE Others(c)
  BY <1>0, <1>1, GotoType DEF Others
<1>2. ASSUME NEW place \in Places, Goto(c, place), place # "idle"
      PROVE  req'[c].at = place /\ req'[c].kind = req[c].kind /\ req'[c].shop = req[c].shop
  BY <1>0, <1>2, GotoType
<1>3. ASSUME Goto(c, "idle") PROVE req'[c] = Idle
  BY <1>0, <1>3, GotoType, IdleType DEF Places
<1>4. CASE Get(c) \/ GetError(c)
  BY <1>1, <1>2, <1>3, <1>4 DEF Get, GetError, At, Places
<1>5. CASE Lock(c) \/ LockError(c)
  BY <1>1, <1>2, <1>3, <1>5 DEF Lock, LockError, At, Places
<1>6. CASE Query(c)
  <2>1. CASE row = "none" /\ req[c].kind \in {"cache", "update"}
    BY <1>1, <1>3, <1>6, <2>1 DEF Query, Places
  <2>2. CASE ~(row = "none" /\ req[c].kind \in {"cache", "update"})
    <3>1. req[c].at = "query"
      BY <1>6 DEF Query, At
    <3>2. CASE req[c].kind = "update"
      <4>1. req' = [req EXCEPT ![c].shop = Scanned(c), ![c].at = "save"] /\ "save" \in Places
        BY <1>6, <2>2, <3>2 DEF Query, Places
      <4>2. /\ \A d \in Clients \ {c} : req'[d] = req[d]
            /\ req'[c].at = "save" /\ req'[c].kind = req[c].kind /\ req'[c].shop = Scanned(c)
        <5> DEFINE r == [req[c] EXCEPT !.shop = Scanned(c), !.at = "save"]
        <5>1. r.at = "save" /\ r.kind = req[c].kind /\ r.shop = Scanned(c)
          BY <1>0 DEF Request
        <5>2. req' = [req EXCEPT ![c] = r]
          BY <4>1
        <5> HIDE DEF r
        <5> QED BY <1>0, <5>1, <5>2
      <4> QED BY <2>2, <3>1, <3>2, <4>2 DEF Others
    <3>3. CASE req[c].kind # "update"
      <4>1. req' = [req EXCEPT ![c].shop = Scanned(c), ![c].at = "fill"] /\ "fill" \in Places
        BY <1>6, <2>2, <3>3 DEF Query, Places
      <4>2. /\ \A d \in Clients \ {c} : req'[d] = req[d]
            /\ req'[c].at = "fill" /\ req'[c].kind = req[c].kind /\ req'[c].shop = Scanned(c)
        <5> DEFINE r == [req[c] EXCEPT !.shop = Scanned(c), !.at = "fill"]
        <5>1. r.at = "fill" /\ r.kind = req[c].kind /\ r.shop = Scanned(c)
          BY <1>0 DEF Request
        <5>2. req' = [req EXCEPT ![c] = r]
          BY <4>1
        <5> HIDE DEF r
        <5> QED BY <1>0, <5>1, <5>2
      <4> QED BY <1>0, <3>1, <3>3, <4>2 DEF Others
    <3> QED BY <3>2, <3>3
  <2> QED BY <2>1, <2>2
<1>7. CASE QueryError(c)
  <2>1. /\ req[c].at = "query"
        /\ \/ Goto(c, "fill") /\ req[c].kind = "null"
           \/ Goto(c, "unlock") /\ req[c].kind = "mutex"
           \/ Goto(c, "idle")
    BY <1>7 DEF QueryError, At
  <2> QED BY <1>1, <1>2, <1>3, <2>1 DEF Places
<1>9. CASE Fill(c) \/ FillError(c)
  BY <1>1, <1>2, <1>3, <1>9 DEF Fill, FillError, AfterFill, Places
<1>10. CASE Unlock(c) \/ UnlockError(c) \/ Commit(c) \/ UpdateError(c)
  BY <1>1, <1>3, <1>10 DEF Unlock, UnlockError, Commit, UpdateError, Places
<1>11. CASE Save(c) \/ Del(c)
  BY <1>1, <1>2, <1>11 DEF Save, Del, At, Places
<1>12. CASE Lapse(c)
  BY <1>12 DEF Lapse, Others
<1> QED BY <1>4, <1>5, <1>6, <1>7, <1>9, <1>10, <1>11, <1>12 DEF Step, Fails

-----------------------------------------------------------------------------
\* Steps of a request leave the origins alone.
LEMMA StepOrigin ==
  ASSUME NEW c \in Clients, Step(c) \/ Fails(c)
  PROVE  origin' = origin
BY DEF Step, Fails, Get, GetError, Lock, LockError, Query, QueryError, Fill, FillError,
       Unlock, UnlockError, Save, Del, Commit, UpdateError, Lapse, KeepsShop, KeepsLock

TypeInv == TypeOK /\ SavesVersion

LEMMA InitInv == Init => TypeInv
<1> SUFFICES ASSUME Init PROVE TypeInv
  OBVIOUS
<1>1. \A c \in Clients : req[c] = Idle
  BY DEF Init
<1> QED BY <1>1, InitType, IdleType DEF TypeInv, SavesVersion, Updating

LEMMA NextInv == TypeInv /\ [Next]_vars => TypeInv'
<1> SUFFICES ASSUME TypeInv, [Next]_vars PROVE TypeInv'
  OBVIOUS
<1>0. /\ TypeOK /\ TypeOK' /\ SavesVersion
      /\ row \in Versions \cup {"none", "null"} /\ req \in [Clients -> Request]
  BY NextType DEF TypeInv, TypeOK, Request
<1>1. SUFFICES SavesVersion'
  BY <1>0 DEF TypeInv
<1>2. ASSUME NEW c \in Clients, QueryShopById(c) PROVE SavesVersion'
  <2>1. /\ req'[c].at = "get" /\ req'[c].kind # "update"
        /\ \A d \in Clients \ {c} : req'[d] = req[d]
    BY <1>0, <1>2 DEF QueryShopById, ReadKinds
  <2> QED BY <1>0, <2>1 DEF SavesVersion, Updating
<1>3. ASSUME NEW c \in Clients, NEW v \in Versions, PutShop(c, v) PROVE SavesVersion'
  <2>1. /\ req'[c].shop = v
        /\ \A d \in Clients \ {c} : req'[d] = req[d]
    BY <1>0, <1>3 DEF PutShop
  <2> QED BY <1>0, <2>1 DEF SavesVersion, Updating
<1>4. ASSUME NEW c \in Clients, Step(c) \/ Fails(c) PROVE SavesVersion'
  <2>1. Others(c) /\ Scanned(c) \in {row, req[c].shop} /\ (row # "null" => Scanned(c) = row)
    BY <1>0, <1>4, Moves, ScannedType
  <2>2. ASSUME Updating(req'[c]) PROVE req'[c].shop \in Versions
    BY <1>0, <1>4, <2>1, <2>2, Moves, IdleType DEF SavesVersion, Scanned, Updating
  <2>3. ASSUME NEW d \in Clients \ {c}, Updating(req'[d]) PROVE req'[d].shop \in Versions
    BY <1>0, <2>1, <2>3 DEF SavesVersion, Others
  <2> QED BY <2>2, <2>3 DEF SavesVersion, Updating
<1>5. CASE Crash
  BY <1>5, IdleType DEF Crash, SavesVersion, Updating
<1>6. CASE \/ \E v \in Versions : SaveShop(v) \/ UpdateShop(v)
           \/ Expire \/ ExpireOrphan \/ UNCHANGED vars
  <2>1. req' = req
    BY <1>6 DEF SaveShop, UpdateShop, Expire, ExpireOrphan, vars, shopVars
  <2> QED BY <1>0, <2>1 DEF SavesVersion
<1> QED BY <1>2, <1>3, <1>4, <1>5, <1>6 DEF Next

(***************************************************************************)
(* What no SaveShop or UpdateShop submitted is nowhere but in the body of  *)
(* a PUT that has not yet read the row over it.                            *)
(***************************************************************************)
Unread(v) ==
  /\ v # row /\ v # cache
  /\ \A c \in Clients :
       req[c].shop = v => req[c].at = "query" /\ req[c].kind = "update" /\ origin[v] = "put"

PutInv == row # "null" /\ \A v \in Versions : origin[v] # "save" => Unread(v)

LEMMA InitPuts == Init /\ row # "null" => PutInv
<1> SUFFICES ASSUME Init, row # "null" PROVE PutInv
  OBVIOUS
<1>1. \A c \in Clients : req[c] = Idle
  BY DEF Init
<1> QED BY <1>1, IdleType DEF Init, PutInv, Unread, Special

LEMMA NextPuts == TypeInv /\ PutInv /\ [Next]_vars => PutInv'
<1> SUFFICES ASSUME TypeInv, PutInv, [Next]_vars PROVE PutInv'
  OBVIOUS
<1>0. /\ TypeOK /\ SavesVersion /\ row # "null"
      /\ row \in Versions \cup {"none", "null"} /\ req \in [Clients -> Request]
      /\ origin \in [Versions -> {"nobody", "put", "save"}]
      /\ \A v \in Versions : v \notin {"none", "null", "blank", "empty", "absent"}
  BY DEF TypeInv, TypeOK, PutInv, Request, Special
<1>2. ASSUME NEW c \in Clients, QueryShopById(c) PROVE PutInv'
  <2>1. /\ req'[c].shop = "blank"
        /\ \A d \in Clients \ {c} : req'[d] = req[d]
    BY <1>0, <1>2 DEF QueryShopById
  <2> QED BY <1>0, <1>2, <2>1 DEF QueryShopById, PutInv, Unread
<1>3. ASSUME NEW c \in Clients, NEW v \in Versions, PutShop(c, v) PROVE PutInv'
  <2>1. /\ req'[c].shop = v /\ req'[c].at = "query" /\ req'[c].kind = "update"
        /\ \A d \in Clients \ {c} : req'[d] = req[d]
        /\ origin'[v] = "put" /\ origin[v] = "nobody"
        /\ \A w \in Versions \ {v} : origin'[w] = origin[w]
    BY <1>0, <1>3 DEF PutShop, Submit
  <2> QED BY <1>0, <1>3, <2>1 DEF PutShop, PutInv, Unread
<1>4. ASSUME NEW v \in Versions, SaveShop(v) \/ UpdateShop(v) PROVE PutInv'
  <2>1. /\ origin'[v] = "save" /\ origin[v] = "nobody" /\ row' = v /\ UNCHANGED <<cache, req>>
        /\ \A w \in Versions \ {v} : origin'[w] = origin[w]
    BY <1>0, <1>4 DEF SaveShop, UpdateShop, Submit
  <2> QED BY <1>0, <2>1 DEF PutInv, Unread
<1>5. ASSUME NEW c \in Clients, Step(c) \/ Fails(c) PROVE PutInv'
  <2>1. Others(c) /\ Scanned(c) = row /\ origin' = origin
    BY <1>0, <1>5, Moves, ScannedType, StepOrigin
  <2>3. row' = row \/ (row' = req[c].shop /\ req[c].at = "commit")
    BY <1>5 DEF Step, Fails, Get, GetError, Lock, LockError, Query, QueryError, Fill, FillError,
                Unlock, UnlockError, Save, Del, Commit, UpdateError, Lapse, KeepsShop, At
  <2>4. cache' \in {cache, "absent", "empty"} \/ (cache' = req[c].shop /\ req[c].at = "fill")
    BY <1>5 DEF Step, Fails, Get, GetError, Lock, LockError, Query, QueryError, Fill, FillError,
                Unlock, UnlockError, Save, Del, Commit, UpdateError, Lapse, At, Entry
  <2>5. row' # "null"
    BY <1>0, <2>3 DEF SavesVersion, Updating
  <2>6. ASSUME NEW v \in Versions, origin[v] # "save" PROVE Unread(v)'
    <3>1. Unread(v)
      BY <2>6 DEF PutInv
    <3>2. v # row' /\ v # cache'
      BY <1>0, <2>3, <2>4, <3>1 DEF Unread
    <3>3. req'[c].shop = v => req'[c].at = "query" /\ req'[c].kind = "update"
      BY <1>0, <1>5, <2>1, <3>1, Moves, IdleType DEF Unread
    <3>4. req'[c].shop = v => origin[v] = "put"
      BY <1>0, <1>5, <2>1, <3>1, Moves, IdleType DEF Unread
    <3> QED BY <2>1, <3>1, <3>2, <3>3, <3>4 DEF Unread, Others
  <2> QED BY <2>1, <2>5, <2>6 DEF PutInv
<1>6. CASE Crash
  BY <1>0, <1>6, IdleType DEF Crash, PutInv, Unread
<1>7. CASE Expire \/ ExpireOrphan \/ UNCHANGED vars
  BY <1>0, <1>7 DEF Expire, ExpireOrphan, vars, shopVars, PutInv, Unread
<1> QED BY <1>2, <1>3, <1>4, <1>5, <1>6, <1>7 DEF Next

(***************************************************************************)
(* Type correctness: entries, requests and the lock are what they should   *)
(* be; an update never saves the blank shop that a failed SELECT leaves.   *)
(***************************************************************************)
THEOREM TypeCorrect == Spec => []TypeOK
<1>1. TypeInv => TypeOK
  BY DEF TypeInv
<1> QED BY <1>1, InitInv, NextInv, PTL DEF Spec

(***************************************************************************)
(* What PUT /shop submits reaches neither the row nor the entry, if the    *)
(* shop was not there with NULL columns from the start: the SELECT takes   *)
(* everything else out of the submitted shop.                              *)
(***************************************************************************)
THEOREM PutsLost == Spec /\ row # "null" => []PutChangesNothing
<1>1. PutInv => PutChangesNothing
  BY DEF PutInv, PutChangesNothing, Unread
<1> QED BY <1>1, InitInv, NextInv, InitPuts, NextPuts, PTL DEF Spec

-----------------------------------------------------------------------------
(***************************************************************************)
(* The lock: who has passed it and not given it back holds the key, or has *)
(* lost it to the TTL.                                                     *)
(***************************************************************************)
Inside(c) == req[c].kind = "mutex" /\ req[c].at \in {"query", "fill", "unlock"}

LockInv == \A c \in Clients : Inside(c) => lock = c \/ c \in lapsed

LEMMA InitLockInv == Init => LockInv
BY IdleType DEF Init, LockInv, Inside

LEMMA NextLockInv == TypeInv /\ LockInv /\ [Next]_vars => LockInv'
<1> SUFFICES ASSUME TypeInv, LockInv, [Next]_vars PROVE LockInv'
  OBVIOUS
<1>0. TypeOK /\ req \in [Clients -> Request] /\ "free" \notin Clients /\ "orphan" \notin Clients
  BY DEF TypeInv, TypeOK, Request
<1>1. ASSUME NEW c \in Clients, Others(c), UNCHANGED <<lock, lapsed>>, ~Inside(c)' \/ Inside(c)
      PROVE  LockInv'
  BY <1>1 DEF LockInv, Inside, Others
<1>2. ASSUME NEW c \in Clients, QueryShopById(c) \/ \E v \in Versions : PutShop(c, v) PROVE LockInv'
  <2>1. req'[c].at = "get" \/ req'[c].kind = "update"
    BY <1>0, <1>2 DEF QueryShopById, PutShop
  <2>2. Others(c) /\ UNCHANGED <<lock, lapsed>>
    BY <1>0, <1>2 DEF QueryShopById, PutShop, Others
  <2> QED BY <1>1, <2>1, <2>2 DEF Inside
<1>3. ASSUME NEW v \in Versions, SaveShop(v) \/ UpdateShop(v) PROVE LockInv'
  BY <1>3 DEF SaveShop, UpdateShop, LockInv, Inside
<1>4. ASSUME NEW c \in Clients, Get(c) PROVE LockInv'
  <2>1. Others(c) /\ UNCHANGED <<lock, lapsed>> /\ ~Inside(c)'
    BY <1>0, <1>4, GotoType, IdleType, Moves DEF Get, Step, Inside, Places, At
  <2> QED BY <1>1, <2>1
<1>5. ASSUME NEW c \in Clients, Lock(c) PROVE LockInv'
  <2>1. Others(c)
    BY <1>0, <1>5, Moves DEF Step
  <2>2. CASE LockWired /\ lock = "free"
    BY <1>0, <1>5, <2>1, <2>2 DEF Lock, LockInv, Inside, Others
  <2>3. CASE ~(LockWired /\ lock = "free")
    <3>1. UNCHANGED <<lock, lapsed>> /\ \E p \in {"get", "idle"} : Goto(c, p)
      BY <1>5, <2>3 DEF Lock
    <3>2. ~Inside(c)'
      BY <1>0, <3>1, GotoType, IdleType DEF Inside, Places
    <3> QED BY <1>1, <2>1, <3>1, <3>2
  <2> QED BY <2>2, <2>3
<1>6. ASSUME NEW c \in Clients, GetError(c) \/ LockError(c) PROVE LockInv'
  <2>1. Others(c) /\ lapsed' = lapsed /\ (lock' = lock \/ lock = "free")
    BY <1>0, <1>6, Moves DEF Fails, GetError, LockError
  <2>2. Goto(c, "idle") \/ Goto(c, "get")
    BY <1>6 DEF GetError, LockError
  <2>3. ~Inside(c)'
    BY <1>0, <2>2, GotoType, IdleType DEF Inside, Places
  <2> QED BY <1>0, <2>1, <2>3 DEF LockInv, Inside, Others
<1>7. ASSUME NEW c \in Clients, Query(c) \/ QueryError(c) \/ Fill(c) \/ FillError(c) PROVE LockInv'
  <2>1. Others(c) /\ UNCHANGED <<lock, lapsed>>
    BY <1>0, <1>7, Moves DEF Step, Fails, Query, QueryError, Fill, FillError
  <2>2. req'[c].kind = req[c].kind \/ req'[c].at = "idle"
    BY <1>0, <1>7, Moves, IdleType DEF Step, Fails
  <2>3. req[c].at \in {"query", "fill"}
    BY <1>7 DEF Query, QueryError, Fill, FillError, At
  <2> QED BY <1>1, <2>1, <2>2, <2>3 DEF Inside
<1>8. ASSUME NEW c \in Clients, Unlock(c) \/ UnlockError(c) PROVE LockInv'
  <2>1. Others(c) /\ Goto(c, "idle") /\ lapsed' = lapsed \ {c} /\ (lock' = lock \/ lock = c)
    BY <1>0, <1>8, Moves DEF Step, Fails, Unlock, UnlockError, Release
  <2>2. ~Inside(c)'
    BY <1>0, <2>1, GotoType, IdleType DEF Inside, Places
  <2> QED BY <2>1, <2>2 DEF LockInv, Inside, Others
<1>9. ASSUME NEW c \in Clients, Save(c) \/ Del(c) \/ Commit(c) \/ UpdateError(c) PROVE LockInv'
  <2>1. Others(c) /\ UNCHANGED <<lock, lapsed>>
    BY <1>0, <1>9, Moves DEF Step, Fails, Save, Del, Commit, UpdateError, KeepsLock
  <2>2. \E p \in {"del", "commit", "idle"} : Goto(c, p)
    BY <1>9 DEF Save, Del, Commit, UpdateError
  <2>3. ~Inside(c)'
    BY <1>0, <2>2, GotoType, IdleType DEF Inside, Places
  <2> QED BY <1>1, <2>1, <2>3
<1>10. ASSUME NEW c \in Clients, Lapse(c) PROVE LockInv'
  BY <1>0, <1>10 DEF Lapse, LockInv, Inside
<1>11. CASE Crash
  BY <1>11, IdleType DEF Crash, LockInv, Inside
<1>12. CASE Expire \/ ExpireOrphan \/ UNCHANGED vars
  BY <1>0, <1>12 DEF Expire, ExpireOrphan, vars, shopVars, LockInv, Inside
<1> QED
  BY <1>2, <1>3, <1>4, <1>5, <1>6, <1>7, <1>8, <1>9, <1>10, <1>11, <1>12 DEF Next, Step, Fails

(***************************************************************************)
(* Two requests rebuild the entry together only after a key expired under  *)
(* one of them.                                                            *)
(***************************************************************************)
THEOREM RebuildsAlone == Spec => []OneRebuild
<1>1. LockInv => OneRebuild
  BY DEF LockInv, Inside, OneRebuild, Rebuilding
<1>2. Init => TypeInv /\ LockInv
  BY InitInv, InitLockInv
<1>3. TypeInv /\ LockInv /\ [Next]_vars => (TypeInv /\ LockInv)'
  BY NextInv, NextLockInv
<1> QED BY <1>1, <1>2, <1>3, PTL DEF Spec

-----------------------------------------------------------------------------
(***************************************************************************)
(* The reads use the lock as TokenLock has it.  Only reads of kind "mutex" *)
(* come to the lock.                                                       *)
(***************************************************************************)
LockersAreMutex == \A c \in Clients : req[c].at \in {"lock", "unlock"} => req[c].kind = "mutex"

ClientPhases == [c \in Clients |-> LockPhase(c)]

PhaseOf(r) ==
  IF r.kind = "mutex" /\ r.at \in {"query", "fill"} THEN "in"
  ELSE IF r.at = "unlock" THEN "leaving" ELSE "out"

LEMMA PhaseOfRequest ==
  ASSUME NEW c \in Clients
  PROVE  LockPhase(c) = PhaseOf(req[c]) /\ LockPhase(c)' = PhaseOf(req'[c])
<1>1. LockPhase(c) = PhaseOf(req[c])
  BY Zenon DEF LockPhase, PhaseOf, Rebuilding, At
<1>2. LockPhase(c)' = PhaseOf(req'[c])
  BY Zenon DEF LockPhase, PhaseOf, Rebuilding, At
<1> QED BY <1>1, <1>2

LEMMA PhaseMoves ==
  ASSUME NEW c \in Clients, NEW p, PhaseOf(req'[c]) = p, Others(c)
  PROVE  Promise!Enter(c, p)
<1>1. \A d \in Clients : LockPhase(d)' = IF d = c THEN p ELSE LockPhase(d)
  BY PhaseOfRequest DEF Others
<1>2. ClientPhases' = [ClientPhases EXCEPT ![c] = p]
  <2>1. ClientPhases' = [d \in Clients |-> LockPhase(d)']
    BY DEF ClientPhases
  <2>2. [ClientPhases EXCEPT ![c] = p]
          = [d \in Clients |-> IF d = c THEN p ELSE LockPhase(d)]
    BY DEF ClientPhases
  <2> QED BY <1>1, <2>1, <2>2, Zenon
<1> QED BY <1>2 DEF Promise!Enter, ClientPhases

LEMMA PhasesStay ==
  ASSUME \A c \in Clients : PhaseOf(req'[c]) = PhaseOf(req[c])
  PROVE  ClientPhases' = ClientPhases
<1>1. \A c \in Clients : LockPhase(c)' = LockPhase(c)
  BY PhaseOfRequest
<1> QED BY <1>1, Zenon DEF ClientPhases

LEMMA FaultsKept ==
  ASSUME TypeOK, [Next]_vars
  PROVE  /\ faults > 0 => faults' > 0
         /\ Fault => faults' > 0
<1>1. Arrive \/ NoFault \/ Fault \/ Restart \/ UNCHANGED callVars
  BY DEF Next, Step, Fails, QueryShopById, PutShop, SaveShop, UpdateShop, Get, GetError, Lock, LockError,
         Query, QueryError, Fill, FillError, Unlock, UnlockError, Save, Del, Commit, UpdateError,
         Expire, ExpireOrphan, Lapse, Crash, vars
<1>2. faults \in Nat /\ (faults' = faults \/ faults' = faults + 1)
  BY <1>1 DEF TypeOK, CallsTypeOK, Arrive, NoFault, Fault, Restart, callVars
<1> QED BY <1>2 DEF Fault

LEMMA InitPromise == Init => Promise!Init
<1> SUFFICES ASSUME Init PROVE Promise!Init
  OBVIOUS
<1>1. \A c \in Clients : LockPhase(c) = "out"
  BY PhaseOfRequest, IdleType DEF Init, PhaseOf
<1>2. [c \in Clients |-> LockPhase(c)] = [c \in Clients |-> "out"]
  BY <1>1, Zenon
<1>3. lock = "free" /\ (faults > 0) = FALSE
  BY DEF Init, CallsInit
<1> QED BY <1>2, <1>3 DEF Promise!Init

LEMMA InitLockers == Init => LockersAreMutex
BY IdleType DEF Init, LockersAreMutex

\* What a request's step does to its phase and to the lock.
LEMMA StepLock ==
  ASSUME TypeOK, LockersAreMutex, [Next]_vars, NEW c \in Clients,
         (Step(c) \/ Fails(c)) /\ ~Lapse(c)
  PROVE  /\ \/ lock' = lock /\ PhaseOf(req'[c]) = PhaseOf(req[c])
            \/ PhaseOf(req[c]) = "out" /\ PhaseOf(req'[c]) = "in" /\ lock = "free" /\ lock' = c
            \/ /\ PhaseOf(req'[c]) = PhaseOf(req[c])
               /\ lock = "free" /\ lock' = "orphan" /\ faults' > 0
            \/ PhaseOf(req[c]) = "in" /\ PhaseOf(req'[c]) = "leaving" /\ lock' = lock
            \/ /\ PhaseOf(req[c]) = "leaving" /\ PhaseOf(req'[c]) = "out"
               /\ \/ lock' = IF lock = c THEN "free" ELSE lock
                  \/ faults' > 0 /\ lock' = IF lock = c THEN "orphan" ELSE lock
         /\ req'[c].at \in {"lock", "unlock"} => req'[c].kind = "mutex"
<1> DEFINE Goal ==
      /\ \/ lock' = lock /\ PhaseOf(req'[c]) = PhaseOf(req[c])
         \/ PhaseOf(req[c]) = "out" /\ PhaseOf(req'[c]) = "in" /\ lock = "free" /\ lock' = c
         \/ /\ PhaseOf(req'[c]) = PhaseOf(req[c])
            /\ lock = "free" /\ lock' = "orphan" /\ faults' > 0
         \/ PhaseOf(req[c]) = "in" /\ PhaseOf(req'[c]) = "leaving" /\ lock' = lock
         \/ /\ PhaseOf(req[c]) = "leaving" /\ PhaseOf(req'[c]) = "out"
            /\ \/ lock' = IF lock = c THEN "free" ELSE lock
               \/ faults' > 0 /\ lock' = IF lock = c THEN "orphan" ELSE lock
      /\ req'[c].at \in {"lock", "unlock"} => req'[c].kind = "mutex"
<1>0. req \in [Clients -> Request]
  BY DEF TypeOK, Request
<1>1. ASSUME NEW p \in Places, p # "idle", Goto(c, p)
      PROVE  req'[c].at = p /\ req'[c].kind = req[c].kind
  BY <1>0, <1>1, GotoType
<1>2. ASSUME Goto(c, "idle") PROVE PhaseOf(req'[c]) = "out" /\ req'[c].at = "idle"
  BY <1>0, <1>2, GotoType, IdleType DEF Places, PhaseOf
<1>3. ASSUME Get(c) \/ GetError(c) PROVE Goal
  <2>1. req[c].at = "get" /\ lock' = lock
    BY <1>3 DEF Get, GetError, At
  <2>2. \/ Goto(c, "idle")
        \/ Goto(c, "lock") /\ req[c].kind = "mutex"
        \/ Goto(c, "query") /\ req[c].kind # "mutex"
    BY <1>3 DEF Get, GetError
  <2> QED BY <1>1, <1>2, <2>1, <2>2 DEF PhaseOf, Places
<1>4. ASSUME Lock(c) PROVE Goal
  <2>1. req[c].at = "lock" /\ req[c].kind = "mutex"
    BY <1>4 DEF Lock, At, LockersAreMutex
  <2>2. \/ lock = "free" /\ lock' = c /\ Goto(c, "query")
        \/ lock' = lock /\ Goto(c, "get")
        \/ lock' = lock /\ Goto(c, "idle")
    BY <1>4, Zenon DEF Lock
  <2> QED BY <1>1, <1>2, <2>1, <2>2 DEF PhaseOf, Places
<1>5. ASSUME LockError(c) PROVE Goal
  <2>1. /\ req[c].at = "lock" /\ req[c].kind = "mutex" /\ faults' > 0
        /\ Goto(c, "idle") \/ Goto(c, "get")
    BY <1>5, FaultsKept DEF LockError, At, LockersAreMutex
  <2>2. lock' = lock \/ (lock = "free" /\ lock' = "orphan")
    BY <1>5 DEF LockError
  <2> QED BY <1>1, <1>2, <2>1, <2>2 DEF PhaseOf, Places
<1>6. ASSUME Query(c) PROVE Goal
  <2>1. req[c].at = "query" /\ lock' = lock
    BY <1>6 DEF Query, At
  <2>2. CASE row = "none" /\ req[c].kind \in {"cache", "update"}
    BY <1>2, <1>6, <2>1, <2>2 DEF Query, PhaseOf
  <2>3. CASE ~(row = "none" /\ req[c].kind \in {"cache", "update"})
    <3> DEFINE p == IF req[c].kind = "update" THEN "save" ELSE "fill"
    <3>1. req' = [req EXCEPT ![c].shop = Scanned(c), ![c].at = p]
      BY <1>6, <2>3 DEF Query
    <3>2. p \in Places /\ Scanned(c) \in Shop
      BY ScannedType DEF Places
    <3>3. p = IF req[c].kind = "update" THEN "save" ELSE "fill"
      OBVIOUS
    <3> HIDE DEF p
    <3>4. req'[c].at = p /\ req'[c].kind = req[c].kind
      BY <1>0, <3>1, <3>2, ShopType
    <3> QED BY <2>1, <3>3, <3>4 DEF PhaseOf
  <2> QED BY <2>2, <2>3
<1>7. ASSUME QueryError(c) PROVE Goal
  <2>1. req[c].at = "query" /\ lock' = lock
    BY <1>7 DEF QueryError, At
  <2>2. \/ Goto(c, "fill") /\ req[c].kind = "null"
        \/ Goto(c, "unlock") /\ req[c].kind = "mutex"
        \/ Goto(c, "idle") /\ req[c].kind # "mutex"
    BY <1>7 DEF QueryError
  <2> QED BY <1>1, <1>2, <2>1, <2>2 DEF PhaseOf, Places
<1>8. ASSUME Fill(c) \/ FillError(c) PROVE Goal
  <2>1. req[c].at = "fill" /\ lock' = lock
    BY <1>8 DEF Fill, FillError, At
  <2>2. \/ Goto(c, "unlock") /\ req[c].kind = "mutex"
        \/ Goto(c, "idle") /\ req[c].kind # "mutex"
    BY <1>8 DEF Fill, FillError, AfterFill
  <2> QED BY <1>1, <1>2, <2>1, <2>2 DEF PhaseOf, Places
<1>9. ASSUME Unlock(c) \/ UnlockError(c) PROVE Goal
  <2>1. req[c].at = "unlock" /\ Goto(c, "idle")
    BY <1>9 DEF Unlock, UnlockError, At
  <2>2. \/ lock' = IF lock = c THEN "free" ELSE lock
        \/ faults' > 0 /\ lock' = IF lock = c THEN "orphan" ELSE lock
    BY <1>9, FaultsKept DEF Unlock, UnlockError, Release
  <2> QED BY <1>2, <2>1, <2>2 DEF PhaseOf
<1>10. ASSUME Save(c) \/ Del(c) \/ Commit(c) \/ UpdateError(c) PROVE Goal
  <2>1. req[c].at \in {"save", "del", "commit"} /\ lock' = lock
    BY <1>10 DEF Save, Del, Commit, UpdateError, KeepsLock, At
  <2>2. \E p \in {"del", "commit", "idle"} : Goto(c, p)
    BY <1>10 DEF Save, Del, Commit, UpdateError
  <2> QED BY <1>1, <1>2, <2>1, <2>2 DEF PhaseOf, Places
<1> HIDE DEF Goal
<1>11. Goal
  BY <1>3, <1>4, <1>5, <1>6, <1>7, <1>8, <1>9, <1>10 DEF Step, Fails
<1> QED BY <1>11, Zenon DEF Goal

LEMMA NextLockers ==
  TypeOK /\ LockersAreMutex /\ [Next]_vars => LockersAreMutex'
<1> SUFFICES ASSUME TypeOK, LockersAreMutex, [Next]_vars PROVE LockersAreMutex'
  OBVIOUS
<1>0. req \in [Clients -> Request]
  BY DEF TypeOK, Request
<1>1. ASSUME NEW c \in Clients, Others(c),
             req'[c].at \in {"lock", "unlock"} => req'[c].kind = "mutex"
      PROVE  LockersAreMutex'
  BY <1>1 DEF LockersAreMutex, Others
<1>2. ASSUME NEW c \in Clients, (Step(c) \/ Fails(c)) /\ ~Lapse(c) PROVE LockersAreMutex'
  <2>1. Others(c)
    BY <1>2, Moves
  <2>2. req'[c].at \in {"lock", "unlock"} => req'[c].kind = "mutex"
    BY <1>2, StepLock
  <2> QED BY <1>1, <2>1, <2>2
<1>3. ASSUME NEW c \in Clients, QueryShopById(c) \/ \E v \in Versions : PutShop(c, v)
      PROVE  LockersAreMutex'
  <2>1. Others(c) /\ req'[c].at \in {"get", "query"}
    BY <1>0, <1>3 DEF QueryShopById, PutShop, Others
  <2> QED BY <1>1, <2>1
<1>4. CASE \/ \E v \in Versions : SaveShop(v) \/ UpdateShop(v)
           \/ \E c \in Clients : Lapse(c)
           \/ Expire \/ ExpireOrphan \/ UNCHANGED vars
  BY <1>4
  DEF SaveShop, UpdateShop, Lapse, Expire, ExpireOrphan, vars, shopVars, LockersAreMutex
<1>5. CASE Crash
  BY <1>5, IdleType DEF Crash, LockersAreMutex
<1> QED BY <1>2, <1>3, <1>4, <1>5 DEF Next

LEMMA NextPromise ==
  TypeOK /\ LockersAreMutex /\ [Next]_vars => [Promise!Next]_(Promise!lockVars)
<1> SUFFICES ASSUME TypeOK, LockersAreMutex, [Next]_vars
             PROVE  Promise!Next \/ UNCHANGED Promise!lockVars
  OBVIOUS
<1> DEFINE Goal == Promise!Next \/ UNCHANGED Promise!lockVars
<1>0. req \in [Clients -> Request] /\ lock \in Clients \cup {"free", "orphan"}
  BY DEF TypeOK, Request
<1>1. Promise!Remembers
  BY FaultsKept DEF Promise!Remembers
\* A step that leaves the lock and the phases as they are.
<1>2. ASSUME lock' = lock, ClientPhases' = ClientPhases PROVE Goal
  <2>1. CASE faults' > 0
    BY <1>2, <2>1 DEF Promise!Next, Promise!Disturb, ClientPhases
  <2>2. CASE ~(faults' > 0)
    <3>1. (faults' > 0) = (faults > 0)
      BY <2>2, FaultsKept
    <3> QED BY <1>2, <3>1 DEF Promise!lockVars, ClientPhases
  <2> QED BY <2>1, <2>2
<1>3. ASSUME NEW c \in Clients, (Step(c) \/ Fails(c)) /\ ~Lapse(c) PROVE Goal
  <2>0. Others(c)
    BY <1>3, Moves
  <2>1. ASSUME NEW p, PhaseOf(req'[c]) = p PROVE Promise!Enter(c, p)
    BY <2>0, <2>1, PhaseMoves
  <2>2. ClientPhases[c] = PhaseOf(req[c])
    BY PhaseOfRequest DEF ClientPhases
  <2>3. PhaseOf(req'[c]) = PhaseOf(req[c]) => ClientPhases' = ClientPhases
    BY <2>0, PhasesStay DEF Others
  <2>4. CASE lock' = lock /\ PhaseOf(req'[c]) = PhaseOf(req[c])
    BY <1>2, <2>3, <2>4
  <2>5. CASE /\ PhaseOf(req[c]) = "out" /\ PhaseOf(req'[c]) = "in"
             /\ lock = "free" /\ lock' = c
    <3>1. Promise!Take(c)
      BY <1>1, <2>1, <2>2, <2>5 DEF Promise!Take, ClientPhases
    <3> QED BY <3>1 DEF Promise!Next
  <2>6. CASE /\ PhaseOf(req'[c]) = PhaseOf(req[c])
             /\ lock = "free" /\ lock' = "orphan" /\ faults' > 0
    <3>1. Promise!Lose
      BY <2>3, <2>6 DEF Promise!Lose, ClientPhases
    <3> QED BY <3>1 DEF Promise!Next
  <2>7. CASE PhaseOf(req[c]) = "in" /\ PhaseOf(req'[c]) = "leaving" /\ lock' = lock
    <3>1. Promise!Leave(c)
      BY <1>1, <2>1, <2>2, <2>7 DEF Promise!Leave, ClientPhases
    <3> QED BY <3>1 DEF Promise!Next
  <2>8. CASE /\ PhaseOf(req[c]) = "leaving" /\ PhaseOf(req'[c]) = "out"
             /\ lock' = IF lock = c THEN "free" ELSE lock
    <3>1. Promise!Return(c)
      BY <1>1, <2>1, <2>2, <2>8 DEF Promise!Return, ClientPhases
    <3> QED BY <3>1 DEF Promise!Next
  <2>9. CASE /\ PhaseOf(req[c]) = "leaving" /\ PhaseOf(req'[c]) = "out"
             /\ faults' > 0 /\ lock' = IF lock = c THEN "orphan" ELSE lock
    <3>1. Promise!Abandon(c)
      BY <2>1, <2>2, <2>9 DEF Promise!Abandon, ClientPhases
    <3> QED BY <3>1 DEF Promise!Next
  <2> HIDE DEF Goal
  <2> QED BY <1>3, <2>4, <2>5, <2>6, <2>7, <2>8, <2>9, StepLock
<1>4. ASSUME NEW c \in Clients, Lapse(c) PROVE Goal
  <2>1. ClientPhases' = ClientPhases /\ lock = c /\ lock' = "free" /\ faults' > 0
    BY <1>4, FaultsKept, PhasesStay DEF Lapse
  <2>2. Promise!Lapse(c)
    BY <1>1, <2>1 DEF Promise!Lapse, ClientPhases
  <2> QED BY <2>2 DEF Promise!Next
<1>5. ASSUME NEW c \in Clients, QueryShopById(c) \/ \E v \in Versions : PutShop(c, v) PROVE Goal
  <2>1. /\ Others(c) /\ req[c].at = "idle" /\ lock' = lock
        /\ req'[c].at = "get" \/ (req'[c].at = "query" /\ req'[c].kind = "update")
    BY <1>0, <1>5 DEF QueryShopById, PutShop, Others, At
  <2>2. PhaseOf(req'[c]) = PhaseOf(req[c])
    BY <2>1 DEF PhaseOf
  <2> QED BY <1>2, <2>1, <2>2, PhasesStay DEF Others
<1>6. ASSUME \/ \E v \in Versions : SaveShop(v) \/ UpdateShop(v)
             \/ Expire \/ UNCHANGED vars
      PROVE  Goal
  <2>1. lock' = lock /\ req' = req
    BY <1>6 DEF SaveShop, UpdateShop, Expire, vars, shopVars
  <2> QED BY <1>2, <2>1, PhasesStay
<1>7. ASSUME ExpireOrphan PROVE Goal
  <2>1. ClientPhases' = ClientPhases /\ lock = "orphan" /\ lock' = "free"
    BY <1>7, PhasesStay DEF ExpireOrphan
  <2>2. Promise!Expire
    BY <1>1, <2>1 DEF Promise!Expire, ClientPhases
  <2> QED BY <2>2 DEF Promise!Next
<1>8. ASSUME Crash PROVE Goal
  <2>1. \A d \in Clients : LockPhase(d)' = "out"
    BY <1>8, PhaseOfRequest, IdleType DEF Crash, PhaseOf
  <2>2. ClientPhases' = [d \in Clients |-> "out"]
    BY <2>1, Zenon DEF ClientPhases
  <2>3. lock' = IF lock = "free" THEN "free" ELSE "orphan"
    BY <1>8 DEF Crash
  <2>4. Promise!Restart
    BY <1>1, <2>2, <2>3 DEF Promise!Restart, ClientPhases
  <2> QED BY <2>4 DEF Promise!Next
<1> HIDE DEF Goal
<1>9. Goal
  BY <1>3, <1>4, <1>5, <1>6, <1>7, <1>8 DEF Next
<1> QED BY <1>9 DEF Goal

(***************************************************************************)
(* Who has got the lock keeps it until it gives it back, whichever way its *)
(* read ends, and gives back nobody else's.                                *)
(***************************************************************************)
THEOREM LockRefinement == Spec => PromiseKept
<1>1. TypeInv => TypeOK
  BY DEF TypeInv
<1> QED BY <1>1, InitInv, NextInv, InitLockers, NextLockers, InitPromise, NextPromise, PTL
        DEF Spec, PromiseKept, Promise!Spec

=============================================================================
