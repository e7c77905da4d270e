----------------------------- MODULE ShopCache ------------------------------
(***************************************************************************)
(* ShopService.go for one shop id: its row in MySQL, its entry             *)
(* cache:shop:<id> in Redis, the reads that fill the entry (kinds "cache", *)
(* "null" and "mutex", after QueryShopByIdWithCache, ...WithCacheNull and  *)
(* ...PassThrough; the handler calls the second), the update that deletes  *)
(* it, and SaveShop and UpdateShop, which know nothing of it.              *)
(*                                                                         *)
(* A step is one call of a request.  What the shop looks like is a version *)
(* of it; answers are left out, a request that has answered is idle.       *)
(***************************************************************************)
EXTENDS Calls, FiniteSets

CONSTANTS
  Versions,    \* contents a shop can have, each submitted by one request
  LockWired    \* distLock has a Redis client

Special == {"none", "null", "blank", "empty", "absent"}

ASSUME VersionsAssumption == Versions \cap Special = {}
ASSUME LockAssumption == Clients \cap {"free", "orphan"} = {}
ASSUME WiredAssumption == LockWired \in BOOLEAN

VARIABLES
  row,      \* the committed row: a version, "null" (a row whose columns are
            \* NULL) or "none"
  cache,    \* a version, "empty" (the string ""), "blank" (a shop without
            \* contents) or "absent"
  lock,     \* shop:lock:<id>: a client, "free", or "orphan" until its TTL ends
  req,      \* per client: the call it makes next, its kind, its local shop
  origin,   \* who submitted a version
  lapsed    \* clients whose lock key expired under them

shopVars == <<row, cache, lock, req, origin, lapsed>>
vars     == <<shopVars, callVars>>

ReadKinds == {"cache", "null", "mutex"}
Places    == {"idle", "get", "lock", "query", "fill", "unlock", "save", "del", "commit"}
Shop      == Versions \cup {"none", "blank"}

Idle == [at |-> "idle", kind |-> "none", shop |-> "none"]

\* Mutant: a shop that was not found is stored like any other.
EntryVerbatim(s) == s

\* What is stored for a shop: the string "" for one that was not found.
Entry(s) == IF s = "none" THEN "empty" ELSE s

Init ==
  /\ row \in {"none", "null"}
  /\ cache    = "absent"
  /\ lock     = "free"
  /\ req      = [c \in Clients |-> Idle]
  /\ origin   = [v \in Versions |-> "nobody"]
  /\ lapsed   = {}
  /\ CallsInit

At(c, place) == req[c].at = place

Goto(c, place) == req' = [req EXCEPT ![c] = IF place = "idle" THEN Idle ELSE [@ EXCEPT !.at = place]]

\* A transaction holds the row's lock from its UPDATE to its COMMIT.
RowLocked == \E c \in Clients : req[c].at \in {"del", "commit"}

-----------------------------------------------------------------------------
(***************************************************************************)
(* Requests arrive.                                                        *)
(***************************************************************************)
Submit(v, by) == origin[v] = "nobody" /\ origin' = [origin EXCEPT ![v] = by]

\* GET /shop/:id, with any of the service's reads behind it.
QueryShopById(c) ==
  /\ Arrive
  /\ At(c, "idle")
  /\ \E k \in ReadKinds : req' = [req EXCEPT ![c] = [at |-> "get", kind |-> k, shop |-> "blank"]]
  /\ UNCHANGED <<row, cache, lock, origin, lapsed>>

\* PUT /shop with version v in its body.
PutShop(c, v) ==
  /\ Arrive
  /\ At(c, "idle")
  /\ Submit(v, "put")
  /\ req' = [req EXCEPT ![c] = [at |-> "query", kind |-> "update", shop |-> v]]
  /\ UNCHANGED <<row, cache, lock, lapsed>>

\* POST /shop: the INSERT gives the shop its id.
SaveShop(v) ==
  /\ Arrive
  /\ row = "none"
  /\ Submit(v, "save")
  /\ row' = v
  /\ UNCHANGED <<cache, lock, req, lapsed>>

\* The service's update that leaves the cache alone (no route calls it now).
UpdateShop(v) ==
  /\ Arrive
  /\ ~RowLocked
  /\ Submit(v, "save")
  /\ row' = v
  /\ UNCHANGED <<cache, lock, req, lapsed>>

-----------------------------------------------------------------------------
(***************************************************************************)
(* The reads.                                                              *)
(***************************************************************************)
KeepsShop == UNCHANGED <<row, origin>>

Get(c) ==
  /\ At(c, "get")
  /\ Goto(c, CASE cache # "absent"         -> "idle"
               [] req[c].kind = "mutex"    -> "lock"
               [] OTHER                    -> "query")
  /\ KeepsShop /\ UNCHANGED <<cache, lock, lapsed>> /\ NoFault

GetError(c) ==
  /\ At(c, "get")
  /\ Goto(c, "idle")
  /\ KeepsShop /\ UNCHANGED <<cache, lock, lapsed>> /\ Fault

\* Mutant: the lock is not asked for.
LockSkipped(c) ==
  /\ At(c, "lock")
  /\ Goto(c, "query")
  /\ KeepsShop /\ UNCHANGED <<cache, lock, lapsed>> /\ NoFault

\* A client that does not get the lock sleeps and reads again.  distLock is
\* made by init(), before config.Init() makes the Redis client: SETNX on it
\* panics and the request ends.
Lock(c) ==
  /\ At(c, "lock")
  /\ IF LockWired /\ lock = "free"
       THEN lock' = c /\ Goto(c, "query")
       ELSE UNCHANGED lock /\ Goto(c, IF LockWired THEN "get" ELSE "idle")
  /\ KeepsShop /\ UNCHANGED <<cache, lapsed>> /\ NoFault

\* A SETNX whose reply is lost may have taken the key; sent again by the
\* client, it then answers that the lock is taken.
LockError(c) ==
  /\ At(c, "lock") /\ LockWired
  /\ lock' \in {lock, IF lock = "free" THEN "orphan" ELSE lock}
  /\ Goto(c, "idle") \/ (lock' # "free" /\ Goto(c, "get"))
  /\ KeepsShop /\ UNCHANGED <<cache, lapsed>> /\ Fault

\* What a SELECT leaves in the local shop, a submitted one included: gorm
\* skips a column that is NULL, the field keeps what it held.
Scanned(c) == IF row = "null" THEN req[c].shop ELSE row

Query(c) ==
  /\ At(c, "query")
  /\ IF row = "none" /\ req[c].kind \in {"cache", "update"}
       THEN Goto(c, "idle")
       ELSE req' = [req EXCEPT ![c].shop = Scanned(c),
                               ![c].at = IF req[c].kind = "update" THEN "save" ELSE "fill"]
  /\ KeepsShop /\ UNCHANGED <<cache, lock, lapsed>> /\ NoFault

\* An error that is not ErrRecordNotFound: QueryShopByIdWithCacheNull goes on
\* with a shop that has nothing but its id.
QueryError(c) ==
  /\ At(c, "query")
  /\ Goto(c, CASE req[c].kind = "null"  -> "fill"
               [] req[c].kind = "mutex" -> "unlock"
               [] OTHER                 -> "idle")
  /\ KeepsShop /\ UNCHANGED <<cache, lock, lapsed>> /\ Fault

AfterFill(c) == Goto(c, IF req[c].kind = "mutex" THEN "unlock" ELSE "idle")

\* Mutant: an empty shop returns before the deferred unlock is registered.
FillLeavesEarly(c) ==
  /\ At(c, "fill")
  /\ cache' = Entry(req[c].shop)
  /\ IF req[c].shop = "none" THEN Goto(c, "idle") ELSE AfterFill(c)
  /\ KeepsShop /\ UNCHANGED <<lock, lapsed>> /\ NoFault

Fill(c) ==
  /\ At(c, "fill")
  /\ cache' = Entry(req[c].shop)
  /\ AfterFill(c)
  /\ KeepsShop /\ UNCHANGED <<lock, lapsed>> /\ NoFault

FillError(c) ==
  /\ At(c, "fill")
  /\ cache' \in {cache, Entry(req[c].shop)}
  /\ AfterFill(c)
  /\ KeepsShop /\ UNCHANGED <<lock, lapsed>> /\ Fault

Release(c, word) == lock' = IF lock = c THEN word ELSE lock

Unlock(c) ==
  /\ At(c, "unlock")
  /\ Release(c, "free")
  /\ Goto(c, "idle")
  /\ lapsed' = lapsed \ {c}
  /\ KeepsShop /\ UNCHANGED cache /\ NoFault

\* The watchdog has been stopped before the call: the key runs out.
UnlockError(c) ==
  /\ At(c, "unlock")
  /\ \E word \in {"free", "orphan"} : Release(c, word)
  /\ Goto(c, "idle")
  /\ lapsed' = lapsed \ {c}
  /\ KeepsShop /\ UNCHANGED cache /\ Fault

-----------------------------------------------------------------------------
(***************************************************************************)
(* UpdateShopWithCacheCallBack after its SELECT: UPDATE, DEL, COMMIT.      *)
(***************************************************************************)
KeepsLock == UNCHANGED <<lock, lapsed, origin>>

Save(c) ==
  /\ At(c, "save")
  /\ ~RowLocked
  /\ Goto(c, "del")
  /\ KeepsLock /\ UNCHANGED <<row, cache>> /\ NoFault

Del(c) ==
  /\ At(c, "del")
  /\ cache' = "absent"
  /\ Goto(c, "commit")
  /\ KeepsLock /\ UNCHANGED row /\ NoFault

Commit(c) ==
  /\ At(c, "commit")
  /\ row' = req[c].shop
  /\ Goto(c, "idle")
  /\ KeepsLock /\ UNCHANGED cache /\ NoFault

\* A failed call rolls the transaction back; a COMMIT may have succeeded.
UpdateError(c) ==
  /\ req[c].at \in {"save", "del", "commit"}
  /\ cache' \in {cache, IF At(c, "del") THEN "absent" ELSE cache}
  /\ row' \in {row, IF At(c, "commit") THEN req[c].shop ELSE row}
  /\ Goto(c, "idle")
  /\ KeepsLock /\ Fault

-----------------------------------------------------------------------------
(***************************************************************************)
(* TTLs, a watchdog that gave up, a restart.                               *)
(***************************************************************************)
\* Mutant: the empty string is stored without a TTL.
ExpireButEmpty ==
  /\ cache \notin {"absent", "empty"}
  /\ cache' = "absent"
  /\ UNCHANGED <<row, lock, req, origin, lapsed>> /\ NoFault

\* Every SET of the reads has a TTL of a minute.
Expire ==
  /\ cache # "absent"
  /\ cache' = "absent"
  /\ UNCHANGED <<row, lock, req, origin, lapsed>> /\ NoFault

ExpireOrphan ==
  /\ lock = "orphan"
  /\ lock' = "free"
  /\ UNCHANGED <<row, cache, req, origin, lapsed>> /\ NoFault

Lapse(c) ==
  /\ lock = c
  /\ lock' = "free"
  /\ lapsed' = lapsed \cup {c}
  /\ UNCHANGED <<row, cache, req, origin>> /\ Fault

Crash ==
  /\ Restart
  /\ req' = [c \in Clients |-> Idle]
  /\ lock' = IF lock = "free" THEN lock ELSE "orphan"
  /\ lapsed' = {}
  /\ UNCHANGED <<row, cache, origin>>

-----------------------------------------------------------------------------
\* What a request does once it has arrived, its failures apart.
Step(c) ==
  \/ Get(c) \/ Lock(c) \/ Query(c) \/ Fill(c) \/ Unlock(c)
  \/ Save(c) \/ Del(c) \/ Commit(c)

Fails(c) ==
  \/ GetError(c) \/ LockError(c) \/ QueryError(c) \/ FillError(c) \/ UnlockError(c)
  \/ UpdateError(c) \/ Lapse(c)

Next ==
  \/ \E c \in Clients : QueryShopById(c) \/ Step(c) \/ Fails(c)
  \/ \E c \in Clients, v \in Versions : PutShop(c, v)
  \/ \E v \in Versions : SaveShop(v) \/ UpdateShop(v)
  \/ Expire \/ ExpireOrphan \/ Crash

\* A goroutine that serves a request is scheduled; TTLs end.
Fairness ==
  /\ \A c \in Clients : WF_vars(Step(c))
  /\ WF_vars(Expire)
  /\ WF_vars(ExpireOrphan)

Spec     == Init /\ [][Next]_vars
FairSpec == Spec /\ Fairness

-----------------------------------------------------------------------------
TypeOK ==
  /\ row \in Versions \cup {"none", "null"}
  /\ cache \in Versions \cup {"empty", "blank", "absent"}
  /\ lock \in Clients \cup {"free", "orphan"}
  /\ req \in [Clients -> [at: Places, kind: ReadKinds \cup {"update", "none"}, shop: Shop]]
  /\ origin \in [Versions -> {"nobody", "put", "save"}]
  /\ lapsed \subseteq Clients
  /\ CallsTypeOK

(***************************************************************************)
(* handler/shop.go:66 "update the shop info": an update through PUT /shop  *)
(* that commits leaves what a PUT submitted in the row.  The code does     *)
(* not: it first reads the row into the submitted shop.                    *)
(***************************************************************************)
PutIsStored ==
  [][\A c \in Clients : Commit(c) => row' \in Versions /\ origin[row'] = "put"]_vars

(***************************************************************************)
(* What the code does instead: unless the columns were NULL, what PUT      *)
(* submits never reaches MySQL or the cache (ShopService.go:110), whatever *)
(* else happens in between.                                                *)
(***************************************************************************)
PutChangesNothing ==
  \A v \in Versions : origin[v] = "put" => v # row /\ v # cache

(***************************************************************************)
(* QueryShopByIdPassThrough: at most one request rebuilds the entry, the   *)
(* others wait, unless a key expired under its holder.  MySQL is spared    *)
(* when a hot entry goes away.                                             *)
(***************************************************************************)
Rebuilding(c) == req[c].kind = "mutex" /\ req[c].at \in {"query", "fill"}

OneRebuild ==
  \A c, d \in Clients :
    Rebuilding(c) /\ Rebuilding(d) /\ c # d => c \in lapsed \/ d \in lapsed

(***************************************************************************)
(* The reads use their lock as TokenLock has it: who has got it gives it   *)
(* back on every path, and only then.                                      *)
(***************************************************************************)
LockPhase(c) ==
  CASE Rebuilding(c)   -> "in"
    [] At(c, "unlock") -> "leaving"
    [] OTHER           -> "out"

Promise == INSTANCE TokenLock WITH
             Parties <- Clients,
             word    <- lock,
             phase   <- [c \in Clients |-> LockPhase(c)],
             faulty  <- faults > 0

PromiseKept == Promise!Spec

(***************************************************************************)
(* However reads, writes and failures interleave, the entry ends up        *)
(* agreeing with the row or absent once no more requests arrive: what a    *)
(* reader put back between DEL and COMMIT, the empty string cached before  *)
(* SaveShop, and the blank shop cached on an error all go away.            *)
(***************************************************************************)
Contents == IF row = "null" THEN "blank" ELSE row

CacheCatchesUp == <>[](cache \in {"absent", Entry(Contents)})

\* Every request is answered: no wait for the row or for the lock is endless.
RequestsEnd == \A c \in Clients : ~At(c, "idle") ~> At(c, "idle")

=============================================================================
