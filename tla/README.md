# A TLA+ development of hmdp-Go

hmdp-Go is the Go backend of a shop-review site (gin, gorm v1 on MySQL, go-redis
v9): shops behind a Redis cache, blogs with likes and a feed, follows, SMS-code
logins with JWTs, and a flash sale of vouchers that reserves in Redis and orders
asynchronously in MySQL. Paths below are relative to the repository's root; the
Go code is in `src/`.

The development models every part of the backend that keeps state in Redis or
MySQL: the flash sale with its lock and the publishing of a voucher, the shop
caches, follows, feed and likes, logins, tokens, sign-ins and ids. TLC checks them on
small instances; TLAPS proves safety properties for every instance (section 4).
Section 6 says what is left.

## 1. Inventory

| Component | State | Operations | Hard behaviour | Correct when |
|---|---|---|---|---|
| Order pipeline (`service/VoucherOrderService.go`, `script/voucher_script.lua`, `model/VoucherOrder.go`, `model/SeckillVoucher.go`) | Redis: stock key, buyer set, stream with one consumer group and its pending list, retry counts, dead-letter stream, lock per user. MySQL: stock, orders | request → script; `SyncHandlerStream` (new messages); `handlePendingList` (unacknowledged ones); `createVoucherOrder` | two goroutines are ONE consumer and meet on the same message; failed calls, lost replies, restarts; retries | one order per user and voucher; stock and orders agree; nothing is acknowledged and forgotten; everything is acknowledged in the end |
| Distributed lock (`utils/distributed_lock.go`) | key with TTL, map of cancel functions, a goroutine per holder | lock, unlock, renew | time, TTL, late unlocks, failed renewals | it excludes; only the holder releases; nothing stays locked |
| Voucher publishing (`service/VoucherService.go`, `model/Voucher.go`) | MySQL rows, stock key, the goroutine and its attempt | add, publish, retry | the reply comes before the publishing; SETs that fail and are executed all the same | what Redis sells is what MySQL has |
| Shop cache (`service/ShopService.go`) | MySQL row, cache entry (value, empty, absent), logical expiry, queue of ten rebuilds | four kinds of read, update, rebuild goroutine | check-then-act over two stores | stale only for a bounded time; one rebuild at a time |
| Shop types (`service/ShopTypeService.go`) | MySQL rows, string or list cache | two kinds of read | several RPUSHes per fill, RPUSHes executed twice or late | types stay in step |
| Blogs, likes, feed (`service/BlogService.go`) | `liked` counter, ZSET of likers, ZSET per feed | like toggle, save and push, scroll | check-then-act; partial pushes; equal scores; seconds read long before they land | counter = likers; a scroll shows no blog twice |
| Follows (`service/FollowService.go`) | MySQL rows, Redis set | follow, unfollow, is-follow, commons | two stores, two orders | set = table |
| Users (`service/UserService.go`) | code per phone, users, sign bitmap | code, login, sign, count | concurrent first logins | one user per phone |
| Tokens (`middleware/jwt.go`) | none on the server | parse, refresh | expiry, slow requests, lost answers | who uses the site stays logged in |
| Ids (`utils/RedisWorker.go`) | counter per day | `NextId` | second and counter read apart, change of day | distinct |
| Bloom filter (`utils/BloomFilter.go`) | bits | add, contains | index arithmetic; bytes read and written apart, without a lock | no false negative, unless Adds of a key overlapped |
| Visitor statistics, uploads, router, DTOs, configuration, comments | none of their own | | | |

How they interact: handlers call services in one goroutine per request; services
share Redis and MySQL and nothing else, except `ShopService`'s one
`DistributedLock` object and its channel of rebuilds. `main` starts the two stream
goroutines. The script and the stream connect requests with the pipeline;
`AddSeckillVoucher`'s goroutine writes the key the script reads.

## 2. Modules

| Module | Role |
|---|---|
| `SeckillSale` | abstract specification of the sale: purchases are reserved, fulfilled, abandoned, settled |
| `TokenLock` | abstract specification of a lock made of a token in Redis: who got it keeps it until it gives it back, unless something failed or was late |
| `VoucherOrder` | the order pipeline; `SaleSpec` maps it to `SeckillSale`, `LocksKeepPromise` each user's lock to `TokenLock` |
| `DistributedLock` | the lock with its watchdogs and time; `PromiseKept` maps it to `TokenLock` |
| `VoucherPublish` | adding and publishing a voucher, with requests arriving meanwhile |
| `Calls`, `Clock` | what services share: requests, calls that fail, restarts; the time |
| `ShopCache` | one shop: row, cache entry, the three cache-aside reads, insert and updates |
| `HotShop`, `ShopTypes`, `BloomFilter`, composed by `Catalogue` | shops with logical expiry and the queue of rebuilds; the list of types; the filter |
| `Follows`, `Feed`, `Likes`, composed by `Social` | follow table and sets; pushes to followers and the scroll; likes |
| `Session`, `OrderIds`, composed by `Accounts` | codes, logins, tokens, sign-ins; ids |
| `MC...` | instances for TLC, one `.cfg` per run |
| `..._proofs` | theorems about `VoucherOrder`, `DistributedLock`, `VoucherPublish`, `ShopCache`, `Catalogue`, `Social`, `Accounts` |
| `Counting` | lemmas the proofs share: the least element of a set of numbers, sets that differ in one element |

### VoucherOrder

One action is one Redis command or one MySQL transaction, because those are the
points where the goroutines, customers, TTLs and a restart interleave. A message is
its position in the stream, which stands for the stream id and for its order id
(one message, one id). `pc`, `batch`, `ok`, `cnt` are the local state of the two
goroutines: the call a goroutine makes next, the messages of its last read it has
not finished, whether `processVoucherMessage` returned nil, `retryCount`. `pel`
is the pending list; `handlePendingList` reads it as the same consumer, so a message
SyncHandlerStream works on is in both batches. A batch keeps messages that the
other goroutine acknowledges meanwhile, as the code's slice does.

| Code | Actions |
|---|---|
| `SeckillVoucher`, the script | `SeckillVoucher` |
| `SyncHandlerStream` | `ReadNew`, `ReadNewLost`, `Lock` … `Unlock`, `SyncSettle`, `SyncAckError` |
| `handlePendingList` | `ReadPending`, `GetRetryCount`, `Lock` … `Unlock`, `PendingSettle`, `DeadLetter`, `DeadAck`, `ClearRetryCount`, and the error of each |
| `processVoucherMessage`, `createVoucherOrder` | `Lock`, `LockError`, `Check`, `CheckError`, `CreateOrder`, `CreateOrderError`, `CommitReplyLost`, `Unlock`, `UnlockError` |
| lock TTL, watchdog that gave up | `Expire`, `Lapse` |
| process death and start | `Crash` |

The lock is `DistributedLock` reduced to its word: both implement `TokenLock` (section 4). Each `processVoucherMessage` makes
a lock object of its own (line 248), so the shared map of section 5 plays no part
here; what remains of the lock's hazards is `Lapse`: the key expires under its
holder, one fault.

What is assumed of things outside the repository:

* MySQL: the UPDATE holds the voucher's row until COMMIT, so UPDATE, INSERT and
  COMMIT of two transactions do not interleave; `tb_voucher_order`'s primary key is
  the order id; the table takes the zero times of an unpaid order (its SQL mode).
* mapstructure 1.5.0 `Decode`, without weak typing, refuses a string for an int64
  field; every value of a stream entry is a string. go-redis 9.10 cannot marshal a
  map as a field of XADD. So in the pinned build every message fails and no dead
  letter is stored. The constants `Decodes` and `DeadLetterStores` say which build is
  meant: `FALSE` in the run `orders_as_built`, `TRUE` in the others, which show what the
  code's own control does once both calls work. The proofs hold for either. At this commit the code after
  line 243 is therefore not reached; what the runs with `TRUE` say, they say of a build whose `Decode` works.
* gc reads `result` in `return result, result.Query…(id)` (`SeckillService.go:12`) after
  the call.

Left out: refused requests (they change nothing), the 24 hour TTL of a retry count
(it makes a retry start over), consumer names other than c1.

### DistributedLock

Calls of `LockWithWatchDog` and `UnlockWithWatchDog` for one key through ONE object,
as `ShopService` uses it. A call stands for its token. `entry` is `watchDogs[key]`,
`cancelled` the contexts that are done, `dog` and `timer` the goroutines and their
tickers. `Tick` is time: it moves tickers and the TTL together. `late` remembers that
time passed while a goroutine had something to do, which no lock with a TTL survives;
`MutualExclusion` is claimed without it and without failed calls. The lock map's mutex
makes a critical section one action. A SETNX, a delete or a renewal whose reply is lost may have been executed;
a renewal that was, prolongs the key and ends its watchdog all the same. (`ShopService`'s `init` builds its lock before the Redis
client exists, line 33, and no route reaches the two reads that use it; the module
models the lock as they use it.)

### VoucherPublish

One voucher: `AddSeckillVoucher`'s transaction is one action (nothing is visible before
its commit); then the goroutine's first SET and `retryUpdateRedis`. A SET that fails may
be executed later (`inFlight`, `Land`) or never (`Lost`). A request is two steps:
`CheckDates` (MySQL) and `RunScript` (Redis), with anything in between. `PlaceOrder`
is what the pipeline does with a reservation.

### What the later modules share

`Calls` counts requests, failed calls and restarts, each with a bound. An action that
starts a request is an `Arrive`, one whose call fails a `Fault`, and every other step of
a request conjoins `NoFault`. A failed call to Redis or MySQL may have been executed: the
error action of a call then offers the state with and without its effect. The Redis client keeps go-redis's
retries (`config/redis/init.go` sets no `MaxRetries`), so a command whose reply is lost may be executed twice while its
request goes on, and a command that was given up may be executed later than its successors. Both are modelled where they
change what a later step finds: the RPUSHes of `ShopTypes`, the ZADDs of `Feed`, the SETs of `HotShop` and `VoucherPublish`, the INCR of `OrderIds`
(twice; late it only takes a number), the SETNX of every lock (sent again, it finds the lock taken). Repeating a DEL, a delete script, an XACK, or SADD, SREM and ZREM of one
member changes nothing. That one of these, or the SET of a retry count, a code or `ShopCache`'s entry, lands after later commands of other requests is
left out: `Follows`, `Likes`, `Session` and `ShopCache` execute a failed call when it fails or never. A request is a
record in a variable per client: `at` is the call it makes next, the rest its local
variables; a request that has answered is idle again. What the answer contains is left
out unless a property reads it. The modules that one process composes (`Catalogue`,
`Social`, `Accounts`) share these counters and the clock, a restart hits all of them at
once. In `Accounts` a client may have one request in each module; in `Catalogue` and `Social` it has one
request at a time (`OneRequest`), as a goroutine has, so what overlaps is requests of different clients. `Feed` reads `Follows`' rows: there the
components really interact.

### ShopCache

| Code (`ShopService.go`) | Actions |
|---|---|
| `QueryShopByIdWithCache` (kind "cache"), `...WithCacheNull` ("null", the one the route calls), `...PassThrough` ("mutex") | `QueryShopById`, `Get`, `Lock`, `Query`, `Fill`, `Unlock`, and the error of each |
| `UpdateShopWithCache` | `PutShop`, `Query`, `Save`, `Del`, `Commit`, `UpdateError` |
| `SaveShop`, `UpdateShop` | `SaveShop`, `UpdateShop`: one statement each |
| TTLs, a watchdog that gave up, process death | `Expire`, `ExpireOrphan`, `Lapse`, `Crash` |

A shop's contents are one of `Versions`, each submitted once, so that `origin` says who
submitted what a row or an entry holds. A transaction's UPDATE holds the row until its
COMMIT (`RowLocked`). A SELECT scans into the shop it is given and skips columns that are NULL, as gorm v1 does: the
row `"null"`, which may be there from the start, leaves a submitted shop as it was (`Scanned`). `LockWired` says whether `distLock` has its Redis client: in the build
`init` makes the lock (line 33) before `config.Init` makes the client, and the first SETNX would
panic; no route reaches it. The run takes `TRUE`, which shows what the code's own control does.

### HotShop, ShopTypes, BloomFilter

`HotShop` is `QueryShopByIdWithLogicExpire` (`HotRead` … `HotUnlock`), the channel
`redisDataQueue` (`queue`, with Go's blocking send) and `SyncUpdateCache` (`Receive`, `QueryHot`,
`SetHot`, `WorkerError`). A row is the number of its last change, so "older" has a meaning.
`late` holds SETs that Redis executes after their client gave up. Both kinds of shop entry use the
key `cache:shop:<id>`; an id is assumed to be read in one way (the code has one route). `ShopTypes` is the list
cache of `GET /shop-type/list`, one RPUSH per type. An RPUSH without a reply is in `strays`: Redis may execute it at any later
time (`LandPush`) or never; the client sends it again (`RPushResent`) or the request ends (`ListError`). `lost` counts them.
`BloomFilter` has the byte and bit arithmetic of `Add` and `Contains` over arbitrary hash functions. `bits[byteIndex] |= ...` (line 88)
is two accesses, `Add` or `LoadByte` and `StoreByte`, between which other goroutines store theirs; `alone` remembers
the Adds that no other has overlapped, `added` the keys they added.

### Follows, Feed, Likes

`Follows` has one author and several users. The repository holds no schema, so `tb_follow` is
not assumed to be unique: `followRows` counts. `alone` and `drifted` remember which users' last change
overlapped another or failed; `FollowsAgree` is about all others. `Feed`: `SaveBlog`, `GetFollows`,
one push per ROW (in any order, as the table returns them in an order of its own), and one reader
who scrolls. A push is two steps: `Stamp` reads the second (line 51), `ZAddFeed` executes the ZADD, with any number of ticks
and pages in between; a ZADD without a reply is in `lateAdds` and may land later (`LandFeed`), whether the client sent it again or
`SaveBlog`, which ignores the error, went on. `Page` is `QueryBlogOfFollow`; `PagesWork` says whether a page can be answered at all: as
built, `value.Member.(int64)` (line 212) panics on the strings go-redis returns and gorm v1 renders
`id IN ?` without parentheses (`Blog.go:80`), so every page that is not empty fails. The run takes `TRUE`. `Likes` is
the toggle on one blog: ZSCORE, UPDATE (whose error is dropped), ZADD or ZREM.

### Session, OrderIds

A client is a device with one token. Codes are right (a wrong one ends the request like a
missing one). `Request` is `GlobalTokenMiddleware` up to the handler: an expired token has no
claims (`ParseToken` returns nil, so the refresh "within the buffer" of lines 128-131 is
dead code) and `AuthRequired` refuses; `Refresh` replaces a token that expires within
`TokenRefreshBuffer`; `Answer` runs the handler and brings the new token to the device, `AnswerError` may
lose it. Time may pass between any two of them. `seen` is when the device made the last request
it had an answer to. Days are `now \div DayLength`, months have `MonthLength` days, so that a
run of signed days crosses the end of a month. `OrderIds` is `NextId`: the second is read in one step, the day's
counter is incremented in another, or, if the reply is lost, twice (`IncrResent`); `CountLimit` is 2^COUNT_BITS and no day reaches it
(`CountAssumption`), which makes `|` an addition.

## 3. Runs

| Run | Question | Bounds |
|---|---|---|
| `orders_safety` | are stock, orders, acknowledgements and locks consistent, and is the pipeline a sale and each lock a `TokenLock`? | 2 users, 2 vouchers (one sells out), 2 messages, 1 retry, 2 faults, 1 restart, new messages read one at a time and pending ones in pairs: 0.3 million states up to symmetry |
| `orders_liveness` | is every message acknowledged, every lock freed? | 1 user, 2 messages (contending for one lock), 2 retries, 1 fault, 1 restart |
| `orders_as_built` | violation: does a given-up message reach the dead-letter stream? | pinned libraries, no fault |
| `lock` | does the lock exclude, who takes the key, does it keep `TokenLock`'s promise, does everything end? | 3 calls, TTL 2 ticks, period 1, 1 failed call |
| `lock_watchdog` | violation: is a holder's watchdog left alone? | 2 calls, TTL 4, period 2, 1 failed call |
| `publish` | what can be accepted, sold, and is it published? | 3 users, stock 1, 3 retries, 3 faults, 1 restart |
| `publish_oversell` | violation: does an accepted customer find stock? | 2 users, 1 fault |
| `shop_cache` | do row and entry agree in the end, is one rebuild enough, is everybody answered? | 2 clients, 2 versions, 4 requests, 1 fault, 1 restart: 0.1 million states |
| `shop_put` | violation: is what PUT submits stored? | 2 clients, 2 versions, 2 requests, no fault |
| `catalogue` | can an entry go back, can a read block for good, what does the list of types hold, does the filter deny a key? | 2 clients, 2 hot shops, a queue of 1, 2 types, 2 keys of 2 bits in 2 bytes, 3 requests, 1 fault, 1 restart: 0.4 million states |
| `social` | do sets and tables agree, does a scroll repeat a blog? | 2 clients, 2 users, 3 blogs pushed before and 3 requests, pages of 2, 1 fault, 1 restart: 1.8 million states up to symmetry |
| `accounts` | one account per phone, who is logged out, what is a sign count, are ids distinct? | 2 devices, 2 phones, 3 requests, lifetime 3 and buffer 2 ticks, 5 instants over 2 months, 1 fault, 1 restart: 0.5 million states up to symmetry |

Why the bounds are enough for their question: two messages can be of
one user (one lock) or of one voucher (one stock), and be read one by one or as a batch,
and there are only two goroutines to handle them at a time; two faults meet on one message
(a failed attempt, then a lost acknowledgement), a restart can fall between any two
steps, and the theorems carry the safety properties to every bound. Three calls of the lock give a late unlocker, a holder
and a waiter. Three faults are as many as `retryUpdateRedis` survives. Two clients give every
race the services have, all of which are between two requests; a request that sets the
scene (an insert, a row that changes, an earlier like) and the race fit in three or four. A queue
of one is full as soon as one id is in it. Pages of two with three old blogs and one push have a second page,
seconds with one, two and three blogs, and a push behind, at and before the reader's position. A lifetime
of 3 with a buffer of 2 has tokens outside, inside and past the buffer.
All runs may stop (`CHECK_DEADLOCK FALSE`): customers need not come, and the bounds
end every behaviour; in the code the loops go on and find nothing.

### Properties

* `OneOrderPerUser`, `StockConserved`, `ReservedOrderFindsStock`, `NothingForgotten`,
  `MutualExclusion`: the pipeline's safety. They hold with duplicate processing, lost replies,
  lapsed locks and restarts.
* `SaleSpec`: the pipeline implements `SeckillSale`: nothing is settled that is neither
  fulfilled nor abandoned, and reservations never exceed the stock.
* `LocksKeepPromise`: every user's lock implements `TokenLock`, with the two goroutines as parties, whichever of the
  user's messages they handle: nobody enters a lock that is taken, nobody deletes another's token, a token under its
  holder goes away only after a fault, and what a restart leaves behind expires.
* `EveryMessageSettles`, `LocksAreFreed`: liveness.
* `MutualExclusion`, `TakenOnlyByOwner`, `NoStrayWatchDog`, `KeyIsFreed`, `WatchDogsEnd`: the lock. `PromiseKept`: it
  implements `TokenLock`; that a key does not expire under its holder while no call failed and nobody was late is what
  the watchdog is there for.
* `OversellBounded`, `DatabaseSellsStock`, `NotBeforeBegin`, `VoucherGoesOnSale`: publishing.
* `OneRebuild`, `CacheCatchesUp`, `RequestsEnd`: a shop and its entry. With an update that stores nothing the
  entry's minute is all that bounds how long an old or empty entry stays; `CacheCatchesUp` says that it does.
* `RebuildsInOrder`, `HotReadsAnswered`, `TypesInStep`, `NoFalseNegative`: hot shops, the list of types, the filter. That one goroutine rebuilds
  is what keeps entries from going back. Requests that race on the empty list repeat the types in step: no type falls behind one that
  sorts after it by more than the replies that were lost, no type is missing from a list nobody was cut short on, and without a lost reply all are there equally
  often. Adds that overlap lose each other's bits, never those of a key added alone.
* `FollowsAgree`, `LikesAgree`, `ScrollShowsOnce`: two stores that are written one after the other, and a cursor into
  a set that grows. Each names the cases in which it does not hold.
* `OneAccount`, `ActiveStaysLoggedIn`, `SignCountIsRun`, `IdsDistinct`: accounts.

### Fairness

`VoucherOrder`: weak fairness of each goroutine's loop (endless loops that `main`
starts; every call returns, with a result or an error) and of a TTL's end. Failures,
restarts and customers have none. `DistributedLock`: time passes, callers leave their
critical section and run the deferred unlock, watchdogs are scheduled. `VoucherPublish`:
the goroutine is scheduled; its step may be a failure as long as faults are left. `ShopCache`: the
goroutine of a request is scheduled, TTLs end. The wait for the lock is a poll (line 217), so weak fairness of a
client's steps and of the orphaned key's TTL is all that `RequestsEnd` needs, with finitely many requests.
`Catalogue`: the goroutines of reads and `SyncUpdateCache`, which `init` starts, are scheduled. No other module
claims liveness.

## 4. Proofs

All theorems are for every value of the constants under the modules' ASSUMEs (finite
sets of users, natural-number stocks and bounds, a watchdog period shorter than the TTL, a clock
that does not start at 0 for the feed, finitely many requests at a time for the list of types). They
cover every safety property of the passing runs.

* `VoucherOrder_proofs`. Most safety properties are not inductive alone: that MySQL's
  stock suffices needs that every message came with a unit of Redis's stock
  (`StockReserved`) and that messages are distinct purchases (`StreamDistinct`); that only
  ordered messages are acknowledged needs that a success about to be acknowledged is an
  order (`ResultIsOrder`) and a message at its last acknowledgement was given up
  (`DeadAckIsGivenUp`); exclusion needs that the lock word names the goroutine inside
  (`LockHeld`). `IndInv` is their conjunction: `Init` establishes it, each action keeps each
  conjunct (one lemma per conjunct, one step per action), and the theorems
  `TypeCorrect`, `OneOrderTheorem`, `StockTheorem`, `ReservedTheorem`, `NothingForgottenTheorem`,
  `ExclusionTheorem`, `ReleaseTheorem` follow. `OneOrderPerUser` follows from
  `StreamDistinct` alone: neither the lock nor `HasPurchasedVoucher` is needed for it, the
  script's `sismember` and the primary key are. `Refinement` proves `Spec => SaleSpec`:
  a step that appends a message is `Reserve`, one that adds an order is `Fulfil`, one
  that gives up is `Abandon`, an acknowledgement is `Settle`, or the step stutters. `LockRefinement` and
  `EachLockIsTokenLock`: see below.
* `DistributedLock_proofs`. A call inside is `Guarded`: the key and the map are its, and its
  watchdog is due before the key expires (`ttl >= timer + (Ttl - Half)`).
  `MapEntryInside`, `FreshCalls`, `KeyHasTtl` support it. `Exclusion`, `KeyTaken`,
  `StoppableWatchDogs`, `KeyProlonged` (only its holder's watchdog prolongs a key), `TypeCorrect`. `Refinement` proves
  `Spec => PromiseKept`: a `Tick` that ends the key of a call inside is `Lapse`, and by `Guarded` it has a fault or a late
  goroutine to blame. `PromiseExcludes` is about `TokenLock` alone, under this mapping: whoever knows nothing of tickers, TTLs
  and the map, and only that the promise is kept, has that while nothing is faulty who is in holds the token.
* `TokenLock`, four times. `DistributedLock` implements it (`PromiseKept`), and so do the locks as their users use them:
  each user's lock of the pipeline (`LocksKeepPromise` of `VoucherOrder`), the lock of a shop's rebuild (`PromiseKept` of
  `ShopCache`) and each hot shop's lock (`LocksKeepPromise` of `HotShop`). This ties the reduced locks of the users'
  modules to the detailed one: they take no step that the promise does not allow. Each proof has a lemma per kind of step
  (the phases change in one party at most, the word only by a step of `TokenLock`); the cases that need an invariant
  are a `Lapse`, which must have a fault to blame, and a step that gives the lock back, which must be its holder's or
  follow a fault. A lock per user or per shop is a specification of its own: in a step every other lock stutters.
* `VoucherPublish_proofs`. `Accounted` adds up what was accepted, what is on sale, what the
  first SET will put on sale and what SETs in flight may add again; each failed call
  raises its limit by one stock. `Oversell`, `Database`, `Begin`, `TypeCorrect`.

* `Accounts_proofs`. `ActiveSessions`: a token outlives the last answered request (`seen`) by the refresh buffer; this is
  inductive together with the same fact about the token a handler is about to bring (`TokensLast`), which is why the
  instant a request was made is kept apart from the instant it is answered. `NoIdTwice`: every id holds a count that its
  day's counter has passed (`IdsUsed`), and counts stay below `CountLimit` because an INCR is a request's only one or follows
  a fault (`CountsLeft`), so that second and count cannot run into each other (lemma `IdsDiffer`). `SignCount`: the loop of
  `GetSignCount` over the bits of BITFIELD's answer counts the run of signed days. Both the number and the loop are
  recursive functions. That such a function exists and obeys its equations is proved by building its graph up to the least
  argument at which it could fail (`FieldTableExists`, `OnesTableExists`); then bit after bit the number is read as the days
  (`FieldOfMonth`) and the loop as the run (`OnesAreRun`). `LeastElement` of `Counting` takes the place of induction. `OneAccountEach` needs that
  whoever is about to INSERT finds no row and is alone with its phone, or the phone is excepted (`InsertsAlone`).
* `ShopCache_proofs`. `PutsLost`: unless the row had NULL columns at the start, what no `SaveShop` or `UpdateShop` submitted is nowhere but in
  the body of a PUT that has not yet read the row over it (`PutInv`): `PutChangesNothing`. `RebuildsAlone`: who has passed the lock and not given it back holds the
  key or has lost it to the TTL (`LockInv`). `LockRefinement` needs besides that no two requests are in the same part
  of the lock (`LockersAreMutex`). `TypeCorrect`.
* `Social_proofs`. `LikesCounted` needs that a toggle that has read the score still finds it as it was (the
  flag `add` and membership disagree exactly until it writes), and that no two toggles are one user's. `FollowersKnown`:
  a request that has been alone has left set and rows as its next step expects (`AloneFits`). `ScrollsOnce`: the
  position alone is not enough; `ShownBefore` says that whatever was shown has a higher score than the position's
  or the same score and a rank below the offset. A full page restores it (lemma `NextPosition`) because, unless a second is
  crowded, nothing of the second of its last blog is above the page, and a push keeps it (`OtherSecond`) because its
  score is not the position's: later, it is above everything below; earlier, it ranks behind, unless it takes a blog that was shown along, which is
  an exception, too. That the score may be any second up to now (`Fits`, `LateFit`) is all that is known of it; ranks are injective (`RankFacts`), so a page is never longer than its size
  (`PageFacts`), and a page that is not empty has a last blog (`LastFacts`). `TypeCorrect`.
* `Catalogue_proofs`. `RowsMoveForward`: the worker's row is not older than the entry between its SELECT and its SET
  (`RowsFit`); a second worker would break that. `TypesRepeatEvenly`: the copies of a type, the RPUSHes of it that may yet land and the requests that have
  it still to push are together no more than the requests and the lost replies; two types' copies differ by the requests that are
  between them and the lost replies (`Few`, `Later`); and a request that pushes a type has pushed those before it (`Filled`, `Whole`). `TypeCorrect` includes that a position in the filter is in the array for any hash and any
  number of bits. `NothingAddedIsDenied`: a byte that is about to be written back was read after the keys added so far were in it (`Fresh`),
  because their Adds were alone; and while an Add is alone the bits it has set stay (`OwnBitsStay`). `LockRefinement`.

Two of the proved refinements, those of `ShopCache` and `HotShop`, and `PutsLost` are no property of a run: the instances
of `shop_cache` and `catalogue` satisfy the refinements, too, but the runs ask what those modules' own properties ask.

Only model-checked: the liveness properties, because fairness and ENABLED are beyond the prover.

## 5. What the code does not keep

* `orders_as_built` (`VoucherOrderService.go:229`). The comment at line 176 moves a message to the
  dead-letter queue; with the pinned libraries its XADD fails, the message is acknowledged,
  and the reservation is in no queue and no table.
* `lock_watchdog` (`utils/distributed_lock.go:60`). `doc/分布式锁/分布式锁.md:104` says the watchdog keeps the
  lock valid. One failed renewal ends it, and the late unlock of the call that lost its key
  cancels the watchdog of the next holder, because the map is keyed by the lock's key.
* `publish_oversell` (`VoucherService.go:76`). The design notes say (asynchronous processing, line
  13) that the script stops overselling at the entry; `retryUpdateRedis` writes the initial
  stock again after a SET that failed and is executed all the same, before the retry or (TLC's trace) after it, and customers are accepted
  whom MySQL has nothing for. `OversellBounded` says by how much.
* `shop_put` (`ShopService.go:110`). `handler/shop.go:66` says "update the shop info", line 107 of the service "best
  practice"; the update first reads the row into the submitted shop and saves that, so it commits, and what was
  submitted is stored nowhere but in columns that were NULL. `PutsLost` is the theorem.

Not reached at this commit, because every message fails to decode (line 243): where `Decode` works, handlePendingList counts a busy
lock as a failed attempt and does not pause (line 163), so it can give a message up while SyncHandlerStream is placing its order.
`NothingForgotten` allows it.

One fact of the code that contradicts its comments is modelled but has no violating run of its own. The refresh of an expired token within its buffer (`jwt.go:129`) never happens: in `Request` an expired token
is refused; `ActiveStaysLoggedIn` shows that the refresh before expiry is enough for devices in use. Others
follow from the source directly: `IsFollow`'s fallback (`FollowService.go:101`) is taken on an error only, because
SISMEMBER of an absent set answers no; `PUT /shop` deletes a hot entry that nothing loads again (`DeleteHot`);
`QueryShopByType` slices with a negative bound for `current` below 1; `QueryShopTypeListWithCache` SETs a string
under the key on which the list cache uses LRANGE.

## 6. Plan

1. `VoucherOrder`, `SeckillSale`, `DistributedLock`, `VoucherPublish`, and the modules of shops, follows, feed, likes,
   sessions and ids: done.
2. Their safety theorems: done (section 4).
3. The users' locks and the detailed lock against one abstract lock, `TokenLock`: done, checked and proved.
4. Left: composition of `VoucherPublish` with `VoucherOrder` (the pipeline fed by a stock that is published twice).

### Not modelled, and why

* Reads that write nothing: shops by type, name and place, blogs of a user, hot blogs, first likers, common follows,
  sign status, users, vouchers of a shop. `AddVoucher` is one INSERT.
* Visitor statistics: one PFADD per request on an approximate counter that nobody reads back into the system.
* The singleflight around token signing: both callers get a token of the same claims, and a device has one request
  under way here.
* The 24 hour TTL of retry counts (it makes a retry start over), consumer names other than c1.
* Uploads (file I/O), router, DTOs, validation, configuration (no state), comments (empty).
