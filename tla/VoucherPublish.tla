--------------------------- MODULE VoucherPublish ---------------------------
(***************************************************************************)
(* AddSeckillVoucher of VoucherService.go for one flash-sale voucher: the  *)
(* transaction that stores it, the goroutine that publishes its stock in   *)
(* Redis after the reply, retryUpdateRedis, and the requests of customers  *)
(* that arrive meanwhile (SeckillVoucher, which reads the voucher's dates  *)
(* in MySQL before it runs the script in Redis).  The order pipeline of    *)
(* VoucherOrder is one action here, the transaction of an order.           *)
(*                                                                         *)
(* A SET whose reply does not come in time may have been executed, may be  *)
(* executed later, or never: it stays in flight until it lands or is lost. *)
(***************************************************************************)
EXTENDS Integers, FiniteSets

CONSTANTS
  Users,
  Stock,      \* voucher.Stock
  Retries,    \* retryUpdateRedis tries so often
  Absent,     \* no value under seckill:stock:<id>
  MaxFaults,  \* bound: calls that fail
  MaxCrashes  \* bound: restarts of the process

ASSUME SaleAssumption == IsFiniteSet(Users) /\ Stock \in Nat
ASSUME RetryAssumption == Retries \in Nat
ASSUME AbsentAssumption == Absent \notin Int
ASSUME BoundAssumption == MaxFaults \in Nat /\ MaxCrashes \in Nat

VARIABLES
  sale,      \* the clock against the voucher's dates
  row,       \* the voucher's rows are committed
  add,       \* where AddSeckillVoucher is
  attempt,   \* the goroutine's SET: 0 the first one, then the retries
  inFlight,  \* SETs whose client gave up and that may still be executed
  key,       \* seckill:stock:<id>
  buyers,    \* seckill:order:<id>
  checked,   \* customers whose request passed the dates
  dbStock,   \* tb_seckill_voucher.stock
  orders,    \* customers whose order row exists
  faults, crashes

publisherVars == <<add, attempt, inFlight>>
saleVars == <<buyers, checked>>
dbVars   == <<row, dbStock, orders>>
vars     == <<sale, dbVars, publisherVars, key, saleVars, faults, crashes>>

\* publishing: the goroutine runs.  published, exhausted: it ended.
AddStates == {"idle", "publishing", "published", "exhausted", "failed"}

Fault == faults < MaxFaults /\ faults' = faults + 1 /\ UNCHANGED crashes

NoFault == UNCHANGED <<faults, crashes>>

Init ==
  /\ sale     = "before"
  /\ row      = FALSE
  /\ add      = "idle"
  /\ attempt  = 0
  /\ inFlight = 0
  /\ key      = Absent
  /\ buyers   = {}
  /\ checked  = {}
  /\ dbStock  = 0
  /\ orders   = {}
  /\ faults   = 0
  /\ crashes  = 0

-----------------------------------------------------------------------------
(***************************************************************************)
(* The transaction inserts both rows; nothing of it is visible before the  *)
(* commit, so it is one action.  After an error the caller is told so and  *)
(* nothing is published, even if the commit happened and its reply was     *)
(* lost.                                                                   *)
(***************************************************************************)
CommitRows == row' = TRUE /\ dbStock' = Stock /\ UNCHANGED orders

AddSeckillVoucher ==
  /\ add = "idle"
  /\ CommitRows
  /\ add' = "publishing"
  /\ UNCHANGED <<sale, attempt, inFlight, key, saleVars>> /\ NoFault

AddFails ==
  /\ add = "idle"
  /\ CommitRows \/ UNCHANGED dbVars
  /\ add' = "failed"
  /\ UNCHANGED <<sale, attempt, inFlight, key, saleVars>> /\ Fault

\* The goroutine's SET, and the retries of retryUpdateRedis.
Publish ==
  /\ add = "publishing"
  /\ key' = Stock
  /\ add' = "published"
  /\ UNCHANGED <<sale, dbVars, attempt, inFlight, saleVars>> /\ NoFault

\* Mutant: one retry less.
GiveUpOrRetrySooner ==
  IF attempt + 1 < Retries
    THEN attempt' = attempt + 1 /\ UNCHANGED add
    ELSE add' = "exhausted" /\ UNCHANGED attempt

GiveUpOrRetry ==
  IF attempt < Retries
    THEN attempt' = attempt + 1 /\ UNCHANGED add
    ELSE add' = "exhausted" /\ UNCHANGED attempt

\* The SET fails: it was not sent, or it is still on its way to Redis.
PublishFails ==
  /\ add = "publishing"
  /\ GiveUpOrRetry
  /\ inFlight' \in {inFlight, inFlight + 1}
  /\ UNCHANGED <<sale, dbVars, key, saleVars>> /\ Fault

\* Redis executes a SET that its client has given up.
Land ==
  /\ inFlight > 0
  /\ inFlight' = inFlight - 1
  /\ key' = Stock
  /\ UNCHANGED <<sale, dbVars, add, attempt, saleVars>> /\ NoFault

Lost ==
  /\ inFlight > 0
  /\ inFlight' = inFlight - 1
  /\ UNCHANGED <<sale, dbVars, add, attempt, key, saleVars>> /\ NoFault

\* The key's 24 hours are over (the retries end within half a minute).
Expire ==
  /\ key # Absent
  /\ add # "publishing" /\ inFlight = 0
  /\ key' = Absent
  /\ UNCHANGED <<sale, dbVars, publisherVars, saleVars>> /\ NoFault

\* A restart: the publishing goroutine is gone, nobody publishes again.
Crash ==
  /\ crashes < MaxCrashes
  /\ crashes' = crashes + 1
  /\ add' = IF add = "publishing" THEN "exhausted" ELSE add
  /\ checked' = {}
  /\ UNCHANGED <<sale, dbVars, attempt, inFlight, key, buyers, faults>>

-----------------------------------------------------------------------------
\* The sale begins, the sale ends.
Clock ==
  /\ sale' = CASE sale = "before" -> "open" [] sale = "open" -> "over" [] OTHER -> sale
  /\ sale # "over"
  /\ UNCHANGED <<dbVars, publisherVars, key, saleVars>> /\ NoFault

\* Mutant: only the end of the sale is looked at.
CheckDatesEndOnly(u) ==
  /\ u \notin checked
  /\ row /\ sale # "over"
  /\ checked' = checked \cup {u}
  /\ UNCHANGED <<sale, dbVars, publisherVars, key, buyers>> /\ NoFault

\* SeckillVoucher reads the row and compares its dates with the clock; other
\* requests are refused here and change nothing.
CheckDates(u) ==
  /\ u \notin checked
  /\ row /\ sale = "open"
  /\ checked' = checked \cup {u}
  /\ UNCHANGED <<sale, dbVars, publisherVars, key, buyers>> /\ NoFault

\* The script fails on an absent key (nil <= 0), refuses without stock or a
\* second time, or reserves.
Accepts(u) == key # Absent /\ key > 0 /\ u \notin buyers

\* Mutant: < 0 instead of <= 0 refuses.
RunScriptOversells(u) ==
  /\ u \in checked
  /\ checked' = checked \ {u}
  /\ IF key # Absent /\ key >= 0 /\ u \notin buyers
       THEN key' = key - 1 /\ buyers' = buyers \cup {u}
       ELSE UNCHANGED <<key, buyers>>
  /\ UNCHANGED <<sale, dbVars, publisherVars>> /\ NoFault

RunScript(u) ==
  /\ u \in checked
  /\ checked' = checked \ {u}
  /\ IF Accepts(u)
       THEN key' = key - 1 /\ buyers' = buyers \cup {u}
       ELSE UNCHANGED <<key, buyers>>
  /\ UNCHANGED <<sale, dbVars, publisherVars>> /\ NoFault

\* Mutant: UPDATE without "AND stock > 0".
PlaceOrderUnguarded(u) ==
  /\ u \in buyers \ orders
  /\ dbStock' = dbStock - 1 /\ orders' = orders \cup {u}
  /\ UNCHANGED <<sale, row, publisherVars, key, saleVars>> /\ NoFault

\* createVoucherOrder for a reserved customer; without stock it changes
\* nothing, and the message goes to the dead letters in the end.
PlaceOrder(u) ==
  /\ u \in buyers \ orders
  /\ dbStock > 0
  /\ dbStock' = dbStock - 1 /\ orders' = orders \cup {u}
  /\ UNCHANGED <<sale, row, publisherVars, key, saleVars>> /\ NoFault

Publisher == Publish \/ PublishFails

Next ==
  \/ AddSeckillVoucher \/ AddFails \/ Publisher \/ Land \/ Lost \/ Expire \/ Crash
  \/ Clock
  \/ \E u \in Users : CheckDates(u) \/ RunScript(u) \/ PlaceOrder(u)

Spec == Init /\ [][Next]_vars

\* The goroutine AddSeckillVoucher starts is scheduled.
FairSpec == Spec /\ WF_vars(Publisher)

-----------------------------------------------------------------------------
TypeOK ==
  /\ sale \in {"before", "open", "over"}
  /\ row \in BOOLEAN
  /\ add \in AddStates
  /\ attempt \in 0..Retries
  /\ inFlight \in Nat
  /\ key \in (0..Stock) \cup {Absent}
  /\ buyers \subseteq Users
  /\ checked \subseteq Users
  /\ dbStock \in 0..Stock
  /\ orders \subseteq buyers
  /\ faults \in 0..MaxFaults
  /\ crashes \in 0..MaxCrashes

\* The script never accepts more customers than the SETs that were executed
\* put on sale: without a failed call that is the voucher's stock, and every
\* failed one can add at most the stock again.
OversellBounded ==
  Cardinality(buyers) <= Stock * (1 + faults)

\* Whatever Redis accepts, MySQL sells the stock and no more, and its stock and
\* order rows agree (DecrVoucherStock's guard).
DatabaseSellsStock ==
  /\ Cardinality(orders) <= Stock
  /\ row => dbStock = Stock - Cardinality(orders)

\* Nobody reserves before the sale begins, however early the stock is
\* published.
NotBeforeBegin == buyers # {} => sale # "before"

\* A voucher that was added successfully goes on sale if at most Retries calls
\* fail and the process lives on: retryUpdateRedis tries often enough.
VoucherGoesOnSale == add = "publishing" ~> key # Absent \/ crashes > 0

(***************************************************************************)
(* What makes OversellBounded inductive: what was accepted, what can still *)
(* be accepted, and what every SET that may still be executed can add.     *)
(***************************************************************************)
OnSale == IF key = Absent THEN 0 ELSE key

ToCome == IF add \in {"idle", "publishing"} THEN Stock ELSE 0

Accounted ==
  Cardinality(buyers) + OnSale + ToCome + Stock * inFlight <= Stock * (1 + faults)

\* A request runs its script only after it passed the dates.
CheckedInSale == checked # {} \/ buyers # {} => row /\ sale # "before"

NoOrderWithoutRow == (add = "idle" => ~row) /\ (~row => dbStock = 0 /\ orders = {})

IndInv == TypeOK /\ Accounted /\ CheckedInSale /\ NoOrderWithoutRow /\ DatabaseSellsStock

(***************************************************************************)
(* A claim of the design notes (asynchronous processing, line 13) that the *)
(* code does not keep (README): the script stops overselling at the entry, *)
(* so a customer it accepted finds stock in MySQL.                         *)
(***************************************************************************)
ReservedFindsStock == buyers \ orders # {} => dbStock > 0

=============================================================================
