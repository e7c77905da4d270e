------------------------ MODULE VoucherPublish_proofs ------------------------
(***************************************************************************)
(* Theorems about VoucherPublish, for any customers, stock, number of      *)
(* retries, failures and restarts.                                         *)
(***************************************************************************)
EXTENDS VoucherPublish, FiniteSetTheorems, TLAPS

USE SaleAssumption, RetryAssumption, AbsentAssumption, BoundAssumption

\* A subset of the customers is finite; one customer more counts one more.
LEMMA Counting ==
  ASSUME NEW S \in SUBSET Users
  PROVE  /\ IsFiniteSet(S) /\ Cardinality(S) \in Nat
         /\ \A u \in Users \ S : Cardinality(S \cup {u}) = Cardinality(S) + 1
<1>1. IsFiniteSet(S)
  BY FS_Subset
<1> QED BY <1>1, FS_CardinalityType, FS_AddElement

LEMMA InitInv == Init => IndInv
<1> SUFFICES ASSUME Init PROVE IndInv
  OBVIOUS
<1>0. Cardinality({}) = 0
  BY FS_EmptySet
<1>1. TypeOK
  <2>1. sale \in {"before", "open", "over"} /\ row \in BOOLEAN /\ add \in AddStates
    BY DEF Init, AddStates
  <2>2. attempt \in 0..Retries /\ inFlight \in Nat /\ key \in (0..Stock) \cup {Absent}
    BY DEF Init
  <2>3. buyers \subseteq Users /\ checked \subseteq Users /\ orders \subseteq buyers
    BY DEF Init
  <2>4. dbStock \in 0..Stock /\ faults \in 0..MaxFaults /\ crashes \in 0..MaxCrashes
    BY DEF Init
  <2> QED BY <2>1, <2>2, <2>3, <2>4 DEF TypeOK
<1>2. Accounted
  BY <1>0 DEF Init, Accounted, OnSale, ToCome
<1>3. CheckedInSale /\ NoOrderWithoutRow
  BY DEF Init, CheckedInSale, NoOrderWithoutRow
<1>4. DatabaseSellsStock
  BY <1>0 DEF Init, DatabaseSellsStock
<1> QED BY <1>1, <1>2, <1>3, <1>4 DEF IndInv

LEMMA NextType == TypeOK /\ [Next]_vars => TypeOK'
<1> SUFFICES ASSUME TypeOK, [Next]_vars PROVE TypeOK'
  OBVIOUS
<1> USE DEF TypeOK, AddStates, publisherVars, saleVars, dbVars, NoFault, Fault
<1>1. CASE UNCHANGED vars
  BY <1>1 DEF vars
<1>2. CASE AddSeckillVoucher \/ AddFails
  <2>1. row' \in BOOLEAN
    BY <1>2 DEF AddSeckillVoucher, AddFails, CommitRows
  <2>2. /\ dbStock' \in 0..Stock /\ orders' = orders
        /\ add' \in {"publishing", "failed"}
        /\ UNCHANGED <<sale, attempt, inFlight, key, saleVars>>
    BY <1>2 DEF AddSeckillVoucher, AddFails, CommitRows
  <2>3. faults' \in 0..MaxFaults /\ crashes' \in 0..MaxCrashes
    BY <1>2 DEF AddSeckillVoucher, AddFails
  <2> QED BY <2>1, <2>2, <2>3
<1>3. CASE Publisher
  BY <1>3 DEF Publisher, Publish, PublishFails, GiveUpOrRetry
<1>4. CASE Land \/ Lost \/ Expire \/ Crash
  BY <1>4 DEF Land, Lost, Expire, Crash
<1>5. CASE Clock
  BY <1>5 DEF Clock
<1>6. ASSUME NEW u \in Users, CheckDates(u) \/ PlaceOrder(u) PROVE TypeOK'
  BY <1>6 DEF CheckDates, PlaceOrder
<1>7. ASSUME NEW u \in Users, RunScript(u) PROVE TypeOK'
  BY <1>7 DEF RunScript, Accepts
<1> QED BY <1>1, <1>2, <1>3, <1>4, <1>5, <1>6, <1>7 DEF Next

\* Orders need a row, and requests need a row and a sale that has begun.
LEMMA NextRows ==
  TypeOK /\ CheckedInSale /\ NoOrderWithoutRow /\ [Next]_vars
    => CheckedInSale' /\ NoOrderWithoutRow'
<1> SUFFICES ASSUME TypeOK, CheckedInSale, NoOrderWithoutRow, [Next]_vars
             PROVE  CheckedInSale' /\ NoOrderWithoutRow'
  OBVIOUS
<1> DEFINE Goal == CheckedInSale' /\ NoOrderWithoutRow'
<1> USE DEF TypeOK, CheckedInSale, NoOrderWithoutRow, publisherVars, saleVars, dbVars
<1>1. ASSUME UNCHANGED vars PROVE Goal
  BY <1>1 DEF vars
<1>2. ASSUME AddSeckillVoucher \/ AddFails PROVE Goal
  BY <1>2 DEF AddSeckillVoucher, AddFails, CommitRows
<1>3. ASSUME Publisher PROVE Goal
  BY <1>3 DEF Publisher, Publish, PublishFails, GiveUpOrRetry
<1>4. ASSUME Land \/ Lost \/ Expire \/ Crash PROVE Goal
  BY <1>4 DEF Land, Lost, Expire, Crash
<1>5. ASSUME Clock PROVE Goal
  BY <1>5 DEF Clock
<1>6. ASSUME NEW u \in Users, CheckDates(u) \/ PlaceOrder(u) PROVE Goal
  BY <1>6 DEF CheckDates, PlaceOrder
<1>7. ASSUME NEW u \in Users, RunScript(u) PROVE Goal
  BY <1>7 DEF RunScript
<1> HIDE DEF Goal
<1>8. Goal
  BY <1>1, <1>2, <1>3, <1>4, <1>5, <1>6, <1>7 DEF Next
<1> QED BY <1>8 DEF Goal

\* The one step that adds an order takes one piece off the stock.
LEMMA NextDatabase ==
  IndInv /\ [Next]_vars => DatabaseSellsStock'
<1> SUFFICES ASSUME IndInv, [Next]_vars PROVE DatabaseSellsStock'
  OBVIOUS
<1> USE DEF IndInv, TypeOK, DatabaseSellsStock, publisherVars, saleVars, dbVars
<1>0. Cardinality(orders) \in Nat /\ Cardinality({}) = 0
  BY Counting, FS_EmptySet
<1>1. ASSUME UNCHANGED dbVars PROVE DatabaseSellsStock'
  BY <1>1
<1>2. ASSUME add = "idle", CommitRows PROVE DatabaseSellsStock'
  BY <1>0, <1>2 DEF CommitRows, NoOrderWithoutRow
<1>3. ASSUME NEW u \in Users, PlaceOrder(u) PROVE DatabaseSellsStock'
  <2>1. Cardinality(orders') = Cardinality(orders) + 1
    BY <1>3, Counting DEF PlaceOrder
  <2>2. row /\ row' /\ dbStock' = dbStock - 1 /\ dbStock > 0
    BY <1>3 DEF PlaceOrder, CheckedInSale
  <2> QED BY <1>0, <2>1, <2>2
<1> QED
  BY <1>1, <1>2, <1>3
  DEF Next, vars, AddSeckillVoucher, AddFails, Publisher, Publish, PublishFails, Land, Lost,
      Expire, Crash, Clock, CheckDates, RunScript

\* Every step keeps the account: a piece on sale turns into a customer, a SET
\* puts the stock on sale that was still to come or in flight.
LEMMA NextAccount == TypeOK /\ Accounted /\ [Next]_vars => Accounted'
<1> SUFFICES ASSUME TypeOK, Accounted, [Next]_vars PROVE Accounted'
  OBVIOUS
<1> DEFINE n == Cardinality(buyers)
<1> DEFINE s == Stock * inFlight
<1> DEFINE f == Stock * (1 + faults)
<1>0. /\ n \in Nat /\ s \in Nat /\ f \in Nat
      /\ Stock * (inFlight + 1) = s + Stock
      /\ Stock * (inFlight - 1) = s - Stock
      /\ Stock * (1 + (faults + 1)) = f + Stock
  BY Counting DEF TypeOK
<1>1. OnSale \in 0..Stock /\ ToCome \in 0..Stock /\ n + OnSale + ToCome + s <= f
  BY DEF TypeOK, Accounted, OnSale, ToCome
<1>2. ASSUME UNCHANGED <<buyers, key, inFlight, faults>>,
             ToCome' = ToCome \/ ToCome' = 0
      PROVE  Accounted'
  BY <1>0, <1>1, <1>2 DEF Accounted, OnSale
<1> USE DEF publisherVars, saleVars, dbVars, NoFault, Fault
<1>3. CASE UNCHANGED vars \/ Clock
  BY <1>2, <1>3 DEF vars, Clock, ToCome
<1>4. CASE AddSeckillVoucher \/ Crash
  BY <1>2, <1>4 DEF AddSeckillVoucher, Crash, ToCome
<1>5. CASE AddFails
  <2>1. /\ buyers' = buyers /\ OnSale' = OnSale /\ ToCome' = 0
        /\ inFlight' = inFlight /\ faults' = faults + 1
    BY <1>5 DEF AddFails, OnSale, ToCome
  <2> QED BY <1>0, <1>1, <2>1 DEF Accounted, TypeOK
<1>6. CASE Publish
  <2>1. /\ buyers' = buyers /\ OnSale' = Stock /\ ToCome' = 0 /\ ToCome = Stock
        /\ inFlight' = inFlight /\ faults' = faults
    BY <1>6 DEF Publish, OnSale, ToCome
  <2> QED BY <1>0, <1>1, <2>1 DEF Accounted, TypeOK
<1>7. CASE PublishFails
  <2>1. /\ buyers' = buyers /\ OnSale' = OnSale /\ ToCome' \in {0, ToCome}
        /\ inFlight' \in {inFlight, inFlight + 1} /\ faults' = faults + 1
    BY <1>7 DEF PublishFails, GiveUpOrRetry, OnSale, ToCome
  <2>2. Stock * inFlight' \in {s, s + Stock} /\ Stock * (1 + faults') = f + Stock
    BY <1>0, <2>1
  <2> HIDE DEF s, f, n
  <2>3. n + OnSale' + ToCome' + Stock * inFlight' <= Stock * (1 + faults')
    BY <1>0, <1>1, <2>1, <2>2
  <2> QED BY <2>1, <2>3 DEF Accounted, n
<1>8. CASE Land \/ Lost
  <2>1. /\ buyers' = buyers /\ OnSale' \in {OnSale, Stock} /\ ToCome' = ToCome
        /\ inFlight' = inFlight - 1 /\ faults' = faults
    BY <1>8 DEF Land, Lost, OnSale, ToCome
  <2> HIDE DEF s, f, n
  <2>2. n + OnSale' + ToCome + (s - Stock) <= f
    <3>1. n \in Nat /\ s \in Nat /\ f \in Nat /\ Stock \in Nat
      BY <1>0
    <3>2. CASE OnSale' = OnSale
      BY <1>1, <3>1, <3>2
    <3>3. CASE OnSale' = Stock
      BY <1>1, <3>1, <3>3
    <3> QED BY <2>1, <3>2, <3>3
  <2> QED BY <1>0, <2>1, <2>2 DEF Accounted, n, s, f
<1>9. CASE Expire
  <2>1. /\ buyers' = buyers /\ OnSale' = 0 /\ ToCome' = ToCome
        /\ inFlight' = inFlight /\ faults' = faults
    BY <1>9 DEF Expire, OnSale, ToCome
  <2> QED BY <1>0, <1>1, <2>1 DEF Accounted, TypeOK
<1>10. ASSUME NEW u \in Users, CheckDates(u) \/ PlaceOrder(u) PROVE Accounted'
  BY <1>2, <1>10 DEF CheckDates, PlaceOrder, ToCome
<1>11. ASSUME NEW u \in Users, RunScript(u) PROVE Accounted'
  <2>1. CASE Accepts(u)
    <3>1. Cardinality(buyers') = n + 1
      BY <1>11, <2>1, Counting DEF RunScript, Accepts, TypeOK
    <3>2. /\ OnSale' = OnSale - 1 /\ ToCome' = ToCome
          /\ inFlight' = inFlight /\ faults' = faults
      BY <1>11, <2>1 DEF RunScript, Accepts, OnSale, ToCome, TypeOK
    <3> QED BY <1>0, <1>1, <3>1, <3>2 DEF Accounted, TypeOK
  <2>2. CASE ~Accepts(u)
    BY <1>2, <1>11, <2>2 DEF RunScript, ToCome
  <2> QED BY <2>1, <2>2
<1> QED
  BY <1>3, <1>4, <1>5, <1>6, <1>7, <1>8, <1>9, <1>10, <1>11 DEF Next, Publisher

LEMMA NextInv == IndInv /\ [Next]_vars => IndInv'
BY NextType, NextRows, NextDatabase, NextAccount DEF IndInv

LEMMA Invariance == Spec => []IndInv
BY InitInv, NextInv, PTL DEF Spec

\* Every variable keeps its type.
THEOREM TypeCorrect == Spec => []TypeOK
<1>1. IndInv => TypeOK
  BY DEF IndInv
<1> QED BY Invariance, <1>1, PTL

\* Each failed call lets the script accept at most the stock once more.
THEOREM Oversell == Spec => []OversellBounded
<1>1. ASSUME IndInv PROVE OversellBounded
  <2>1. Cardinality(buyers) \in Nat /\ Stock * inFlight \in Nat
    BY <1>1, Counting DEF IndInv, TypeOK
  <2>2. OnSale \in Nat /\ ToCome \in Nat
    BY <1>1 DEF IndInv, TypeOK, OnSale, ToCome
  <2>3. Stock * (1 + faults) \in Nat
    BY <1>1 DEF IndInv, TypeOK
  <2> QED BY <1>1, <2>1, <2>2, <2>3 DEF IndInv, Accounted, OversellBounded
<1> QED BY Invariance, <1>1, PTL

\* MySQL never sells more than the stock.
THEOREM Database == Spec => []DatabaseSellsStock
<1>1. IndInv => DatabaseSellsStock
  BY DEF IndInv
<1> QED BY Invariance, <1>1, PTL

\* Nobody reserves before the sale.
THEOREM Begin == Spec => []NotBeforeBegin
<1>1. IndInv => NotBeforeBegin
  BY DEF IndInv, CheckedInSale, NotBeforeBegin
<1> QED BY Invariance, <1>1, PTL

=============================================================================
