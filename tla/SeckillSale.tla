---------------------------- MODULE SeckillSale ----------------------------
(***************************************************************************)
(* What the flash sale promises, without streams, locks or transactions.   *)
(*                                                                         *)
(* A purchase is a pair <<user, voucher>>.  It is reserved when the user   *)
(* is told that the request succeeded, fulfilled when the order row        *)
(* exists, abandoned when the consumer gave the message up, and settled    *)
(* when the message is acknowledged, so that nobody looks at it again.     *)
(* A reservation is never taken back, never exceeds the stock, and is      *)
(* settled only after it was fulfilled or abandoned.                       *)
(*                                                                         *)
(* Abandon and Fulfil do not exclude each other: the code lets one         *)
(* goroutine give a message up while the other is still writing its order  *)
(* (README, finding "dead letter of a placed order").                      *)
(***************************************************************************)
EXTENDS Integers, FiniteSets

CONSTANTS
  Users,      \* the customers
  Vouchers,   \* the vouchers on sale
  Stock       \* Stock[v]: pieces of v on sale

VARIABLES reserved, fulfilled, abandoned, settled

saleVars == <<reserved, fulfilled, abandoned, settled>>

Purchases == Users \X Vouchers

BuyersOf(v) == {u \in Users : <<u, v>> \in reserved}

Init ==
  /\ reserved  = {}
  /\ fulfilled = {}
  /\ abandoned = {}
  /\ settled   = {}

(***************************************************************************)
(* One purchase per user and voucher, and never more than the stock.       *)
(***************************************************************************)
Reserve(p) ==
  /\ p \notin reserved
  /\ Cardinality(BuyersOf(p[2])) < Stock[p[2]]
  /\ reserved' = reserved \cup {p}
  /\ UNCHANGED <<fulfilled, abandoned, settled>>

Fulfil(p) ==
  /\ p \in reserved \ fulfilled
  /\ fulfilled' = fulfilled \cup {p}
  /\ UNCHANGED <<reserved, abandoned, settled>>

Abandon(p) ==
  /\ p \in reserved \ abandoned
  /\ abandoned' = abandoned \cup {p}
  /\ UNCHANGED <<reserved, fulfilled, settled>>

Settle(p) ==
  /\ p \in (fulfilled \cup abandoned) \ settled
  /\ settled' = settled \cup {p}
  /\ UNCHANGED <<reserved, fulfilled, abandoned>>

Next ==
  \E p \in Purchases : Reserve(p) \/ Fulfil(p) \/ Abandon(p) \/ Settle(p)

Spec == Init /\ [][Next]_saleVars
=============================================================================
