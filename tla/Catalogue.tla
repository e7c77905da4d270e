----------------------------- MODULE Catalogue ------------------------------
(***************************************************************************)
(* What the shop pages are served from, in one process: hot shops, the     *)
(* list of shop types and a Bloom filter for keys.  They share requests,   *)
(* failures and restarts.                                                  *)
(***************************************************************************)
EXTENDS HotShop, ShopTypes, BloomFilter

catalogueVars == <<hotVars, listVars, bloomVars, callVars>>

Init == HotInit /\ ListInit /\ BloomInit /\ CallsInit

Crash == Restart /\ HotCrash /\ ListCrash /\ BloomCrash

\* A client is a goroutine that serves one request at a time.
OneRequest ==
  \A c \in Clients :
    \/ hotReq[c] = NoRead /\ listReq[c] = NoList
    \/ hotReq[c] = NoRead /\ Idles(c)
    \/ listReq[c] = NoList /\ Idles(c)

Next ==
  /\ \/ HotNext   /\ UNCHANGED <<listVars, bloomVars>>
     \/ ListNext  /\ UNCHANGED <<hotVars, bloomVars>>
     \/ BloomNext /\ UNCHANGED <<hotVars, listVars>>
     \/ Crash
  /\ OneRequest'

Spec == Init /\ [][Next]_catalogueVars /\ HotFairness

TypeOK == HotTypeOK /\ ListTypeOK /\ BloomTypeOK /\ CallsTypeOK

=============================================================================
