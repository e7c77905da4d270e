----------------------------- MODULE ShopTypes ------------------------------
(***************************************************************************)
(* The list of shop types (ShopTypeService.QueryTypeListWithCacheList,     *)
(* GET /shop-type/list): a Redis list without a TTL that every request     *)
(* which finds it empty fills, one RPUSH per type.  Types are the numbers  *)
(* 1..TypeCount in the order of tb_shop_type.sort.                         *)
(*                                                                         *)
(* The client keeps go-redis's retries (config/redis/init.go): an RPUSH    *)
(* whose reply is lost is sent again, and Redis may execute both.          *)
(***************************************************************************)
EXTENDS Calls, Sequences, FiniteSets

CONSTANT TypeCount

ASSUME TypeCountAssumption == TypeCount \in Nat \ {0}
ASSUME FinitelyManyClients == IsFiniteSet(Clients)

VARIABLES
  list,      \* shop:list
  listReq,   \* per client: the call it makes next, and the type it pushes
  listCut,   \* a request that pushed did not push everything
  strays,    \* per type: RPUSHes without a reply that Redis may yet execute
  lost       \* RPUSHes that had no reply

listVars == <<list, listReq, listCut, strays, lost>>

Types == 1..TypeCount

NoList  == [at |-> "idle", type |-> 1]
Push(t) == IF t > TypeCount THEN NoList ELSE [at |-> "push", type |-> t]

ListInit ==
  /\ list    = <<>>
  /\ listReq = [c \in Clients |-> NoList]
  /\ listCut = FALSE
  /\ strays  = [t \in Types |-> 0]
  /\ lost    = 0

NoStray == UNCHANGED <<strays, lost>>

Goes(c, to) == listReq' = [listReq EXCEPT ![c] = to]

QueryTypeList(c) ==
  /\ Arrive
  /\ listReq[c] = NoList
  /\ Goes(c, [NoList EXCEPT !.at = "range"])
  /\ NoStray /\ UNCHANGED <<list, listCut>>

\* Any type in the list is an answer, all of them or not.
LRange(c) ==
  /\ listReq[c].at = "range"
  /\ Goes(c, IF list = <<>> THEN [NoList EXCEPT !.at = "query"] ELSE NoList)
  /\ NoFault /\ NoStray /\ UNCHANGED <<list, listCut>>

QueryTypes(c) ==
  /\ listReq[c].at = "query"
  /\ Goes(c, Push(1))
  /\ NoFault /\ NoStray /\ UNCHANGED <<list, listCut>>

Pushing(c) == listReq[c].at = "push"

\* Mutant: the last type is left out.
RPushShort(c) ==
  /\ Pushing(c)
  /\ list' = Append(list, listReq[c].type)
  /\ Goes(c, IF listReq[c].type = TypeCount - 1 THEN NoList ELSE Push(listReq[c].type + 1))
  /\ NoFault /\ NoStray /\ UNCHANGED listCut

RPush(c) ==
  /\ Pushing(c)
  /\ list' = Append(list, listReq[c].type)
  /\ Goes(c, Push(listReq[c].type + 1))
  /\ NoFault /\ NoStray /\ UNCHANGED listCut

\* Nobody knows whether an RPUSH without a reply is executed, nor when.
Stray(c) ==
  /\ strays' = [strays EXCEPT ![listReq[c].type] = @ + 1]
  /\ lost' = lost + 1

\* The reply is lost: the client sends the RPUSH again, the next RPush.
RPushResent(c) ==
  /\ Pushing(c)
  /\ Stray(c)
  /\ Fault /\ UNCHANGED <<list, listReq, listCut>>

LandPush(t) ==
  /\ strays[t] > 0
  /\ strays' = [strays EXCEPT ![t] = @ - 1]
  /\ list' = Append(list, t)
  /\ NoFault /\ UNCHANGED <<listReq, listCut, lost>>

\* A call fails and the request ends.
ListError(c) ==
  /\ listReq[c] # NoList
  /\ IF Pushing(c) THEN Stray(c) ELSE NoStray
  /\ listCut' = (listCut \/ Pushing(c))
  /\ Goes(c, NoList)
  /\ Fault /\ UNCHANGED list

ListCrash ==
  /\ listCut' = (listCut \/ \E c \in Clients : Pushing(c))
  /\ listReq' = [c \in Clients |-> NoList]
  /\ NoStray /\ UNCHANGED list

ListNext ==
  \/ \E c \in Clients :
       \/ QueryTypeList(c) \/ LRange(c) \/ QueryTypes(c)
       \/ RPush(c) \/ RPushResent(c) \/ ListError(c)
  \/ \E t \in Types : LandPush(t)

-----------------------------------------------------------------------------
ListTypeOK ==
  /\ list \in Seq(Types)
  /\ listReq \in [Clients -> [at: {"idle", "range", "query", "push"}, type: Types]]
  /\ listCut \in BOOLEAN
  /\ strays \in [Types -> Nat]
  /\ lost \in Nat

Copies(t) == Cardinality({i \in DOMAIN list : list[i] = t})

ListQuiet == \A c \in Clients : listReq[c] = NoList

(***************************************************************************)
(* Requests that race on the empty list push it several times over and a   *)
(* reader may see any part of that.  But there are never more copies of a  *)
(* type than racing requests and lost replies, nor more of a type than of  *)
(* one that sorts before it and lost replies; and once all have finished,  *)
(* none of them cut short, no type is missing from a list that is there,   *)
(* and two types differ by no more copies than replies were lost           *)
(* (ShopTypeService.go:97-108).                                            *)
(***************************************************************************)
TypesInStep ==
  /\ \A t \in Types : Copies(t) <= Cardinality(Clients) + lost
  /\ \A t, u \in Types : t < u => Copies(t) + lost >= Copies(u)
  /\ ListQuiet /\ ~listCut =>
       \A t, u \in Types : /\ Copies(t) + lost >= Copies(u)
                           /\ Copies(t) = 0 => Copies(u) = 0

=============================================================================
