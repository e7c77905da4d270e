------------------------------ MODULE OrderIds ------------------------------
(***************************************************************************)
(* RedisWorker.NextId: the second, shifted by COUNT_BITS, or'ed with a     *)
(* counter that Redis keeps per day.                                       *)
(***************************************************************************)
EXTENDS Clock, FiniteSets

CONSTANTS
  CountLimit,  \* 2^COUNT_BITS
  IdDay(_)     \* the day an instant belongs to, in the zone of the server

\* No day has as many INCRs as the counter has values: | is + then.
ASSUME CountAssumption == CountLimit \in Nat /\ MaxRequests + MaxFaults < CountLimit

VARIABLES
  counters,  \* per day: icr:<prefix>:<day>
  idReq,     \* per client: whether it is about to INCR, and the time it read
  ids,       \* ids returned
  issued     \* how many times one was returned

idVars == <<counters, idReq, ids, issued>>

NoId == [at |-> "idle", stamp |-> 0]

IdDays == {IdDay(t) : t \in 0..MaxTime}

IdInit ==
  /\ counters = [d \in IdDays |-> 0]
  /\ idReq    = [c \in Clients |-> NoId]
  /\ ids      = {}
  /\ issued   = 0

\* Mutant: the count has no bits of its own.
IdUnshifted(stamp, count) == stamp + count

Id(stamp, count) == stamp * CountLimit + count

NextId(c) ==
  /\ Arrive
  /\ idReq[c] = NoId
  /\ idReq' = [idReq EXCEPT ![c] = [at |-> "incr", stamp |-> now]]
  /\ UNCHANGED <<counters, ids, issued, now>>

EndId(c) == idReq' = [idReq EXCEPT ![c] = NoId]

Incr(c) ==
  LET day == IdDay(idReq[c].stamp) IN
  /\ idReq[c].at = "incr"
  /\ counters' = [counters EXCEPT ![day] = @ + 1]
  /\ ids' = ids \cup {Id(idReq[c].stamp, counters[day] + 1)}
  /\ issued' = issued + 1
  /\ EndId(c)
  /\ NoFault /\ UNCHANGED now

\* The INCR is executed and its reply lost: the client sends it again.
IncrResent(c) ==
  LET day == IdDay(idReq[c].stamp) IN
  /\ idReq[c].at = "incr"
  /\ counters' = [counters EXCEPT ![day] = @ + 1]
  /\ Fault /\ UNCHANGED <<idReq, ids, issued, now>>

IncrError(c) ==
  LET day == IdDay(idReq[c].stamp) IN
  /\ idReq[c].at = "incr"
  /\ counters' \in {counters, [counters EXCEPT ![day] = @ + 1]}
  /\ EndId(c)
  /\ Fault /\ UNCHANGED <<ids, issued, now>>

IdCrash == idReq' = [c \in Clients |-> NoId] /\ UNCHANGED <<counters, ids, issued, now>>

IdNext == \E c \in Clients : NextId(c) \/ Incr(c) \/ IncrResent(c) \/ IncrError(c)

-----------------------------------------------------------------------------
IdTypeOK ==
  /\ counters \in [IdDays -> Nat]
  /\ idReq \in [Clients -> [at: {"idle", "incr"}, stamp: 0..MaxTime]]
  /\ ids \subseteq Nat /\ IsFiniteSet(ids)
  /\ issued \in Nat

(***************************************************************************)
(* No id is returned twice, although requests read the time and count in   *)
(* different orders, INCRs fail with effect or are executed twice, and     *)
(* midnight falls between the two (RedisWorker.go:19-34).                  *)
(***************************************************************************)
IdsDistinct == Cardinality(ids) = issued

=============================================================================
