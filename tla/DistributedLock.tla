--------------------------- MODULE DistributedLock ---------------------------
(***************************************************************************)
(* distributed_lock.go: calls of LockWithWatchDog and UnlockWithWatchDog   *)
(* for one key through ONE DistributedLock object (ShopService's distLock, *)
(* shared by all requests), with the watchdog goroutine of every call, the *)
(* object's watchDogs map, the key's TTL and the passing of time.          *)
(*                                                                         *)
(* A call draws a fresh token, so the call stands for its token.  A call   *)
(* that finds the key taken changes nothing and may try again.  The map's  *)
(* mutex makes each of its critical sections one action.                   *)
(***************************************************************************)
EXTENDS Integers

CONSTANTS
  Calls,      \* the calls; each locks and unlocks once
  None,       \* no call
  Ttl,        \* the key's time to live, in ticks
  Half,       \* the watchdog's period (ttl / 2), in ticks
  MaxErrors   \* bound: Redis calls that fail

ASSUME CallAssumption == None \notin Calls /\ Calls \cap {"free", "orphan"} = {}
ASSUME TimeAssumption == Half \in Nat \ {0} /\ Ttl \in Nat /\ Half < Ttl
ASSUME BoundAssumption == MaxErrors \in Nat

VARIABLES
  holder,     \* the token stored under the key
  ttl,        \* ticks until the key expires
  pc,         \* where each call is
  entry,      \* watchDogs[key]: the call whose cancel function is stored
  cancelled,  \* calls whose watchdog context is done
  dog,        \* where each call's watchdog is
  timer,      \* ticks until its ticker fires
  errors,
  late        \* history: a due step was overtaken by time

keyVars == <<holder, ttl>>
dogVars == <<dog, timer>>
vars == <<keyVars, pc, entry, cancelled, dogVars, errors, late>>

\* granted: SETNX succeeded, the watchdog is not started yet.
\* deleting: the watchdog is cancelled, the key is not deleted yet.
CallStates == {"idle", "granted", "inside", "deleting", "done"}
DogStates  == {"none", "waiting", "renewing", "ended"}

Cancel(S) == cancelled' = cancelled \cup (S \ {None})

Fails == errors < MaxErrors /\ errors' = errors + 1

Enter(c, s) == pc' = [pc EXCEPT ![c] = s]

DogAt(c, s) == dog' = [dog EXCEPT ![c] = s]

Init ==
  /\ holder    = None
  /\ ttl       = 0
  /\ pc        = [c \in Calls |-> "idle"]
  /\ entry     = None
  /\ cancelled = {}
  /\ dog       = [c \in Calls |-> "none"]
  /\ timer     = [c \in Calls |-> 0]
  /\ errors    = 0
  /\ late      = FALSE

-----------------------------------------------------------------------------
SetNX(c) ==
  /\ pc[c] = "idle" /\ holder = None
  /\ holder' = c /\ ttl' = Ttl
  /\ Enter(c, "granted")
  /\ UNCHANGED <<entry, cancelled, dogVars, errors, late>>

\* The reply is lost: the caller gives up, the key stays.
SetNXReplyLost(c) ==
  /\ pc[c] = "idle" /\ holder = None
  /\ holder' = c /\ ttl' = Ttl
  /\ Enter(c, "done")
  /\ Fails
  /\ UNCHANGED <<entry, cancelled, dogVars, late>>

\* Mutant: the watchdog that is in the map already is not cancelled.
StartWatchDogKeepsOld(c) ==
  /\ pc[c] = "granted"
  /\ entry' = c
  /\ DogAt(c, "waiting") /\ timer' = [timer EXCEPT ![c] = Half]
  /\ Enter(c, "inside")
  /\ UNCHANGED <<keyVars, cancelled, errors, late>>

\* Mutant: the ticker's period is ttl.
StartWatchDogSlowly(c) ==
  /\ pc[c] = "granted"
  /\ Cancel({entry}) /\ entry' = c
  /\ DogAt(c, "waiting") /\ timer' = [timer EXCEPT ![c] = Ttl]
  /\ Enter(c, "inside")
  /\ UNCHANGED <<keyVars, errors, late>>

StartWatchDog(c) ==
  /\ pc[c] = "granted"
  /\ Cancel({entry}) /\ entry' = c
  /\ DogAt(c, "waiting") /\ timer' = [timer EXCEPT ![c] = Half]
  /\ Enter(c, "inside")
  /\ UNCHANGED <<keyVars, errors, late>>

\* Mutant: the map entry is removed, its cancel function is not called.
StopWatchDogForgotten(c) ==
  /\ pc[c] = "inside"
  /\ entry' = None
  /\ Enter(c, "deleting")
  /\ UNCHANGED <<keyVars, cancelled, dogVars, errors, late>>

\* UnlockWithWatchDog cancels the watchdog the map holds for the KEY.
StopWatchDog(c) ==
  /\ pc[c] = "inside"
  /\ Cancel({entry}) /\ entry' = None
  /\ Enter(c, "deleting")
  /\ UNCHANGED <<keyVars, dogVars, errors, late>>

\* Mutant: DEL without the token comparison.
DeleteAnybodys(c) ==
  /\ pc[c] = "deleting"
  /\ holder' = None /\ ttl' = 0
  /\ Enter(c, "done")
  /\ UNCHANGED <<entry, cancelled, dogVars, errors, late>>

\* The script deletes the key only if it holds the caller's token.
Delete(c) ==
  /\ pc[c] = "deleting"
  /\ IF holder = c THEN holder' = None /\ ttl' = 0 ELSE UNCHANGED keyVars
  /\ Enter(c, "done")
  /\ UNCHANGED <<entry, cancelled, dogVars, errors, late>>

\* Not executed, or executed and the reply lost.
DeleteError(c) ==
  /\ pc[c] = "deleting"
  /\ \/ UNCHANGED keyVars
     \/ holder = c /\ holder' = None /\ ttl' = 0
  /\ Enter(c, "done")
  /\ Fails
  /\ UNCHANGED <<entry, cancelled, dogVars, late>>

-----------------------------------------------------------------------------
(***************************************************************************)
(* The watchdog goroutine of call c.  After its context is done an Eval    *)
(* that was not sent fails at once, so a tick that is still in the channel *)
(* ends the goroutine like ctx.Done() does.                                *)
(***************************************************************************)
Fire(c) ==
  /\ dog[c] = "waiting" /\ timer[c] = 0 /\ c \notin cancelled
  /\ DogAt(c, "renewing") /\ timer' = [timer EXCEPT ![c] = Half]
  /\ UNCHANGED <<keyVars, pc, entry, cancelled, errors, late>>

\* Mutant: the renewal sets half of the TTL.
RenewHalf(c) ==
  /\ dog[c] = "renewing"
  /\ ttl' = IF holder = c THEN Half ELSE ttl
  /\ DogAt(c, "waiting")
  /\ UNCHANGED <<holder, pc, entry, cancelled, timer, errors, late>>

\* The script renews the key only if it holds c's token; a reply of 0 is not
\* an error, the goroutine goes on.
Renew(c) ==
  /\ dog[c] = "renewing"
  /\ ttl' = IF holder = c THEN Ttl ELSE ttl
  /\ DogAt(c, "waiting")
  /\ UNCHANGED <<holder, pc, entry, cancelled, timer, errors, late>>

\* One failed Eval, executed or not, and the watchdog returns.
RenewError(c) ==
  /\ dog[c] = "renewing"
  /\ ttl' \in {ttl, IF holder = c THEN Ttl ELSE ttl}
  /\ DogAt(c, "ended")
  /\ Fails
  /\ UNCHANGED <<holder, pc, entry, cancelled, timer, late>>

Exit(c) ==
  /\ dog[c] = "waiting" /\ c \in cancelled
  /\ DogAt(c, "ended")
  /\ UNCHANGED <<keyVars, pc, entry, cancelled, timer, errors, late>>

-----------------------------------------------------------------------------
\* A goroutine has something to do now.
Due ==
  \E c \in Calls :
    \/ pc[c] = "granted"
    \/ dog[c] = "renewing"
    \/ dog[c] = "waiting" /\ timer[c] = 0 /\ c \notin cancelled

\* Time passes: tickers count down, the key ages and expires.
Tick ==
  /\ ttl > 0 \/ \E c \in Calls : timer[c] > 0
  /\ timer' = [c \in Calls |-> IF timer[c] > 0 THEN timer[c] - 1 ELSE 0]
  /\ ttl' = IF ttl > 0 THEN ttl - 1 ELSE 0
  /\ holder' = IF ttl > 1 THEN holder ELSE None
  /\ late' = (late \/ Due)
  /\ UNCHANGED <<pc, entry, cancelled, dog, errors>>

CallerStep(c) == StartWatchDog(c) \/ StopWatchDog(c) \/ Delete(c)

WatchDogStep(c) == Fire(c) \/ Renew(c) \/ Exit(c)

Next ==
  \/ Tick
  \/ \E c \in Calls :
       \/ SetNX(c) \/ CallerStep(c) \/ WatchDogStep(c)
       \/ SetNXReplyLost(c) \/ DeleteError(c) \/ RenewError(c)

Spec == Init /\ [][Next]_vars

\* Time does not stop, callers leave their critical section and their deferred
\* unlock runs, goroutines are scheduled; nobody has to ask for the lock.
Fairness ==
  /\ WF_vars(Tick)
  /\ \A c \in Calls : WF_vars(CallerStep(c)) /\ WF_vars(WatchDogStep(c))

FairSpec == Spec /\ Fairness

-----------------------------------------------------------------------------
TypeOK ==
  /\ holder \in Calls \cup {None}
  /\ ttl \in 0..Ttl
  /\ pc \in [Calls -> CallStates]
  /\ entry \in Calls \cup {None}
  /\ cancelled \subseteq Calls
  /\ dog \in [Calls -> DogStates]
  /\ timer \in [Calls -> 0..Half]
  /\ errors \in 0..MaxErrors
  /\ late \in BOOLEAN

\* The lock excludes: as long as no Redis call failed and no goroutine was
\* overtaken by time, at most one call is inside, however long it stays.
MutualExclusion ==
  errors = 0 /\ ~late =>
    \A c, d \in Calls : pc[c] = "inside" /\ pc[d] = "inside" => c = d

\* The key is taken from its holder only by its own delete or by its TTL, never
\* by the late unlock of a call that lost the key before.
TakenOnlyByOwner ==
  [][\A c \in Calls : holder = c /\ holder' # c =>
       (pc[c] = "deleting" /\ pc'[c] = "done") \/ ttl = 1]_vars

\* A renewal prolongs only its own call's key: when the key's time grows while
\* it is held, the holder's watchdog did it.
RenewedOnlyByOwner ==
  [][\A c \in Calls : holder = c /\ holder' = c /\ ttl' > ttl => dog[c] = "renewing"]_vars

\* A watchdog that still runs can be stopped: its cancel function is in the map
\* or was called.
NoStrayWatchDog ==
  \A c \in Calls : dog[c] \in {"waiting", "renewing"} => (entry = c \/ c \in cancelled)

\* A key that is taken is free again some day, unlock or not.
KeyIsFreed == holder # None ~> holder = None

\* Every watchdog ends.
WatchDogsEnd == \A c \in Calls : dog[c] = "waiting" ~> dog[c] = "ended"

(***************************************************************************)
(* The object keeps TokenLock's promise.  A call that has asked and does   *)
(* not know its token, or could not delete it, has ended: the key is       *)
(* nobody's.                                                               *)
(***************************************************************************)
LockPhase(c) ==
  CASE pc[c] \in {"granted", "inside"} -> "in"
    [] pc[c] = "deleting"              -> "leaving"
    [] OTHER                           -> "out"

LockWord ==
  CASE holder = None                      -> "free"
    [] holder \in Calls /\ pc[holder] = "done" -> "orphan"
    [] OTHER                              -> holder

Promise == INSTANCE TokenLock WITH
             Parties <- Calls,
             word    <- LockWord,
             phase   <- [c \in Calls |-> LockPhase(c)],
             faulty  <- errors > 0 \/ late

PromiseKept == Promise!Spec

(***************************************************************************)
(* What makes MutualExclusion inductive: a call inside has a watchdog that *)
(* is due before its key expires, and the map holds that watchdog.  The    *)
(* key exists as long as it has time to live.                              *)
(***************************************************************************)
KeyHasTtl == ttl = 0 <=> holder = None

MapEntryInside == \A c \in Calls : entry = c => pc[c] = "inside"

FreshCalls ==
  \A c \in Calls : pc[c] \in {"idle", "granted"} => c \notin cancelled /\ dog[c] = "none"

Guarded(c) ==
  /\ holder = c /\ entry = c /\ c \notin cancelled
  /\ dog[c] \in {"waiting", "renewing"}
  /\ dog[c] = "waiting" => ttl >= timer[c] + (Ttl - Half)

HoldersGuarded ==
  errors = 0 /\ ~late =>
    \A c \in Calls : /\ pc[c] = "granted" => holder = c /\ ttl = Ttl
                     /\ pc[c] = "inside" => Guarded(c)

IndInv == TypeOK /\ KeyHasTtl /\ MapEntryInside /\ FreshCalls /\ HoldersGuarded

(***************************************************************************)
(* A claim of the lock's documentation, line 104, that the code does not   *)
(* keep (README): "the watchdog keeps the lock valid".  Nobody stops the   *)
(* watchdog of the call that is inside and holds the key, as long as no    *)
(* goroutine was overtaken by time.                                        *)
(***************************************************************************)
WatchDogGuardsHolder ==
  ~late => \A c \in Calls : pc[c] = "inside" => c \notin cancelled \/ holder # c

=============================================================================
