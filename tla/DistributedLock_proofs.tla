----------------------- MODULE DistributedLock_proofs -----------------------
(***************************************************************************)
(* Theorems about DistributedLock, for any number of calls, any TTL longer *)
(* than the watchdog's period and any number of failed calls.              *)
(***************************************************************************)
EXTENDS DistributedLock, TLAPS

USE CallAssumption, TimeAssumption, BoundAssumption

LEMMA InitInv == Init => IndInv
<1> SUFFICES ASSUME Init PROVE IndInv
  OBVIOUS
<1>1. TypeOK
  <2>1. holder \in Calls \cup {None} /\ ttl \in 0..Ttl /\ errors \in 0..MaxErrors
    BY DEF Init
  <2>2. timer \in [Calls -> 0..Half]
    BY DEF Init
  <2>3. pc \in [Calls -> CallStates] /\ dog \in [Calls -> DogStates]
    BY DEF Init, CallStates, DogStates
  <2>4. entry \in Calls \cup {None} /\ cancelled \subseteq Calls /\ late \in BOOLEAN
    BY DEF Init
  <2> QED BY <2>1, <2>2, <2>3, <2>4 DEF TypeOK
<1>5. KeyHasTtl
  BY DEF Init, KeyHasTtl
<1>2. MapEntryInside
  BY DEF Init, MapEntryInside
<1>3. FreshCalls
  BY DEF Init, FreshCalls
<1>4. HoldersGuarded
  BY DEF Init, HoldersGuarded
<1> QED BY <1>1, <1>2, <1>3, <1>4, <1>5 DEF IndInv

LEMMA NextType == TypeOK /\ [Next]_vars => TypeOK'
<1> SUFFICES ASSUME TypeOK, [Next]_vars PROVE TypeOK'
  OBVIOUS
<1> USE DEF TypeOK, CallStates, DogStates, keyVars, dogVars, Cancel, Fails, Enter, DogAt
<1>1. CASE UNCHANGED vars
  BY <1>1 DEF vars
<1>2. CASE Tick
  <2>1. timer' \in [Calls -> 0..Half]
    BY <1>2 DEF Tick
  <2>2. ttl' \in 0..Ttl /\ holder' \in Calls \cup {None} /\ late' \in BOOLEAN
    <3>1. Due \in BOOLEAN
      BY DEF Due
    <3> QED BY <1>2, <3>1 DEF Tick
  <2> QED BY <1>2, <2>1, <2>2 DEF Tick
<1>3. ASSUME NEW c \in Calls, SetNX(c) \/ SetNXReplyLost(c) PROVE TypeOK'
  BY <1>3 DEF SetNX, SetNXReplyLost
<1>4. ASSUME NEW c \in Calls, CallerStep(c) \/ DeleteError(c) PROVE TypeOK'
  BY <1>4 DEF CallerStep, StartWatchDog, StopWatchDog, Delete, DeleteError
<1>5. ASSUME NEW c \in Calls, WatchDogStep(c) \/ RenewError(c) PROVE TypeOK'
  BY <1>5 DEF WatchDogStep, Fire, Renew, Exit, RenewError
<1> QED BY <1>1, <1>2, <1>3, <1>4, <1>5 DEF Next

\* The map names only calls that are inside, and a call that did not start its
\* watchdog yet has none that could have been cancelled.
LEMMA NextMap ==
  TypeOK /\ MapEntryInside /\ FreshCalls /\ [Next]_vars => MapEntryInside' /\ FreshCalls'
<1> SUFFICES ASSUME TypeOK, MapEntryInside, FreshCalls, [Next]_vars
             PROVE  MapEntryInside' /\ FreshCalls'
  OBVIOUS
<1> USE DEF TypeOK, MapEntryInside, FreshCalls, keyVars, dogVars, Cancel, Enter, DogAt
<1>1. CASE UNCHANGED vars \/ Tick
  BY <1>1 DEF vars, Tick
<1>2. ASSUME NEW c \in Calls, SetNX(c) \/ SetNXReplyLost(c)
      PROVE  MapEntryInside' /\ FreshCalls'
  BY <1>2 DEF SetNX, SetNXReplyLost
<1>3. ASSUME NEW c \in Calls, CallerStep(c) \/ DeleteError(c)
      PROVE  MapEntryInside' /\ FreshCalls'
  BY <1>3 DEF CallerStep, StartWatchDog, StopWatchDog, Delete, DeleteError
<1>4. ASSUME NEW c \in Calls, WatchDogStep(c) \/ RenewError(c)
      PROVE  MapEntryInside' /\ FreshCalls'
  BY <1>4 DEF WatchDogStep, Fire, Renew, Exit, RenewError
<1> QED BY <1>1, <1>2, <1>3, <1>4 DEF Next

\* The key exists exactly while it has time to live.
LEMMA NextKey == TypeOK /\ KeyHasTtl /\ [Next]_vars => KeyHasTtl'
<1> SUFFICES ASSUME TypeOK, KeyHasTtl, [Next]_vars PROVE KeyHasTtl'
  OBVIOUS
<1> USE DEF TypeOK, KeyHasTtl, keyVars
<1>1. ASSUME UNCHANGED vars PROVE KeyHasTtl'
  BY <1>1 DEF vars
<1>2. ASSUME Tick PROVE KeyHasTtl'
  <2>1. /\ ttl > 1 => holder' = holder /\ ttl' = ttl - 1
        /\ ~(ttl > 1) => holder' = None /\ ttl' = 0
    BY <1>2 DEF Tick
  <2> QED BY <2>1
<1>3. ASSUME NEW c \in Calls, SetNX(c) \/ SetNXReplyLost(c) PROVE KeyHasTtl'
  BY <1>3 DEF SetNX, SetNXReplyLost
<1>4. ASSUME NEW c \in Calls, CallerStep(c) \/ DeleteError(c) PROVE KeyHasTtl'
  BY <1>4 DEF CallerStep, StartWatchDog, StopWatchDog, Delete, DeleteError
<1>5. ASSUME NEW c \in Calls, WatchDogStep(c) \/ RenewError(c) PROVE KeyHasTtl'
  BY <1>5 DEF WatchDogStep, Fire, Renew, Exit, RenewError
<1> QED BY <1>1, <1>2, <1>3, <1>4, <1>5 DEF Next

LEMMA NextGuarded == IndInv /\ [Next]_vars => HoldersGuarded'
<1> SUFFICES ASSUME IndInv, [Next]_vars, errors' = 0, ~late', NEW d \in Calls
             PROVE  /\ pc'[d] = "granted" => holder' = d /\ ttl' = Ttl
                    /\ pc'[d] = "inside" => Guarded(d)'
  BY DEF HoldersGuarded, Guarded
<1> DEFINE Goal == /\ pc'[d] = "granted" => holder' = d /\ ttl' = Ttl
                   /\ pc'[d] = "inside" => Guarded(d)'
<1>0. /\ TypeOK /\ MapEntryInside /\ FreshCalls
      /\ errors = 0 /\ ~late
  <2>1. errors \in Nat /\ (errors' = errors \/ errors' = errors + 1)
    BY DEF IndInv, TypeOK, Next, vars, Tick, SetNX, CallerStep, StartWatchDog, StopWatchDog, Delete,
           WatchDogStep, Fire, Renew, Exit, SetNXReplyLost, DeleteError, RenewError, Fails
  <2>2. late => late'
    BY DEF Next, vars, Tick, SetNX, CallerStep, StartWatchDog, StopWatchDog, Delete,
           WatchDogStep, Fire, Renew, Exit, SetNXReplyLost, DeleteError, RenewError
  <2> QED BY <2>1, <2>2 DEF IndInv
<1>1. \A c \in Calls : /\ pc[c] = "granted" => holder = c /\ ttl = Ttl
                       /\ pc[c] = "inside" => Guarded(c)
  BY <1>0 DEF IndInv, HoldersGuarded
<1> USE DEF TypeOK, Guarded, keyVars, dogVars, Cancel, Enter, DogAt
<1>2. ASSUME UNCHANGED vars PROVE Goal
  BY <1>1, <1>2 DEF vars
<1>3. ASSUME Tick PROVE Goal
  <2>1. ~Due
    BY <1>3, Zenon DEF Tick
  <2>2. pc' = pc /\ entry' = entry /\ cancelled' = cancelled /\ dog' = dog
    BY <1>3 DEF Tick
  <2>3. pc[d] # "granted"
    BY <2>1 DEF Due
  <2>4. ASSUME pc[d] = "inside" PROVE Guarded(d)'
    <3>1. dog[d] = "waiting" /\ timer[d] \in Nat /\ timer[d] > 0
      BY <1>0, <1>1, <2>1, <2>4 DEF Due
    <3>2. ttl >= timer[d] + (Ttl - Half)
      BY <1>1, <2>4, <3>1
    <3>3. timer'[d] = timer[d] - 1 /\ ttl' = ttl - 1 /\ holder' = holder
      BY <1>0, <1>3, <3>1, <3>2 DEF Tick
    <3> QED BY <1>0, <1>1, <2>2, <2>4, <3>1, <3>2, <3>3
  <2> QED BY <2>2, <2>3, <2>4
<1>4. ASSUME NEW c \in Calls, SetNX(c) PROVE Goal
  BY <1>0, <1>1, <1>4 DEF SetNX
<1>5. ASSUME NEW c \in Calls, SetNXReplyLost(c) \/ DeleteError(c) \/ RenewError(c) PROVE Goal
  BY <1>0, <1>5 DEF SetNXReplyLost, DeleteError, RenewError, Fails
<1>6. ASSUME NEW c \in Calls, StartWatchDog(c) PROVE Goal
  BY <1>0, <1>1, <1>6 DEF StartWatchDog, MapEntryInside, FreshCalls
<1>7. ASSUME NEW c \in Calls, StopWatchDog(c) PROVE Goal
  BY <1>0, <1>1, <1>7 DEF StopWatchDog
<1>8. ASSUME NEW c \in Calls, Delete(c) PROVE Goal
  BY <1>0, <1>1, <1>8 DEF Delete
<1>9. ASSUME NEW c \in Calls, Fire(c) PROVE Goal
  BY <1>0, <1>1, <1>9 DEF Fire
<1>10. ASSUME NEW c \in Calls, Renew(c) PROVE Goal
  BY <1>0, <1>1, <1>10 DEF Renew
<1>11. ASSUME NEW c \in Calls, Exit(c) PROVE Goal
  BY <1>0, <1>1, <1>11 DEF Exit
<1> HIDE DEF Goal
<1>12. Goal
  BY <1>2, <1>3, <1>4, <1>5, <1>6, <1>7, <1>8, <1>9, <1>10, <1>11
     DEF Next, CallerStep, WatchDogStep
<1> QED BY <1>12 DEF Goal

LEMMA NextInv == IndInv /\ [Next]_vars => IndInv'
BY NextType, NextMap, NextKey, NextGuarded DEF IndInv

LEMMA Invariance == Spec => []IndInv
BY InitInv, NextInv, PTL DEF Spec

\* Every variable keeps its type.
THEOREM TypeCorrect == Spec => []TypeOK
<1>1. IndInv => TypeOK
  BY DEF IndInv
<1> QED BY Invariance, <1>1, PTL

\* The lock excludes while nothing failed and nothing was late.
THEOREM Exclusion == Spec => []MutualExclusion
<1>1. IndInv => MutualExclusion
  BY DEF IndInv, HoldersGuarded, Guarded, MutualExclusion
<1> QED BY Invariance, <1>1, PTL

\* The key is taken from its holder only by the holder's delete or by its TTL.
THEOREM KeyTaken == Spec => TakenOnlyByOwner
<1> DEFINE Taken ==
      \A c \in Calls : holder = c /\ holder' # c =>
        (pc[c] = "deleting" /\ pc'[c] = "done") \/ ttl = 1
<1>1. ASSUME TypeOK, KeyHasTtl, [Next]_vars, NEW c \in Calls, holder = c, holder' # c
      PROVE  (pc[c] = "deleting" /\ pc'[c] = "done") \/ ttl = 1
  <2> USE DEF TypeOK, keyVars, Enter
  <2>0. c # None
    OBVIOUS
  <2>1. ASSUME Tick PROVE ttl = 1
    <3>1. ~(ttl > 1) /\ ttl \in Nat
      BY <1>1, <2>1 DEF Tick
    <3>2. ttl # 0
      BY <1>1, <2>0 DEF KeyHasTtl
    <3> QED BY <3>1, <3>2
  <2>2. ASSUME NEW d \in Calls, Delete(d) \/ DeleteError(d)
        PROVE  pc[c] = "deleting" /\ pc'[c] = "done"
    BY <1>1, <2>2 DEF Delete, DeleteError
  <2>3. ASSUME NEW d \in Calls,
               \/ SetNX(d) \/ SetNXReplyLost(d) \/ StartWatchDog(d) \/ StopWatchDog(d)
               \/ Fire(d) \/ Renew(d) \/ Exit(d) \/ RenewError(d)
        PROVE  FALSE
    BY <1>1, <2>0, <2>3 DEF SetNX, SetNXReplyLost, StartWatchDog, StopWatchDog,
                            Fire, Renew, Exit, RenewError
  <2>4. ~UNCHANGED vars
    BY <1>1 DEF vars
  <2> QED BY <1>1, <2>1, <2>2, <2>3, <2>4 DEF Next, CallerStep, WatchDogStep
<1>2. IndInv /\ [Next]_vars => [Taken]_vars
  BY <1>1 DEF IndInv
<1> HIDE DEF Taken
<1>3. Spec => [][Taken]_vars
  BY Invariance, <1>2, PTL DEF Spec
<1> QED BY <1>3 DEF TakenOnlyByOwner, Taken

\* A watchdog that runs can be stopped: it is in the map or was cancelled.
THEOREM StoppableWatchDogs == Spec => []NoStrayWatchDog
<1>1. Init => NoStrayWatchDog
  BY DEF Init, NoStrayWatchDog
<1>2. ASSUME TypeOK, FreshCalls, NoStrayWatchDog, [Next]_vars PROVE NoStrayWatchDog'
  <2> USE <1>2 DEF TypeOK, FreshCalls, NoStrayWatchDog, DogStates, dogVars, Cancel, DogAt
  <2>1. CASE UNCHANGED vars \/ Tick
    BY <2>1 DEF vars, Tick
  <2>2. ASSUME NEW c \in Calls, SetNX(c) \/ SetNXReplyLost(c) \/ Delete(c) \/ DeleteError(c)
        PROVE  NoStrayWatchDog'
    BY <2>2 DEF SetNX, SetNXReplyLost, Delete, DeleteError
  <2>3. ASSUME NEW c \in Calls, StartWatchDog(c) \/ StopWatchDog(c) PROVE NoStrayWatchDog'
    BY <2>3 DEF StartWatchDog, StopWatchDog
  <2>4. ASSUME NEW c \in Calls, WatchDogStep(c) \/ RenewError(c) PROVE NoStrayWatchDog'
    BY <2>4 DEF WatchDogStep, Fire, Renew, Exit, RenewError
  <2> QED BY <2>1, <2>2, <2>3, <2>4 DEF Next, CallerStep
<1>3. IndInv => TypeOK /\ FreshCalls
  BY DEF IndInv
<1> QED BY Invariance, <1>1, <1>2, <1>3, PTL DEF Spec

\* Only the watchdog of the holder prolongs the key.
THEOREM KeyProlonged == Spec => RenewedOnlyByOwner
<1> DEFINE Prolonged ==
      \A c \in Calls : holder = c /\ holder' = c /\ ttl' > ttl => dog[c] = "renewing"
<1>1. ASSUME TypeOK, [Next]_vars, NEW c \in Calls, holder = c, holder' = c, ttl' > ttl
      PROVE  dog[c] = "renewing"
  <2> USE <1>1 DEF TypeOK, keyVars
  <2>0. c # None
    OBVIOUS
  <2>1. ASSUME Tick PROVE FALSE
    <3>1. ttl > 1 => ttl' = ttl - 1
      BY <2>1 DEF Tick
    <3>2. ttl > 1
      BY <2>0, <2>1 DEF Tick
    <3> QED BY <3>1, <3>2
  <2>2. ASSUME NEW e \in Calls, Renew(e) \/ RenewError(e) PROVE dog[c] = "renewing"
    BY <2>2 DEF Renew, RenewError
  <2>3. ASSUME NEW e \in Calls,
               \/ SetNX(e) \/ SetNXReplyLost(e) \/ StartWatchDog(e) \/ StopWatchDog(e)
               \/ Delete(e) \/ DeleteError(e) \/ Fire(e) \/ Exit(e)
        PROVE  FALSE
    BY <2>0, <2>3 DEF SetNX, SetNXReplyLost, StartWatchDog, StopWatchDog, Delete, DeleteError,
                      Fire, Exit
  <2>4. ~UNCHANGED vars
    BY DEF vars
  <2> QED BY <2>1, <2>2, <2>3, <2>4 DEF Next, CallerStep, WatchDogStep
<1>2. TypeOK /\ [Next]_vars => [Prolonged]_vars
  BY <1>1
<1> HIDE DEF Prolonged
<1>3. Spec => [][Prolonged]_vars
  BY TypeCorrect, <1>2, PTL DEF Spec
<1> QED BY <1>3 DEF RenewedOnlyByOwner, Prolonged

-----------------------------------------------------------------------------
(***************************************************************************)
(* The refinement of TokenLock.                                            *)
(***************************************************************************)
Phases == [c \in Calls |-> LockPhase(c)]

Faulty == errors > 0 \/ late

LEMMA PhaseEntered ==
  ASSUME NEW c \in Calls, NEW s, Enter(c, s), TypeOK
  PROVE  /\ \A d \in Calls : d # c => LockPhase(d)' = LockPhase(d)
         /\ LockPhase(c)' = CASE s \in {"granted", "inside"} -> "in"
                              [] s = "deleting" -> "leaving"
                              [] OTHER -> "out"
BY DEF Enter, LockPhase, TypeOK

LEMMA PhaseMoves ==
  ASSUME NEW c \in Calls, NEW p, LockPhase(c)' = p,
         \A d \in Calls : d # c => LockPhase(d)' = LockPhase(d)
  PROVE  Promise!Enter(c, p)
<1>1. Phases' = [Phases EXCEPT ![c] = p]
  <2>1. Phases' = [d \in Calls |-> LockPhase(d)']
    BY DEF Phases
  <2>2. [Phases EXCEPT ![c] = p] = [d \in Calls |-> IF d = c THEN p ELSE LockPhase(d)]
    BY DEF Phases
  <2>3. \A d \in Calls : LockPhase(d)' = IF d = c THEN p ELSE LockPhase(d)
    OBVIOUS
  <2> QED BY <2>1, <2>2, <2>3, Zenon
<1> QED BY <1>1 DEF Promise!Enter, Phases

LEMMA PhaseStays == pc' = pc => Phases' = Phases
BY DEF Phases, LockPhase

LEMMA PromiseInit == Init => Promise!Init
<1> SUFFICES ASSUME Init PROVE Promise!Init
  OBVIOUS
<1>1. LockWord = "free"
  BY DEF Init, LockWord
<1>2. \A c \in Calls : LockPhase(c) = "out"
  BY DEF Init, LockPhase
<1>3. [c \in Calls |-> LockPhase(c)] = [c \in Calls |-> "out"]
  BY <1>2, Zenon
<1>4. (errors > 0 \/ late) = FALSE
  BY DEF Init
<1> QED BY <1>1, <1>3, <1>4 DEF Promise!Init

\* A failed call stays known, so does a delay.
LEMMA FaultyRemembered == TypeOK /\ [Next]_vars => (Faulty => Faulty')
<1> SUFFICES ASSUME TypeOK, [Next]_vars PROVE Faulty => Faulty'
  OBVIOUS
<1>1. errors \in Nat /\ (errors' = errors \/ errors' = errors + 1)
  BY DEF TypeOK, Next, vars, Tick, SetNX, CallerStep, StartWatchDog, StopWatchDog, Delete,
         WatchDogStep, Fire, Renew, Exit, SetNXReplyLost, DeleteError, RenewError, Fails
<1>2. late => late'
  BY DEF Next, vars, Tick, SetNX, CallerStep, StartWatchDog, StopWatchDog, Delete,
         WatchDogStep, Fire, Renew, Exit, SetNXReplyLost, DeleteError, RenewError
<1> QED BY <1>1, <1>2 DEF Faulty

LEMMA FailureIsFaulty == TypeOK /\ Fails => Faulty'
BY DEF TypeOK, Fails, Faulty

\* The key of a call that is inside expires under it only when something failed
\* or was late.
LEMMA LapseIsFaulty ==
  ASSUME IndInv, Tick, NEW c \in Calls, LockPhase(c) = "in", holder = c, holder' # c
  PROVE  Faulty'
<1> SUFFICES ASSUME ~Faulty' PROVE FALSE
  OBVIOUS
<1>1. ~late' /\ ~(errors' > 0)
  BY DEF Faulty
<1>2. errors = 0 /\ ~late /\ ~Due
  <2>1. ~late /\ ~Due
    BY <1>1, Zenon DEF Tick
  <2>2. errors' = errors /\ errors \in Nat
    BY DEF Tick, IndInv, TypeOK
  <2> QED BY <1>1, <2>1, <2>2
<1>3. ~(ttl > 1) /\ ttl \in Nat
  BY DEF Tick, IndInv, TypeOK
<1>4. pc[c] \in {"granted", "inside"}
  BY DEF LockPhase
<1>5. pc[c] # "granted"
  BY <1>2 DEF Due
<1>6. Guarded(c)
  BY <1>2, <1>4, <1>5 DEF IndInv, HoldersGuarded
<1>7. dog[c] = "waiting" /\ timer[c] # 0 /\ timer[c] \in Nat
  BY <1>2, <1>6 DEF Guarded, Due, IndInv, TypeOK
<1>8. ttl >= timer[c] + (Ttl - Half)
  BY <1>6, <1>7 DEF Guarded
<1> QED BY <1>3, <1>7, <1>8

LEMMA PromiseStep ==
  ASSUME IndInv, [Next]_vars
  PROVE  Promise!Next \/ UNCHANGED Promise!lockVars
<1> USE DEF Promise!Remembers
<1> DEFINE Goal == Promise!Next \/ UNCHANGED Promise!lockVars
<1>0. TypeOK /\ (Faulty => Faulty')
  BY FaultyRemembered DEF IndInv
<1>1. Faulty \in BOOLEAN /\ Faulty' \in BOOLEAN
  BY DEF Faulty
\* A step that leaves the token and the phases as they are.
<1>2. ASSUME LockWord' = LockWord, Phases' = Phases PROVE Goal
  <2>1. CASE Faulty'
    BY <1>2, <2>1 DEF Promise!Next, Promise!Disturb, Phases, Faulty
  <2>2. CASE ~Faulty'
    <3>1. Faulty' = Faulty
      BY <1>0, <1>1, <2>2, Zenon
    <3> QED BY <1>2, <3>1 DEF Promise!lockVars, Phases, Faulty
  <2> QED BY <2>1, <2>2
<1>3. ASSUME holder' = holder, pc' = pc PROVE Goal
  <2>1. LockWord' = LockWord
    BY <1>3 DEF LockWord
  <2> QED BY <1>2, <1>3, <2>1, PhaseStays
<1>4. ASSUME NEW c \in Calls, SetNX(c) PROVE Goal
  <2>1. LockPhase(c) = "out" /\ LockWord = "free" /\ LockWord' = c
    BY <1>0, <1>4 DEF SetNX, Enter, LockPhase, LockWord, TypeOK
  <2>2. Promise!Enter(c, "in")
    <3>1. Enter(c, "granted")
      BY <1>4 DEF SetNX
    <3> QED BY <1>0, <3>1, PhaseEntered, PhaseMoves
  <2>3. Phases[c] = "out"
    BY <2>1 DEF Phases
  <2>4. Promise!Take(c)
    BY <1>0, <2>1, <2>2, <2>3 DEF Promise!Take, Phases, Faulty
  <2> QED BY <2>4 DEF Promise!Next
<1>5. ASSUME NEW c \in Calls, SetNXReplyLost(c) PROVE Goal
  <2>1. LockWord = "free" /\ LockWord' = "orphan"
    BY <1>0, <1>5 DEF SetNXReplyLost, Enter, LockWord, TypeOK
  <2>2. Phases' = Phases
    <3>1. Enter(c, "done") /\ pc[c] = "idle"
      BY <1>5 DEF SetNXReplyLost
    <3>2. LockPhase(c)' = LockPhase(c)
      BY <1>0, <3>1 DEF LockPhase, Enter, TypeOK
    <3>3. \A d \in Calls : LockPhase(d)' = LockPhase(d)
      BY <1>0, <3>1, <3>2, PhaseEntered
    <3> QED BY <3>3, Zenon DEF Phases
  <2>3. Faulty'
    BY <1>0, <1>5, FailureIsFaulty DEF SetNXReplyLost
  <2>4. Promise!Lose
    BY <2>1, <2>2, <2>3 DEF Promise!Lose, Phases, Faulty
  <2> QED BY <2>4 DEF Promise!Next
<1>6. ASSUME NEW c \in Calls, StartWatchDog(c) PROVE Goal
  <2>1. Enter(c, "inside") /\ pc[c] = "granted" /\ holder' = holder
    BY <1>6 DEF StartWatchDog, keyVars
  <2>2. LockWord' = LockWord
    BY <1>0, <2>1 DEF LockWord, Enter, TypeOK
  <2>3. LockPhase(c)' = LockPhase(c)
    BY <1>0, <2>1 DEF LockPhase, Enter, TypeOK
  <2>4. \A d \in Calls : LockPhase(d)' = LockPhase(d)
    BY <1>0, <2>1, <2>3, PhaseEntered
  <2>5. Phases' = Phases
    BY <2>4, Zenon DEF Phases
  <2> QED BY <1>2, <2>2, <2>5
<1>7. ASSUME NEW c \in Calls, StopWatchDog(c) PROVE Goal
  <2>1. Enter(c, "deleting") /\ pc[c] = "inside" /\ holder' = holder
    BY <1>7 DEF StopWatchDog, keyVars
  <2>2. LockWord' = LockWord
    BY <1>0, <2>1 DEF LockWord, Enter, TypeOK
  <2>3. Promise!Enter(c, "leaving")
    BY <1>0, <2>1, PhaseEntered, PhaseMoves
  <2>4. Phases[c] = "in"
    BY <2>1 DEF Phases, LockPhase
  <2>5. Promise!Leave(c)
    BY <1>0, <2>2, <2>3, <2>4 DEF Promise!Leave, Phases, Faulty
  <2> QED BY <2>5 DEF Promise!Next
<1>8. ASSUME NEW c \in Calls, Delete(c) \/ DeleteError(c) PROVE Goal
  <2>1. Enter(c, "done") /\ pc[c] = "deleting"
    BY <1>8 DEF Delete, DeleteError
  <2>2. Promise!Enter(c, "out")
    BY <1>0, <2>1, PhaseEntered, PhaseMoves
  <2>3. Phases[c] = "leaving"
    BY <2>1 DEF Phases, LockPhase
  <2>4. CASE Delete(c)
    <3>1. LockWord' = IF LockWord = c THEN "free" ELSE LockWord
      BY <1>0, <2>1, <2>4 DEF Delete, LockWord, Enter, TypeOK, keyVars
    <3>2. Promise!Return(c)
      BY <1>0, <2>2, <2>3, <3>1 DEF Promise!Return, Phases, Faulty
    <3> QED BY <3>2 DEF Promise!Next
  <2>5. CASE DeleteError(c)
    <3>1. \/ LockWord' = IF LockWord = c THEN "orphan" ELSE LockWord
          \/ LockWord' = IF LockWord = c THEN "free" ELSE LockWord
      BY <1>0, <2>1, <2>5 DEF DeleteError, LockWord, Enter, TypeOK, keyVars
    <3>2. Faulty'
      BY <1>0, <2>5, FailureIsFaulty DEF DeleteError
    <3>3. Promise!Abandon(c) \/ Promise!Return(c)
      BY <1>0, <2>2, <2>3, <3>1, <3>2 DEF Promise!Abandon, Promise!Return, Phases, Faulty
    <3> QED BY <3>3 DEF Promise!Next
  <2> QED BY <1>8, <2>4, <2>5
<1>9. ASSUME Tick PROVE Goal
  <2>1. pc' = pc /\ (holder' = holder \/ holder' = None)
    BY <1>9 DEF Tick
  <2>2. Phases' = Phases
    BY <2>1, PhaseStays
  <2>3. ASSUME holder' # holder, pc[holder] = "done" PROVE Goal
    <3>1. LockWord = "orphan" /\ LockWord' = "free"
      BY <1>0, <2>1, <2>3 DEF LockWord, TypeOK
    <3>2. Promise!Expire
      BY <1>0, <2>2, <3>1 DEF Promise!Expire, Phases, Faulty
    <3> QED BY <3>2 DEF Promise!Next
  <2>4. ASSUME holder' # holder, pc[holder] # "done" PROVE Goal
    <3>0. PICK c \in Calls : holder = c
      BY <1>0, <2>1, <2>4 DEF TypeOK
    <3>1. LockWord = c /\ LockWord' = "free"
      BY <2>1, <2>4, <3>0 DEF LockWord
    <3>2. Phases[c] = "in" => Faulty'
      BY <1>9, <2>4, <3>0, LapseIsFaulty DEF Phases
    <3>3. Promise!Lapse(c)
      BY <1>0, <2>2, <3>1, <3>2 DEF Promise!Lapse, Phases, Faulty
    <3> QED BY <3>3 DEF Promise!Next
  <2> QED BY <1>3, <2>1, <2>3, <2>4
<1>10. ASSUME NEW c \in Calls, WatchDogStep(c) \/ RenewError(c) PROVE Goal
  <2>1. holder' = holder /\ pc' = pc
    BY <1>10 DEF WatchDogStep, Fire, Renew, Exit, RenewError, keyVars
  <2> QED BY <1>3, <2>1
<1>11. ASSUME UNCHANGED vars PROVE Goal
  BY <1>3, <1>11 DEF vars, keyVars
<1> HIDE DEF Goal
<1>12. Goal
  BY <1>4, <1>5, <1>6, <1>7, <1>8, <1>9, <1>10, <1>11 DEF Next, CallerStep
<1> QED BY <1>12 DEF Goal

\* The object's key behaves like TokenLock's word: a call that got the key keeps
\* it until it deletes it, unless a Redis call failed or a goroutine was late.
THEOREM Refinement == Spec => PromiseKept
<1>1. IndInv /\ [Next]_vars => [Promise!Next]_(Promise!lockVars)
  BY PromiseStep
<1> QED BY Invariance, PromiseInit, <1>1, PTL DEF Spec, PromiseKept, Promise!Spec

(***************************************************************************)
(* TokenLock says enough: whoever knows nothing of watchdogs, TTLs and the *)
(* map, and only that the promise is kept, may rely on being alone.        *)
(***************************************************************************)
THEOREM PromiseExcludes == PromiseKept => []Promise!HoldersAreIn
<1> DEFINE Held == ~Faulty => \A c \in Calls : Phases[c] = "in" => LockWord = c
<1>1. Promise!HoldersAreIn <=> Held
  BY DEF Promise!HoldersAreIn, Phases, Faulty
<1>2. Promise!Init => Held
  BY DEF Promise!Init, Phases
<1>3. ASSUME Held, [Promise!Next]_(Promise!lockVars) PROVE Held'
  <2> SUFFICES ASSUME ~Faulty', NEW c \in Calls, Phases'[c] = "in" PROVE LockWord' = c
    OBVIOUS
  <2>0. "free" \notin Calls /\ "orphan" \notin Calls
    OBVIOUS
  <2>1. ASSUME NEW d \in Calls, NEW p, Promise!Enter(d, p)
        PROVE  IF c = d THEN p = "in" ELSE Phases[c] = "in"
    <3>1. Phases' = [Phases EXCEPT ![d] = p]
      BY <2>1 DEF Promise!Enter, Phases
    <3>2. c = d => [Phases EXCEPT ![d] = p][c] = p
      BY DEF Phases
    <3>3. c # d => [Phases EXCEPT ![d] = p][c] = Phases[c]
      BY DEF Phases
    <3>4. [Phases EXCEPT ![d] = p][c] = "in"
      BY <3>1, Zenon
    <3>5. CASE c = d
      BY <3>2, <3>4, <3>5
    <3>6. CASE c # d
      BY <3>3, <3>4, <3>6
    <3> QED BY <3>5, <3>6
  \* As long as no fault is known, who is in and has not just entered has the token.
  <2>2. ASSUME Promise!Remembers, Phases[c] = "in" PROVE LockWord = c
    BY <1>3, <2>2 DEF Promise!Remembers, Faulty
  <2>3. ASSUME Phases' = Phases PROVE Phases[c] = "in"
    BY <2>3
  <2>4. ASSUME NEW d \in Calls, Promise!Take(d) PROVE LockWord' = c
    <3>1. Promise!Enter(d, "in") /\ LockWord' = d /\ LockWord = "free" /\ Promise!Remembers
      BY <2>4 DEF Promise!Take
    <3> QED BY <2>0, <2>1, <2>2, <3>1
  <2>5. ASSUME NEW d \in Calls, Promise!Leave(d) PROVE LockWord' = c
    <3>1. Promise!Enter(d, "leaving") /\ LockWord' = LockWord /\ Promise!Remembers
      BY <2>5 DEF Promise!Leave
    <3> QED BY <2>1, <2>2, <3>1
  <2>6. ASSUME NEW d \in Calls, Promise!Return(d) PROVE LockWord' = c
    <3>1. /\ Promise!Enter(d, "out") /\ Promise!Remembers
          /\ LockWord' = IF LockWord = d THEN "free" ELSE LockWord
      BY <2>6 DEF Promise!Return
    <3> QED BY <2>1, <2>2, <3>1
  <2>7. ASSUME NEW d \in Calls, Promise!Abandon(d) PROVE LockWord' = c
    BY <2>7 DEF Promise!Abandon, Faulty
  <2>8. ASSUME NEW d \in Calls, Promise!Lapse(d) PROVE LockWord' = c
    <3>1. /\ LockWord = d /\ Phases' = Phases /\ Promise!Remembers
          /\ Phases[d] = "in" => Faulty'
      BY <2>8 DEF Promise!Lapse, Phases, Faulty
    <3> QED BY <2>2, <2>3, <3>1
  <2>9. ASSUME Promise!Lose \/ Promise!Disturb PROVE LockWord' = c
    BY <2>9 DEF Promise!Lose, Promise!Disturb, Faulty
  <2>10. ASSUME Promise!Expire PROVE LockWord' = c
    <3>1. LockWord = "orphan" /\ Phases' = Phases /\ Promise!Remembers
      BY <2>10 DEF Promise!Expire, Phases
    <3> QED BY <2>0, <2>2, <2>3, <3>1
  <2>11. ASSUME Promise!Restart PROVE LockWord' = c
    <3>1. Phases' = [d \in Calls |-> "out"]
      BY <2>11 DEF Promise!Restart, Phases
    <3> QED BY <3>1
  <2>12. ASSUME UNCHANGED Promise!lockVars PROVE LockWord' = c
    <3>1. LockWord' = LockWord /\ Phases' = Phases /\ Faulty' = Faulty
      BY <2>12 DEF Promise!lockVars, Phases, Faulty
    <3> QED BY <1>3, <3>1
  <2> QED
    BY <1>3, <2>4, <2>5, <2>6, <2>7, <2>8, <2>9, <2>10, <2>11, <2>12 DEF Promise!Next
<1> HIDE DEF Held
<1> QED BY <1>1, <1>2, <1>3, PTL DEF PromiseKept, Promise!Spec

=============================================================================
