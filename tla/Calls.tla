------------------------------- MODULE Calls --------------------------------
(***************************************************************************)
(* What the services have in common: requests that run in a goroutine each *)
(* and calls to Redis and MySQL that may fail, executed or not.  Modules   *)
(* that are composed share these three bounds.                             *)
(***************************************************************************)
EXTENDS Integers

CONSTANTS
  Clients,     \* goroutines that serve requests
  MaxRequests, \* bound: requests
  MaxFaults,   \* bound: calls that fail
  MaxCrashes   \* bound: restarts of the process

ASSUME CallsAssumption == {MaxRequests, MaxFaults, MaxCrashes} \subseteq Nat

VARIABLES requests, faults, crashes

callVars == <<requests, faults, crashes>>

CallsInit == requests = 0 /\ faults = 0 /\ crashes = 0

Arrive == requests < MaxRequests /\ requests' = requests + 1 /\ UNCHANGED <<faults, crashes>>

NoFault == UNCHANGED callVars

Fault == faults < MaxFaults /\ faults' = faults + 1 /\ UNCHANGED <<requests, crashes>>

Restart == crashes < MaxCrashes /\ crashes' = crashes + 1 /\ UNCHANGED <<requests, faults>>

CallsTypeOK ==
  requests \in 0..MaxRequests /\ faults \in 0..MaxFaults /\ crashes \in 0..MaxCrashes

=============================================================================
