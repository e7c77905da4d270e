------------------------------- MODULE Clock --------------------------------
(***************************************************************************)
(* time.Now() as the services read it, in ticks of the module that uses it.*)
(***************************************************************************)
EXTENDS Calls

CONSTANTS
  StartTime,
  MaxTime     \* bound: the last instant

ASSUME ClockAssumption == StartTime \in Nat /\ MaxTime \in Nat /\ StartTime <= MaxTime

VARIABLE now

ClockInit == now = StartTime

Tick == now < MaxTime /\ now' = now + 1 /\ NoFault

ClockTypeOK == now \in StartTime..MaxTime

=============================================================================
