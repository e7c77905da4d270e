------------------------------ MODULE Accounts ------------------------------
(***************************************************************************)
(* Sessions and order ids, on one clock and in one process.                *)
(***************************************************************************)
EXTENDS Session, OrderIds

accountsVars == <<sessionVars, idVars, now, callVars>>

Init == SessionInit /\ IdInit /\ ClockInit /\ CallsInit

Crash == Restart /\ SessionCrash /\ IdCrash

Next ==
  \/ SessionNext /\ UNCHANGED idVars
  \/ IdNext      /\ UNCHANGED sessionVars
  \/ Tick        /\ UNCHANGED <<sessionVars, idVars>>
  \/ Crash

Spec == Init /\ [][Next]_accountsVars

TypeOK == SessionTypeOK /\ IdTypeOK /\ ClockTypeOK /\ CallsTypeOK

=============================================================================
