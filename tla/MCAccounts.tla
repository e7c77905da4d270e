----------------------------- MODULE MCAccounts -----------------------------
(***************************************************************************)
(* An instance of Accounts for TLC.                                        *)
(***************************************************************************)
EXTENDS Accounts, TLC

MCIdDay(t) == t \div 2

Symmetry == Permutations(Clients) \cup Permutations(Phones)

=============================================================================
