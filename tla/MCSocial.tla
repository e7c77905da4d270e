------------------------------ MODULE MCSocial ------------------------------
(***************************************************************************)
(* An instance of Social for TLC.                                          *)
(***************************************************************************)
EXTENDS Social, TLC

Symmetry == Permutations(Clients) \cup Permutations(Users)

=============================================================================
