---------------------------- MODULE MCCatalogue -----------------------------
(***************************************************************************)
(* An instance of Catalogue for TLC.  The hashes are a small table for     *)
(* eleven bits in two bytes, with values above the array's size.           *)
(***************************************************************************)
EXTENDS Catalogue

MCKeys       == {"a", "b"}
MCHash(k, i) == (IF k = "a" THEN 7 ELSE 14) + 6 * i

=============================================================================
