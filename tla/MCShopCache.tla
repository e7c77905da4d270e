---------------------------- MODULE MCShopCache -----------------------------
(***************************************************************************)
(* Instances of ShopCache for TLC.                                         *)
(***************************************************************************)
EXTENDS ShopCache

=============================================================================
