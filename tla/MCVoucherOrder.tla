--------------------------- MODULE MCVoucherOrder ---------------------------
(***************************************************************************)
(* Instances of VoucherOrder for TLC.                                      *)
(***************************************************************************)
EXTENDS VoucherOrder, TLC

CONSTANTS u1, u2, v1, v2

MCUsers    == {u1, u2}
MCVouchers == {v1, v2}

\* v1 sells out, v2 does not: both customers can want the last piece of v1,
\* and a customer can have one message of each voucher.
MCStock == v1 :> 1 @@ v2 :> 2

Symmetry == Permutations({u1, u2})

=============================================================================
