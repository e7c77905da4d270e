-------------------------- MODULE MCVoucherPublish --------------------------
(***************************************************************************)
(* Instances of VoucherPublish for TLC.                                    *)
(***************************************************************************)
EXTENDS VoucherPublish, TLC

CONSTANTS u1, u2, u3

Symmetry == Permutations({u1, u2, u3})

=============================================================================
