-------------------------- MODULE MCDistributedLock --------------------------
(***************************************************************************)
(* Instances of DistributedLock for TLC.                                   *)
(***************************************************************************)
EXTENDS DistributedLock, TLC

CONSTANTS a, b, d

Symmetry == Permutations({a, b, d})

=============================================================================
