---------------------------- MODULE MCLockScope -----------------------------
(***************************************************************************)
(* Instances of LockScope: scopes nested twice, as pop nests swap.         *)
(***************************************************************************)
EXTENDS LockScope, TLC

Symmetry == Permutations(Thread)
=============================================================================
