------------------------------- MODULE MCHooks -------------------------------
(***************************************************************************)
(* Instances of Hooks for TLC: the addresses are model values that may be  *)
(* permuted, as no step depends on which address malloc() returns.         *)
(***************************************************************************)
EXTENDS Hooks, TLC

Symmetry == Permutations(Hooks)
=============================================================================
