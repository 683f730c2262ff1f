----------------------------- MODULE MCCoreCalls -----------------------------
(***************************************************************************)
(* CoreCalls for TLC: nothing tells the keys of friends apart.             *)
(***************************************************************************)
EXTENDS CoreCalls

Symmetry == Permutations(Keys)
=============================================================================
