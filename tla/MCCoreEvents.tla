----------------------------- MODULE MCCoreEvents -----------------------------
(***************************************************************************)
(* CoreEvents for TLC: nothing tells the threads apart.                    *)
(***************************************************************************)
EXTENDS CoreEvents, TLC

Symmetry == Permutations(Threads)
=============================================================================
