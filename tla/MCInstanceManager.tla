-------------------------- MODULE MCInstanceManager --------------------------
(***************************************************************************)
(* Model-checking instance of InstanceManager: the objects and the threads *)
(* are interchangeable.                                                    *)
(***************************************************************************)
EXTENDS InstanceManager, TLC

Symmetry == Permutations(Threads) \cup Permutations(Handles)
=============================================================================
