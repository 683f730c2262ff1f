--------------------------- MODULE MCFileTransfers ---------------------------
(* Values of the constants of FileTransfers for model checking. *)
EXTENDS FileRefinement

CONSTANTS alice, bob

\* Alice sends two files one after the other, Bob one.
TwoAndOne == (alice :> 2 @@ bob :> 1)

\* Only Alice sends.
OneSender == (alice :> 2 @@ bob :> 0)
=============================================================================
