------------------------- MODULE InstanceRefinement -------------------------
(***************************************************************************)
(* The instance manager implements InstanceHandles.                        *)
(*                                                                         *)
(* An instance is open while a slot holds it, closing from the moment kill *)
(* or finalize moves it out, closed once its memory is freed.  Its user is *)
(* the thread that is past with_instance's wait for the instance.          *)
(***************************************************************************)
EXTENDS InstanceManager

StatusOf(h) ==
  CASE native[h] = "freed"                        -> "closed"
    [] native[h] = "live" /\ InSlot(h)            -> "open"
    [] native[h] = "live" /\ heap[h] # "building"
         /\ ~InSlot(h)                            -> "closing"
    [] OTHER                                      -> "absent"

Runs(t, h) == pc[t] \in {"use-locked", "run"} /\ raw[t] = h

UserOf(h) ==
  IF \E t \in Threads : Runs(t, h) THEN CHOOSE t \in Threads : Runs(t, h) ELSE None

Abstract == INSTANCE InstanceHandles WITH
  Users  <- Threads,
  Nobody <- None,
  status <- [h \in Handles |-> StatusOf(h)],
  user   <- [h \in Handles |-> UserOf(h)]

\* Every step of the manager, with its two kinds of mutex, its slots and its
\* freelist, is a step of InstanceHandles or invisible there, and what has
\* begun or is closing is completed.
ImplementsHandles == Abstract!HSpec
=============================================================================
