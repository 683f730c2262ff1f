--------------------------- MODULE InstanceHandles ---------------------------
(***************************************************************************)
(* What the native instance manager promises to its callers, without locks,*)
(* slots or numbers: an instance is used by at most one thread at a time,  *)
(* only while it is open; closing lets the use in progress end; it is then *)
(* destroyed, once, and never used again.  ToxInstances.h calls the first  *)
(* three conditions of an object LIVE, (being moved out) and DEAD.         *)
(***************************************************************************)
CONSTANTS
  Users,
  Handles,
  Nobody   \* not a user

VARIABLES
  status,   \* of each instance: "absent", "open", "closing" or "closed"
  user      \* of each instance: the thread running an operation on it

svars == <<status, user>>

HInit ==
  /\ status = [h \in Handles |-> "absent"]
  /\ user = [h \in Handles |-> Nobody]

Move(h, from, to) ==
  /\ status[h] = from
  /\ status' = [status EXCEPT ![h] = to]

\* add
Open(h) == Move(h, "absent", "open") /\ UNCHANGED user

\* with_instance, when it does not throw
Begin(t, h) ==
  /\ status[h] = "open" /\ user[h] = Nobody
  /\ \A k \in Handles : user[k] # t
  /\ user' = [user EXCEPT ![h] = t]
  /\ UNCHANGED status

End(t, h) ==
  /\ user[h] = t
  /\ user' = [user EXCEPT ![h] = Nobody]
  /\ UNCHANGED status

\* kill, or the finalization of an instance never closed
Shut(h) == Move(h, "open", "closing") /\ UNCHANGED user

Destroyed(h) ==
  /\ user[h] = Nobody
  /\ Move(h, "closing", "closed")
  /\ UNCHANGED user

HNext ==
  \/ \E h \in Handles : Open(h) \/ Shut(h) \/ Destroyed(h)
  \/ \E t \in Users, h \in Handles : Begin(t, h) \/ End(t, h)

HSafe == HInit /\ [][HNext]_svars

\* An operation that began ends, and what is closing gets destroyed.
HFairness ==
  \A h \in Handles :
    /\ WF_svars(Destroyed(h))
    /\ \A t \in Users : WF_svars(End(t, h))

HSpec == HSafe /\ HFairness
=============================================================================
