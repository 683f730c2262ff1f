------------------------------ MODULE CoreEvents ------------------------------
(***************************************************************************)
(* Events of a core: in tox_iteration toxcore calls the functions of       *)
(* new_Tox::CB, these the callbacks of ToxCore/lifecycle.cpp, which append *)
(* to the CoreEvents message.  toxIteration takes the message, under the   *)
(* lock of the instance, and ToxCoreImpl.iteration() hands its events to   *)
(* the client's callbacks, without any lock.                               *)
(***************************************************************************)
EXTENDS Naturals, Sequences, FiniteSets, Functions

CONSTANTS
  Threads,        \* of the client, any of them may iterate
  Occurring,      \* the calls toxcore makes, see EventType
  MaxArrivals,    \* bound: such calls in one iteration
  MaxIterations,  \* bound: iterations
  None

\* The lists of the message in the order in which iteration() goes through them.
DispatchOrder == <<
  "connectionStatus", "friendName", "friendStatusMessage", "friendStatus",
  "friendConnectionStatus", "friendTyping", "readReceipt", "friendRequest",
  "friendMessage", "friendAction", "fileControl", "fileRequestChunk", "fileReceive",
  "fileReceiveChunk", "friendLossyPacket", "friendLosslessPacket">>

Types   == Range(DispatchOrder)
Rank(y) == CHOOSE i \in DOMAIN DispatchOrder : DispatchOrder[i] = y

\* new_Tox::CB: toxcore's callbacks and the event each becomes.  file_control is an
\* event of either kind, see FileTransfers; here it tells of the end of a file.
EventType ==
  [friend_request |-> "friendRequest", friend_message |-> "friendMessage",
   friend_action |-> "friendAction", name_change |-> "friendName",
   status_message |-> "friendStatusMessage", user_status |-> "friendStatus",
   typing_change |-> "friendTyping", read_receipt |-> "readReceipt",
   connection_status |-> "friendConnectionStatus", file_send_request |-> "fileReceive",
   file_control |-> "fileRequestChunk", file_data |-> "fileReceiveChunk",
   lossy_packet |-> "friendLossyPacket", lossless_packet |-> "friendLosslessPacket"]

ASSUME CoreEventsAssumption ==
  /\ Occurring \subseteq DOMAIN EventType
  /\ MaxArrivals \in Nat /\ MaxIterations \in Nat
  /\ None \notin Types \cup Threads

VARIABLES
  inside,      \* the thread in toxIteration, which holds the lock of the instance
  connected,   \* new_Tox::connected, what tox_isconnected said last
  events,      \* the CoreEvents message, a list for each type
  todo,        \* of each thread, the lists its iteration() has still to hand out
  loop,        \* of each thread, the type whose loop it is in, None between loops
  callbacks,   \* types for which the client has set a callback
  handed,      \* history: the events handed to callbacks
  skipped,     \* history: events without callback
  lost,        \* history: events an exception left behind
  happened,    \* history: the events of all messages taken
  iterations,
  overlapped   \* history: an iteration began before another was through

history == <<handed, skipped, lost, happened, iterations, overlapped>>
vars == <<inside, connected, events, todo, loop, callbacks, history>>

\* Faulty: the newest event of a type comes first.
AddEventFirst(es, y, status) ==
  [es EXCEPT ![y] = <<[type |-> y, iteration |-> iterations, nth |-> Len(es[y]) + 1,
                       status |-> status]>> \o es[y]]

\* events.add_...() and the assignments to the new event's fields; status stands
\* for all of these.
AddEvent(es, y, status) ==
  [es EXCEPT ![y] = Append(es[y], [type |-> y, iteration |-> iterations,
                                   nth |-> Len(es[y]) + 1, status |-> status])]

\* Faulty: reports that there is a connection, never that it is lost.
ConnectionUpOnly(es, up) ==
  IF up /\ ~connected THEN AddEvent(es, "connectionStatus", up) ELSE es

\* The part of new_tox_iteration after tox_do.
Connection(es, up) ==
  IF up # connected THEN AddEvent(es, "connectionStatus", up) ELSE es

\* A message without events, and the events of a message.
Empty == [y \in Types |-> << >>]
Content(es) == UNION {Range(es[y]) : y \in Types}

\* Faulty: the message keeps what was taken.
Kept(es) == es

Cleared(es) == Empty

Init ==
  /\ inside = None
  /\ connected = FALSE
  /\ events = Empty
  /\ todo = [t \in Threads |-> Empty]
  /\ loop = [t \in Threads |-> None]
  /\ callbacks \in {{}, Types}
  /\ handed = << >> /\ skipped = {} /\ lost = {} /\ happened = {}
  /\ iterations = 0
  /\ overlapped = FALSE

Idle(t) == inside # t /\ todo[t] = Empty

\* toxIteration has found the instance and taken its lock.
Begin(t) ==
  /\ Idle(t) /\ inside = None /\ iterations < MaxIterations
  /\ inside' = t
  /\ iterations' = iterations + 1
  /\ overlapped' = (overlapped \/ \E u \in Threads : ~Idle(u))
  /\ UNCHANGED <<connected, events, todo, loop, callbacks, handed, skipped, lost, happened>>

\* In tox_do: toxcore calls one of its callbacks.
Arrive(t) ==
  /\ inside = t
  /\ Cardinality(Content(events)) < MaxArrivals
  /\ \E call \in Occurring :
       events' = AddEvent(events, EventType[call], FALSE)
  /\ UNCHANGED <<inside, connected, todo, loop, callbacks, history>>

\* After tox_do: the connection status, and the message, serialized and parsed, is
\* what iteration() will hand out.  The lock is given up.
End(t) ==
  /\ inside = t
  /\ \E up \in BOOLEAN :
       LET message == Connection(events, up)
       IN /\ todo' = [todo EXCEPT ![t] = message]
          /\ events' = Cleared(message)
          /\ happened' = happened \cup Content(message)
          /\ connected' = up
  /\ inside' = None
  /\ UNCHANGED <<loop, callbacks, handed, skipped, lost, iterations, overlapped>>

\* The test for null before the loop over the events of a type, the first there are
\* events of.
Enter(t) ==
  /\ loop[t] = None
  /\ \E y \in Types :
       /\ todo[t][y] # << >>
       /\ \A z \in Types : Rank(z) < Rank(y) => todo[t][z] = << >>
       /\ \/ /\ y \in callbacks
             /\ loop' = [loop EXCEPT ![t] = y]
             /\ UNCHANGED <<todo, skipped>>
          \/ /\ y \notin callbacks
             /\ todo' = [todo EXCEPT ![t][y] = << >>]
             /\ skipped' = skipped \cup Range(todo[t][y])
             /\ UNCHANGED loop
  /\ UNCHANGED <<inside, connected, events, callbacks, handed, lost, happened, iterations,
                 overlapped>>

\* A call of the callback.  The field is read again for each event.
Hand(t) ==
  /\ loop[t] \in callbacks
  /\ LET list == todo[t][loop[t]]
     IN /\ handed' = Append(handed, Head(list))
        /\ todo' = [todo EXCEPT ![t][loop[t]] = Tail(list)]
        /\ loop' = [loop EXCEPT ![t] = IF Tail(list) = << >> THEN None ELSE loop[t]]
  /\ UNCHANGED <<inside, connected, events, callbacks, skipped, lost, happened, iterations,
                 overlapped>>

\* An exception leaves iteration(): what it has not handed out is gone.
Abandon(t) ==
  /\ todo' = [todo EXCEPT ![t] = Empty]
  /\ loop' = [loop EXCEPT ![t] = None]
  /\ UNCHANGED <<inside, connected, events, callbacks, skipped, happened, iterations,
                 overlapped>>

\* The callback throws.
HandThrows(t) ==
  /\ loop[t] \in callbacks
  /\ LET e == Head(todo[t][loop[t]])
     IN handed' = Append(handed, e) /\ lost' = lost \cup (Content(todo[t]) \ {e})
  /\ Abandon(t)

\* The callback was taken away after the test: a NullPointerException.
HandToNull(t) ==
  /\ loop[t] \in Types \ callbacks
  /\ lost' = lost \cup Content(todo[t])
  /\ UNCHANGED handed
  /\ Abandon(t)

\* callback...(), by any thread at any time, also from within a callback.
SetCallback ==
  /\ \E y \in {EventType[call] : call \in Occurring} \cup {"connectionStatus"} :
       \/ callbacks' = callbacks \ {y}
       \/ callbacks' = callbacks \cup {y}
  /\ UNCHANGED <<inside, connected, events, todo, loop, history>>

Next ==
  \/ \E t \in Threads : \/ Begin(t) \/ Arrive(t) \/ End(t)
                        \/ Enter(t) \/ Hand(t) \/ HandThrows(t) \/ HandToNull(t)
  \/ SetCallback

Spec == Init /\ [][Next]_vars

-----------------------------------------------------------------------------
Events == [type : Types, iteration : 1..MaxIterations, nth : Nat \ {0}, status : BOOLEAN]

TypeOK ==
  /\ inside \in Threads \cup {None}
  /\ connected \in BOOLEAN /\ overlapped \in BOOLEAN
  /\ events \in [Types -> Seq(Events)]
  /\ inside = None => events = Empty
  /\ todo \in [Threads -> [Types -> Seq(Events)]]
  /\ loop \in [Threads -> Types \cup {None}]
  /\ callbacks \subseteq Types
  /\ handed \in Seq(Events)
  /\ skipped \subseteq Events /\ lost \subseteq Events /\ happened \subseteq Events
  /\ iterations \in 0..MaxIterations

Before(d, e) ==
  \/ d.iteration < e.iteration
  \/ d.iteration = e.iteration /\ Rank(d.type) < Rank(e.type)
  \/ d.iteration = e.iteration /\ d.type = e.type /\ d.nth < e.nth

\* Where event e is or has ended up.
WaitsAt(e)  == UNION {{t} \X {i \in DOMAIN todo[t][e.type] : todo[t][e.type][i] = e} :
                      t \in Threads}
HandedAt(e) == {i \in DOMAIN handed : handed[i] = e}
Places(e) ==
       {"todo"} \X WaitsAt(e)
  \cup {"handed"} \X HandedAt(e)
  \cup {"skipped"} \X (skipped \cap {e})
  \cup {"lost"} \X (lost \cap {e})

(***************************************************************************)
(* No event is lost on the way or comes twice: each is waiting in one      *)
(* thread, was handed to a callback once, or was left out because there    *)
(* was no callback or an exception, whichever threads iterate.             *)
(***************************************************************************)
Conserved == \A e \in happened : \E p \in Places(e) : Places(e) = {p}

(***************************************************************************)
(* One iterating thread hands out the events of an iteration before those  *)
(* of the next, within it by type, and those of a type in the order in     *)
(* which they occurred.                                                    *)
(***************************************************************************)
HandedInOrder ==
  ~overlapped => \A i, j \in DOMAIN handed : i < j => Before(handed[i], handed[j])

\* The last connection status handed out.
IsStatus(e) == e.type = "connectionStatus"
LastStatus(i) ==
  /\ IsStatus(handed[i])
  /\ \A j \in DOMAIN handed : j > i => ~IsStatus(handed[j])

(***************************************************************************)
(* A client with a callback for it knows whether there is a connection,    *)
(* once iteration() has returned: the last connection status handed out is *)
(* the one toxcore had at the last iteration.                              *)
(***************************************************************************)
ClientKnowsConnection ==
  ( /\ ~overlapped
    /\ \A t \in Threads : Idle(t)
    /\ \A e \in skipped \cup lost : ~IsStatus(e) )
  => connected = \E i \in DOMAIN handed : LastStatus(i) /\ handed[i].status
=============================================================================
