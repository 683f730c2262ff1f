--------------------------- MODULE CoreEventsProofs ---------------------------
(***************************************************************************)
(* Proofs about CoreEvents, for any threads, calls and bounds: its types,  *)
(* that no event is lost or handed out twice, and, with iterations that do *)
(* not overlap, the order of events and what the client knows of the       *)
(* connection.                                                             *)
(***************************************************************************)
EXTENDS CoreEvents, TLAPS

-----------------------------------------------------------------------------
(* The types of events.                                                    *)

\* A rank leads back to its type, so that no two types share one, and the connection
\* status comes first.
LEMMA RankOrders ==
  /\ "connectionStatus" \in Types
  /\ \A y \in Types : Rank(y) \in Nat /\ Rank("connectionStatus") <= Rank(y)
  /\ \A y, z \in Types : Rank(y) = Rank(z) => y = z
<1>1. DOMAIN DispatchOrder = 1..16 /\ DispatchOrder[1] = "connectionStatus"
  BY DEF DispatchOrder
<1>2. ASSUME NEW y \in Types
      PROVE  Rank(y) \in 1..16 /\ DispatchOrder[Rank(y)] = y
  <2>1. \E i \in DOMAIN DispatchOrder : DispatchOrder[i] = y
    BY DEF Types, Range
  <2>. QED  BY <2>1, <1>1 DEF Rank
<1>3. "connectionStatus" \in Types
  BY <1>1 DEF Types, Range
<1>4. ASSUME NEW i \in 1..16, DispatchOrder[i] = "connectionStatus"  PROVE i = 1
  BY <1>4 DEF DispatchOrder
<1>5. Rank("connectionStatus") = 1
  BY <1>2, <1>3, <1>4
<1>. QED  BY <1>2, <1>3, <1>5

\* toxcore's callbacks make events of the other types.
LEMMA EventTypes ==
  ASSUME NEW call \in Occurring
  PROVE  EventType[call] \in Types /\ EventType[call] # "connectionStatus"
<1>1. call \in DOMAIN EventType
  BY CoreEventsAssumption
<1>2. \E i \in 2..16 : EventType[call] = DispatchOrder[i]
  <2>. DEFINE D == DispatchOrder
  <2>1. /\ D[2] = "friendName" /\ D[3] = "friendStatusMessage" /\ D[4] = "friendStatus"
        /\ D[5] = "friendConnectionStatus" /\ D[6] = "friendTyping" /\ D[7] = "readReceipt"
        /\ D[8] = "friendRequest" /\ D[9] = "friendMessage" /\ D[10] = "friendAction"
        /\ D[12] = "fileRequestChunk" /\ D[13] = "fileReceive"
        /\ D[14] = "fileReceiveChunk" /\ D[15] = "friendLossyPacket"
        /\ D[16] = "friendLosslessPacket"
    BY DEF DispatchOrder
  <2>. HIDE DEF D
  <2>2. \E i \in 2..16 : EventType[call] = D[i]
    BY <1>1, <2>1 DEF EventType
  <2>. QED  BY <2>2 DEF D
<1>3. ASSUME NEW i \in 2..16
      PROVE  DispatchOrder[i] \in Types /\ DispatchOrder[i] # "connectionStatus"
  <2>1. DOMAIN DispatchOrder = 1..16
    BY DEF DispatchOrder
  <2>2. DispatchOrder[i] # "connectionStatus"
    BY DEF DispatchOrder
  <2>. QED  BY <2>1, <2>2 DEF Types, Range
<1>. QED  BY <1>2, <1>3

-----------------------------------------------------------------------------
(* Messages.                                                               *)

Messages == [Types -> Seq(Events)]

\* The list of a type has events of that type, in the order in which they occurred, and
\* that of the connection status has one at most.
Listed(es) ==
  /\ \A y \in Types : \A i \in DOMAIN es[y] :
       /\ es[y][i].type = y
       /\ \A j \in DOMAIN es[y] : i < j => es[y][i].nth < es[y][j].nth
  /\ Len(es["connectionStatus"]) <= 1

LEMMA AppendOne ==
  ASSUME NEW s \in Seq(Events), NEW e
  PROVE  /\ Append(s, e)[Len(s) + 1] = e
         /\ \A i \in DOMAIN Append(s, e) : i \in DOMAIN s \/ i = Len(s) + 1
         /\ \A i \in DOMAIN s : Append(s, e)[i] = s[i]
OBVIOUS

LEMMA InMessage ==
  ASSUME NEW es \in Messages, NEW e
  PROVE  e \in Content(es) <=> \E y \in Types : \E i \in DOMAIN es[y] : e = es[y][i]
BY DEF Content, Range

\* In a message, an event is in the list of its type, once.
LEMMA InItsList ==
  ASSUME NEW es \in Messages, Listed(es), NEW e \in Content(es)
  PROVE  /\ e \in Events
         /\ \E i \in DOMAIN es[e.type] :
              es[e.type][i] = e /\ \A j \in DOMAIN es[e.type] : es[e.type][j] = e => j = i
<1>1. PICK y \in Types : \E i \in DOMAIN es[y] : e = es[y][i]
  BY InMessage
<1>2. PICK i \in DOMAIN es[y] : e = es[y][i]
  BY <1>1
<1>3. es[y] \in Seq(Events)
  BY DEF Messages
<1>4. e \in Events /\ e.type = y
  BY <1>2, <1>3 DEF Listed
<1>5. ASSUME NEW j \in DOMAIN es[y], es[y][j] = e  PROVE j = i
  <2>1. i \in Nat /\ j \in Nat /\ e.nth \in Nat
    <3>1. DOMAIN es[y] = 1..Len(es[y]) /\ Len(es[y]) \in Nat
      BY ONLY <1>3
    <3>2. i \in Nat /\ j \in Nat
      BY <3>1
    <3>3. e.nth \in Nat
      BY <1>4 DEF Events
    <3>. QED  BY <3>2, <3>3
  <2>2. /\ i < j => es[y][i].nth < es[y][j].nth
        /\ j < i => es[y][j].nth < es[y][i].nth
    BY <1>2, <1>5 DEF Listed
  <2>3. ~(e.nth < e.nth)
    BY <2>1
  <2>4. ~(i < j) /\ ~(j < i)
    BY <1>2, <1>5, <2>2, <2>3
  <2>. QED  BY <2>1, <2>4
<1>. QED  BY <1>2, <1>4, <1>5

LEMMA EmptyMessage ==
  /\ Empty \in Messages /\ Listed(Empty) /\ Content(Empty) = {}
  /\ \A es \in Messages : Content(es) = {} => es = Empty
<1>1. Empty \in Messages
  BY DEF Empty, Messages
<1>2. Listed(Empty)
  BY RankOrders DEF Empty, Listed
<1>3. Content(Empty) = {}
  BY <1>1, InMessage DEF Empty
<1>4. ASSUME NEW es \in Messages, Content(es) = {}  PROVE es = Empty
  <2>1. ASSUME NEW y \in Types  PROVE es[y] = << >>
    <3>1. es[y] \in Seq(Events)
      BY DEF Messages
    <3>2. 1 \notin DOMAIN es[y]
      BY <1>4, InMessage
    <3>. QED  BY <3>1, <3>2
  <2>. QED  BY <2>1 DEF Empty, Messages
<1>. QED  BY <1>1, <1>2, <1>3, <1>4

\* Taking the first event off a list.
LEMMA TakeFirst ==
  ASSUME NEW es \in Messages, Listed(es), NEW y \in Types, es[y] # << >>
  PROVE  LET e  == Head(es[y])
             fs == [es EXCEPT ![y] = Tail(es[y])]
         IN  /\ fs \in Messages /\ Listed(fs)
             /\ e \in Content(es) /\ e.type = y
             /\ Content(fs) = Content(es) \ {e}
             /\ \A d \in Content(fs) : d.type = y => e.nth < d.nth
<1>. DEFINE e  == Head(es[y])
            fs == [es EXCEPT ![y] = Tail(es[y])]
<1>1. /\ es[y] \in Seq(Events) /\ Tail(es[y]) \in Seq(Events)
      /\ 1 \in DOMAIN es[y] /\ e = es[y][1]
  BY DEF Messages
<1>2. /\ fs \in [Types -> Seq(Events)] /\ fs[y] = Tail(es[y])
      /\ \A z \in Types : z # y => fs[z] = es[z]
  BY <1>1 DEF Messages
<1>3. \A i \in DOMAIN fs[y] : /\ i \in Nat \ {0} /\ i + 1 \in DOMAIN es[y]
                              /\ fs[y][i] = es[y][i + 1]
  BY <1>1, <1>2
<1>4. \A i \in DOMAIN es[y] : i = 1 \/ /\ i \in Nat \ {0} /\ i - 1 \in DOMAIN fs[y]
                                       /\ fs[y][i - 1] = es[y][i]
  BY <1>1, <1>2
<1>5. e \in Content(es) /\ e.type = y
  BY <1>1, InMessage DEF Listed
<1>6. Len(fs["connectionStatus"]) <= 1
  BY <1>1, <1>2, RankOrders DEF Listed, Messages
<1>. HIDE DEF e, fs
<1>7. ASSUME NEW i \in DOMAIN fs[y]
      PROVE  /\ fs[y][i].type = y /\ e.nth < fs[y][i].nth
             /\ \A j \in DOMAIN fs[y] : i < j => fs[y][i].nth < fs[y][j].nth
  <2>1. i + 1 \in DOMAIN es[y] /\ fs[y][i] = es[y][i + 1] /\ 1 < i + 1
    BY <1>3
  <2>2. fs[y][i].type = y /\ e.nth < fs[y][i].nth
    BY <1>1, <2>1 DEF Listed
  <2>3. ASSUME NEW j \in DOMAIN fs[y], i < j  PROVE fs[y][i].nth < fs[y][j].nth
    <3>1. j + 1 \in DOMAIN es[y] /\ fs[y][j] = es[y][j + 1] /\ i + 1 < j + 1
      BY <1>3, <2>3
    <3>. QED  BY <2>1, <3>1 DEF Listed
  <2>. QED  BY <2>2, <2>3
<1>8. fs \in Messages /\ Listed(fs)
  BY <1>2, <1>6, <1>7 DEF Listed, Messages
<1>9. \A d \in Content(fs) : d.type = y => e.nth < d.nth
  <2>. SUFFICES ASSUME NEW d \in Content(fs), d.type = y  PROVE e.nth < d.nth
    OBVIOUS
  <2>1. PICK i \in DOMAIN fs[y] : fs[y][i] = d
    BY <1>8, InItsList
  <2>. QED  BY <1>7, <2>1
<1>10. Content(fs) = Content(es) \ {e}
  <2>1. ASSUME NEW d \in Content(fs)  PROVE d \in Content(es) \ {e}
    <3>1. PICK z \in Types : \E i \in DOMAIN fs[z] : d = fs[z][i]
      BY <1>8, InMessage
    <3>2. PICK i \in DOMAIN fs[z] : d = fs[z][i]
      BY <3>1
    <3>3. CASE z = y
      <4>1. d = es[y][i + 1] /\ i + 1 \in DOMAIN es[y]
        BY <1>3, <3>2, <3>3
      <4>2. e.nth < d.nth
        BY <1>7, <3>2, <3>3
      <4>3. e.nth \in Nat
        BY <1>5, InItsList DEF Events
      <4>4. d # e
        BY <4>2, <4>3
      <4>. QED  BY <4>1, <4>4, InMessage
    <3>4. CASE z # y
      <4>1. d = es[z][i] /\ i \in DOMAIN es[z]
        BY <1>2, <3>2, <3>4
      <4>2. d.type = z
        BY <4>1 DEF Listed
      <4>. QED  BY <1>5, <3>4, <4>1, <4>2, InMessage
    <3>. QED  BY <3>3, <3>4
  <2>2. ASSUME NEW d \in Content(es) \ {e}  PROVE d \in Content(fs)
    <3>1. PICK z \in Types : \E i \in DOMAIN es[z] : d = es[z][i]
      BY InMessage
    <3>2. PICK i \in DOMAIN es[z] : d = es[z][i]
      BY <3>1
    <3>3. CASE z = y
      <4>1. i - 1 \in DOMAIN fs[y] /\ fs[y][i - 1] = d
        BY <1>1, <1>4, <2>2, <3>2, <3>3
      <4>. QED  BY <1>8, <4>1, InMessage
    <3>4. CASE z # y
      BY <1>2, <1>8, <3>2, <3>4, InMessage
    <3>. QED  BY <3>3, <3>4
  <2>. QED  BY <2>1, <2>2
<1>. QED  BY <1>5, <1>8, <1>9, <1>10 DEF e, fs

\* Leaving a list out.
LEMMA LeaveOut ==
  ASSUME NEW es \in Messages, Listed(es), NEW y \in Types
  PROVE  LET fs == [es EXCEPT ![y] = << >>]
         IN  /\ fs \in Messages /\ Listed(fs)
             /\ Content(fs) = Content(es) \ Range(es[y])
             /\ Range(es[y]) \subseteq Content(es)
             /\ \A d \in Range(es[y]) : d.type = y
<1>. DEFINE fs == [es EXCEPT ![y] = << >>]
<1>1. /\ fs \in Messages /\ fs[y] = << >>
      /\ \A z \in Types : z # y => fs[z] = es[z]
  BY DEF Messages
<1>2. \A d \in Range(es[y]) : d.type = y
  BY DEF Range, Listed
<1>. HIDE DEF fs
<1>3. Listed(fs)
  BY <1>1, RankOrders DEF Listed
<1>4. Range(es[y]) \subseteq Content(es)
  BY DEF Content
<1>5. ASSUME NEW d \in Content(fs)  PROVE d \in Content(es) \ Range(es[y])
  <2>1. PICK z \in Types : \E i \in DOMAIN fs[z] : d = fs[z][i]
    BY <1>1, InMessage
  <2>2. PICK i \in DOMAIN fs[z] : d = fs[z][i]
    BY <2>1
  <2>3. z # y
    BY <1>1, <2>2
  <2>4. d = es[z][i] /\ i \in DOMAIN es[z]
    BY <1>1, <2>2, <2>3
  <2>5. d.type = z
    BY <2>4 DEF Listed
  <2>. QED  BY <1>2, <2>3, <2>4, <2>5, InMessage
<1>6. ASSUME NEW d \in Content(es) \ Range(es[y])  PROVE d \in Content(fs)
  <2>1. PICK z \in Types : \E i \in DOMAIN es[z] : d = es[z][i]
    BY InMessage
  <2>2. z # y
    BY <1>6, <2>1 DEF Range
  <2>. QED  BY <1>1, <2>1, <2>2, InMessage
<1>7. Content(fs) = Content(es) \ Range(es[y])
  BY <1>5, <1>6
<1>. QED  BY <1>1, <1>2, <1>3, <1>4, <1>7 DEF fs

-----------------------------------------------------------------------------
(* The inductive invariant.                                                *)

\* What threads have still to hand out.
Waits == UNION {Content(todo[t]) : t \in Threads}

\* The message under construction is that of the current iteration.
MessageInv ==
  /\ \A y \in Types : \A i \in DOMAIN events[y] :
       events[y][i] = [type |-> y, iteration |-> iterations, nth |-> i, status |-> FALSE]
  /\ events["connectionStatus"] = << >>

\* A thread in toxIteration has handed out everything it had; the list whose loop a
\* thread is in is the first that is not empty.
LoopInv ==
  /\ inside # None => todo[inside] = Empty
  /\ \A t \in Threads : loop[t] # None =>
       /\ todo[t][loop[t]] # << >>
       /\ \A z \in Types : Rank(z) < Rank(loop[t]) => todo[t][z] = << >>

\* What a thread has to hand out is from one iteration, and no two threads have the same.
BatchInv ==
  /\ \A t \in Threads : Listed(todo[t])
  /\ \A t, u \in Threads : \A d \in Content(todo[t]), e \in Content(todo[u]) :
       d.iteration = e.iteration <=> t = u

\* Events of an iteration have happened when it has ended.
TimeInv ==
  /\ inside # None => iterations > 0
  /\ \A e \in happened : /\ e.iteration <= iterations
                         /\ inside # None => e.iteration < iterations

\* Every event is in one place.
PlacesInv ==
  /\ happened = Waits \cup Range(handed) \cup skipped \cup lost
  /\ Waits \cap (Range(handed) \cup skipped \cup lost) = {}
  /\ Range(handed) \cap (skipped \cup lost) = {}
  /\ skipped \cap lost = {}
  /\ \A i, j \in DOMAIN handed : handed[i] = handed[j] => i = j

\* One thread at a time iterates, and what it has handed out is before what it has still
\* to hand out.
OrderInv ==
  ~overlapped =>
    /\ \A t, u \in Threads : ~Idle(t) /\ ~Idle(u) => t = u
    /\ \A i \in DOMAIN handed : \A e \in Waits : Before(handed[i], e)
    /\ HandedInOrder

\* The connection status toxcore had is the one waiting, or else the last handed out.
NoStatusLeftOut == ~overlapped /\ \A e \in skipped \cup lost : ~IsStatus(e)
HandedStatus    == \E i \in DOMAIN handed : LastStatus(i) /\ handed[i].status
StatusInv ==
  NoStatusLeftOut =>
    /\ \A e \in Waits : IsStatus(e) => e.status = connected
    /\ (\A e \in Waits : ~IsStatus(e)) => connected = HandedStatus

EventsInv ==
  TypeOK /\ MessageInv /\ LoopInv /\ BatchInv /\ TimeInv /\ PlacesInv /\ OrderInv /\ StatusInv

-----------------------------------------------------------------------------
(* What steps have in common.                                              *)

\* The message that toxIteration takes.
LEMMA Taken ==
  ASSUME TypeOK, MessageInv, TimeInv, inside # None, NEW up \in BOOLEAN
  PROVE  LET message == Connection(events, up)
         IN  /\ message \in Messages /\ Listed(message)
             /\ \A e \in Content(message) :
                  e.iteration = iterations /\ (IsStatus(e) => e.status = up)
             /\ up # connected <=> \E e \in Content(message) : IsStatus(e)
<1>1. /\ events \in Messages /\ iterations \in 1..MaxIterations
      /\ "connectionStatus" \in Types /\ connected \in BOOLEAN
  BY RankOrders DEF TypeOK, TimeInv, Messages
<1>2. \A y \in Types : \A i \in DOMAIN events[y] :
        /\ i \in Nat /\ events[y][i].type = y /\ events[y][i].iteration = iterations
        /\ events[y][i].nth = i /\ y # "connectionStatus"
  BY <1>1 DEF MessageInv, Messages
<1>3. Listed(events)
  BY <1>2 DEF Listed, MessageInv
<1>4. \A e \in Content(events) : e.iteration = iterations /\ ~IsStatus(e)
  BY <1>1, <1>2, InMessage DEF IsStatus
<1>5. CASE up = connected
  BY <1>1, <1>3, <1>4, <1>5 DEF Connection
<1>6. CASE up # connected
  <2>. DEFINE message == Connection(events, up)
              e == [type |-> "connectionStatus", iteration |-> iterations, nth |-> 1,
                    status |-> up]
  <2>1. message = [events EXCEPT !["connectionStatus"] = << e >>]
    BY <1>6, <1>1 DEF Connection, AddEvent, MessageInv
  <2>2. e \in Events
    BY <1>1 DEF Events
  <2>3. /\ message \in Messages /\ message["connectionStatus"] = << e >>
        /\ \A y \in Types : y # "connectionStatus" => message[y] = events[y]
    BY <2>1, <2>2, <1>1 DEF Messages
  <2>4. e.type = "connectionStatus" /\ e.iteration = iterations /\ e.status = up
    OBVIOUS
  <2>. HIDE DEF message, e
  <2>5. Listed(message)
    BY <1>2, <2>3, <2>4 DEF Listed
  <2>6. e \in Content(message)
    <3>1. 1 \in DOMAIN message["connectionStatus"] /\ message["connectionStatus"][1] = e
      BY <2>3
    <3>. QED  BY <1>1, <2>3, <3>1, InMessage
  <2>7. ASSUME NEW d \in Content(message)
        PROVE  d.iteration = iterations /\ (IsStatus(d) => d.status = up)
    <3>1. PICK y \in Types : \E i \in DOMAIN message[y] : d = message[y][i]
      BY <2>3, InMessage
    <3>2. CASE y = "connectionStatus"
      BY <2>3, <2>4, <3>1, <3>2
    <3>3. CASE y # "connectionStatus"
      BY <1>2, <2>3, <3>1, <3>3 DEF IsStatus
    <3>. QED  BY <3>2, <3>3
  <2>8. IsStatus(e)
    BY <2>4 DEF IsStatus
  <2>. QED  BY <1>6, <2>3, <2>5, <2>6, <2>7, <2>8 DEF message
<1>. QED  BY <1>5, <1>6

\* A thread has less to hand out than before.
LEMMA Removal ==
  ASSUME TypeOK, BatchInv, NEW t \in Threads,
         NEW fs \in Messages, Listed(fs), Content(fs) \subseteq Content(todo[t]),
         todo' = [todo EXCEPT ![t] = fs]
  PROVE  /\ todo' \in [Threads -> Messages] /\ BatchInv'
         /\ Waits' = Waits \ (Content(todo[t]) \ Content(fs))
         /\ Content(todo[t]) \subseteq Waits
         /\ \A u \in Threads : todo[u] = Empty => todo'[u] = Empty
<1>1. /\ todo \in [Threads -> Messages] /\ todo' \in [Threads -> Messages]
      /\ todo'[t] = fs /\ \A u \in Threads : u # t => todo'[u] = todo[u]
  BY DEF TypeOK, Messages
<1>2. \A u \in Threads : Content(todo'[u]) \subseteq Content(todo[u])
  BY <1>1
<1>3. BatchInv'
  BY <1>1, <1>2 DEF BatchInv
<1>4. Content(todo[t]) \subseteq Waits
  BY DEF Waits
<1>5. ASSUME NEW e \in Waits'  PROVE e \in Waits \ (Content(todo[t]) \ Content(fs))
  <2>1. PICK u \in Threads : e \in Content(todo'[u])
    BY <1>5 DEF Waits
  <2>2. e \in Content(todo[u])
    BY <1>2, <2>1
  <2>3. u # t => e \notin Content(todo[t])
    BY <2>2 DEF BatchInv
  <2>. QED  BY <1>1, <2>1, <2>2, <2>3 DEF Waits
<1>6. ASSUME NEW e \in Waits \ (Content(todo[t]) \ Content(fs))  PROVE e \in Waits'
  <2>1. PICK u \in Threads : e \in Content(todo[u])
    BY <1>6 DEF Waits
  <2>2. e \in Content(todo'[u])
    BY <1>1, <1>6, <2>1
  <2>. QED  BY <2>2 DEF Waits
<1>7. \A u \in Threads : todo[u] = Empty => todo'[u] = Empty
  BY <1>1, EmptyMessage
<1>. QED  BY <1>1, <1>3, <1>4, <1>5, <1>6, <1>7

\* The event whose turn it is is before all others of its thread.
LEMMA FirstOut ==
  ASSUME TypeOK, LoopInv, BatchInv, NEW t \in Threads, loop[t] # None
  PROVE  LET e == Head(todo[t][loop[t]])
         IN  /\ e \in Content(todo[t]) /\ e \in Events /\ e.type = loop[t]
             /\ \A d \in Content(todo[t]) \ {e} :
                  Before(e, d) /\ e.iteration = d.iteration /\ ~IsStatus(d)
<1>. DEFINE y == loop[t]
            es == todo[t]
            e == Head(es[y])
<1>1. /\ y \in Types /\ es \in Messages /\ Listed(es) /\ es[y] # << >>
      /\ \A z \in Types : Rank(z) < Rank(y) => es[z] = << >>
  BY DEF TypeOK, LoopInv, BatchInv, Messages
<1>2. \A d \in Content(es) : \A f \in Content(es) : d.iteration = f.iteration
  BY DEF BatchInv
<1>. DEFINE fs == [es EXCEPT ![y] = Tail(es[y])]
<1>3. /\ fs \in Messages /\ Listed(fs)
      /\ e \in Content(es) /\ e.type = y
      /\ Content(fs) = Content(es) \ {e}
      /\ \A d \in Content(fs) : d.type = y => e.nth < d.nth
  <2>. HIDE DEF es, y
  <2>. QED  BY <1>1, TakeFirst
<1>4. fs["connectionStatus"] = << >>
  <2>1. es["connectionStatus"] \in Seq(Events) /\ Len(es["connectionStatus"]) <= 1
    BY <1>1, RankOrders DEF Messages, Listed
  <2>2. CASE y = "connectionStatus"
    BY <1>1, <2>1, <2>2 DEF Messages
  <2>3. CASE y # "connectionStatus"
    <3>1. Rank("connectionStatus") < Rank(y)
      BY <1>1, <2>3, RankOrders
    <3>. QED  BY <1>1, <2>3, <3>1, RankOrders DEF Messages
  <2>. QED  BY <2>2, <2>3
<1>5. e \in Events
  BY <1>1, <1>3, InItsList
<1>. HIDE DEF fs, e, es
<1>6. ASSUME NEW d \in Content(es) \ {e}
      PROVE  Before(e, d) /\ e.iteration = d.iteration /\ ~IsStatus(d)
  <2>1. d \in Content(fs) /\ e.iteration = d.iteration
    BY <1>2, <1>3
  <2>2. /\ d \in Events /\ d.type \in Types
        /\ \E i \in DOMAIN es[d.type] : es[d.type][i] = d
        /\ \E i \in DOMAIN fs[d.type] : fs[d.type][i] = d
    BY <1>1, <1>3, <2>1, InItsList DEF Events
  <2>3. ~IsStatus(d)
    BY <1>4, <2>2 DEF IsStatus
  <2>4. d.type # y => Rank(y) < Rank(d.type)
    <3>1. es[d.type] # << >>
      BY <2>2
    <3>. QED  BY <1>1, <2>2, <3>1, RankOrders
  <2>. QED  BY <1>3, <2>1, <2>3, <2>4 DEF Before
<1>. QED  BY <1>3, <1>5, <1>6 DEF e, es

\* What the last connection status is when one more event is handed out.
LEMMA OneMoreHanded ==
  ASSUME handed \in Seq(Events), NEW e \in Events, handed' = Append(handed, e)
  PROVE  /\ handed' \in Seq(Events)
         /\ Range(handed') = Range(handed) \cup {e}
         /\ DOMAIN handed' = 1..(Len(handed) + 1) /\ Len(handed) \in Nat
         /\ handed'[Len(handed) + 1] = e
         /\ \A i \in DOMAIN handed : i <= Len(handed) /\ handed'[i] = handed[i]
         /\ \A i \in DOMAIN handed' : i \in DOMAIN handed \/ i = Len(handed) + 1
         /\ IsStatus(e) => (HandedStatus' <=> e.status)
         /\ ~IsStatus(e) => (HandedStatus' <=> HandedStatus)
<1>0. PICK n \in Nat : n = Len(handed) + 1
  OBVIOUS
<1>1. /\ handed' \in Seq(Events) /\ DOMAIN handed' = 1..n /\ Len(handed) \in Nat
      /\ DOMAIN handed = 1..Len(handed)
      /\ handed'[n] = e /\ \A i \in DOMAIN handed : i <= Len(handed) /\ handed'[i] = handed[i]
      /\ \A i \in DOMAIN handed' : i \in DOMAIN handed \/ i = n
      /\ \A i \in DOMAIN handed : i \in DOMAIN handed' /\ n > i /\ i \in Nat
      /\ n \in DOMAIN handed'
  BY <1>0
<1>2. Range(handed') = Range(handed) \cup {e}
  <2>1. \A i \in DOMAIN handed' : handed'[i] \in Range(handed) \cup {e}
    BY <1>1 DEF Range
  <2>2. \A i \in DOMAIN handed : handed[i] \in Range(handed')
    BY <1>1 DEF Range
  <2>3. e \in Range(handed')
    BY <1>1 DEF Range
  <2>. QED  BY <2>1, <2>2, <2>3 DEF Range
<1>3. ASSUME IsStatus(e)  PROVE HandedStatus' <=> e.status
  <2>1. \A i \in DOMAIN handed : ~LastStatus(i)'
    BY <1>1, <1>3 DEF LastStatus
  <2>2. LastStatus(n)'
    BY <1>1, <1>3 DEF LastStatus
  <2>3. HandedStatus' <=> (LastStatus(n)' /\ handed'[n].status)
    BY <1>1, <2>1 DEF HandedStatus
  <2>. QED  BY <1>1, <2>2, <2>3
<1>4. ASSUME ~IsStatus(e)  PROVE HandedStatus' <=> HandedStatus
  <2>1. ~LastStatus(n)'
    BY <1>1, <1>4 DEF LastStatus
  <2>2. ASSUME NEW i \in DOMAIN handed  PROVE LastStatus(i)' <=> LastStatus(i)
    <3>1. LastStatus(i)' => LastStatus(i)
      BY <1>1 DEF LastStatus
    <3>2. LastStatus(i) => LastStatus(i)'
      BY <1>1, <1>4 DEF LastStatus
    <3>. QED  BY <3>1, <3>2
  <2>. QED  BY <1>1, <2>1, <2>2 DEF HandedStatus
<1>. QED  BY <1>0, <1>1, <1>2, <1>3, <1>4

\* A callback is called: its event is handed out, and if it throws, others are lost.
LEMMA HandsOver ==
  ASSUME EventsInv, NEW t \in Threads, loop[t] # None,
         NEW e, e = Head(todo[t][loop[t]]), handed' = Append(handed, e),
         NEW fs \in Messages, Listed(fs), Content(fs) \subseteq Content(todo[t]) \ {e},
         todo' = [todo EXCEPT ![t] = fs],
         lost' = lost \cup ((Content(todo[t]) \ {e}) \ Content(fs)),
         UNCHANGED <<inside, connected, events, skipped, happened, iterations, overlapped>>
  PROVE  /\ todo' \in [Threads -> Messages] /\ handed' \in Seq(Events)
         /\ lost' \subseteq Events
         /\ BatchInv' /\ TimeInv' /\ PlacesInv' /\ OrderInv' /\ StatusInv'
         /\ inside # None => todo'[inside] = Empty
<1>1. TypeOK /\ MessageInv /\ LoopInv /\ BatchInv /\ TimeInv /\ PlacesInv /\ OrderInv /\ StatusInv
  BY DEF EventsInv
<1>. DEFINE R == (Content(todo[t]) \ {e}) \ Content(fs)
<1>2. /\ e \in Content(todo[t]) /\ e \in Events
      /\ \A d \in Content(todo[t]) \ {e} :
           Before(e, d) /\ e.iteration = d.iteration /\ ~IsStatus(d)
  BY <1>1, FirstOut
<1>3. /\ todo' \in [Threads -> Messages] /\ BatchInv'
      /\ Waits' = Waits \ (Content(todo[t]) \ Content(fs))
      /\ Content(todo[t]) \subseteq Waits
      /\ \A u \in Threads : todo[u] = Empty => todo'[u] = Empty
  BY <1>1, Removal
<1>4. /\ handed \in Seq(Events) /\ handed' \in Seq(Events)
      /\ Range(handed') = Range(handed) \cup {e}
      /\ DOMAIN handed' = 1..(Len(handed) + 1) /\ Len(handed) \in Nat
      /\ handed'[Len(handed) + 1] = e
      /\ \A i \in DOMAIN handed : i <= Len(handed) /\ handed'[i] = handed[i]
      /\ \A i \in DOMAIN handed' : i \in DOMAIN handed \/ i = Len(handed) + 1
      /\ IsStatus(e) => (HandedStatus' <=> e.status)
      /\ ~IsStatus(e) => (HandedStatus' <=> HandedStatus)
  <2>1. handed \in Seq(Events)
    BY <1>1 DEF TypeOK
  <2>. QED  BY <1>2, <2>1, OneMoreHanded
<1>5. /\ Waits' = Waits \ ({e} \cup R) /\ lost' = lost \cup R
      /\ {e} \cup R \subseteq Waits /\ e \notin R /\ e \in Waits
  BY <1>2, <1>3
<1>. HIDE DEF R
<1>6. PlacesInv'
  <2>1. happened' = Waits' \cup Range(handed') \cup skipped' \cup lost'
    BY <1>1, <1>4, <1>5 DEF PlacesInv
  <2>2. /\ Waits' \cap (Range(handed') \cup skipped' \cup lost') = {}
        /\ Range(handed') \cap (skipped' \cup lost') = {}
        /\ skipped' \cap lost' = {}
    BY <1>1, <1>4, <1>5 DEF PlacesInv
  <2>3. \A i \in DOMAIN handed : handed[i] # e
    BY <1>1, <1>5 DEF PlacesInv, Range
  <2>4. \A i, j \in DOMAIN handed' : handed'[i] = handed'[j] => i = j
    BY <1>1, <1>4, <2>3 DEF PlacesInv
  <2>. QED  BY <2>1, <2>2, <2>4 DEF PlacesInv
<1>7. lost' \subseteq Events
  <2>1. \A d \in Content(todo[t]) : d \in Events
    BY <1>1, InItsList DEF TypeOK, BatchInv, Messages
  <2>. QED  BY <1>1, <2>1 DEF TypeOK
<1>8. TimeInv'
  BY <1>1 DEF TimeInv
<1>9. \A u \in Threads : todo[u] # Empty <=> Content(todo[u]) # {}
  BY <1>1, EmptyMessage DEF TypeOK, Messages
<1>10. OrderInv'
  <2>. SUFFICES ASSUME ~overlapped
                PROVE  /\ \A u, v \in Threads : ~Idle(u)' /\ ~Idle(v)' => u = v
                       /\ \A i \in DOMAIN handed' : \A d \in Waits' : Before(handed'[i], d)
                       /\ \A i, j \in DOMAIN handed' :
                            i < j => Before(handed'[i], handed'[j])
    BY DEF OrderInv, HandedInOrder, Before
  <2>1. /\ \A u, v \in Threads : ~Idle(u) /\ ~Idle(v) => u = v
        /\ \A i \in DOMAIN handed : \A d \in Waits : Before(handed[i], d)
        /\ \A i, j \in DOMAIN handed : i < j => Before(handed[i], handed[j])
    BY <1>1 DEF OrderInv, HandedInOrder
  <2>2. \A u \in Threads : Idle(u) => Idle(u)'
    BY <1>3 DEF Idle
  <2>3. ASSUME NEW d \in Waits  PROVE d \in Content(todo[t])
    <3>1. PICK u \in Threads : d \in Content(todo[u])
      BY DEF Waits
    <3>2. ~Idle(u) /\ ~Idle(t)
      BY <1>2, <1>9, <3>1 DEF Idle
    <3>. QED  BY <2>1, <3>1, <3>2
  <2>4. \A d \in Waits' : Before(e, d)
    BY <1>2, <1>5, <2>3
  <2>5. \A i \in DOMAIN handed' : \A d \in Waits' : Before(handed'[i], d)
    BY <1>4, <1>5, <2>1, <2>4
  <2>6. ASSUME NEW i \in DOMAIN handed', NEW j \in DOMAIN handed', i < j
        PROVE  Before(handed'[i], handed'[j])
    <3>1. i \in DOMAIN handed
      BY <1>4, <2>6
    <3>2. CASE j \in DOMAIN handed
      BY <1>4, <2>1, <2>6, <3>1, <3>2
    <3>3. CASE j = Len(handed) + 1
      <4>1. handed'[i] = handed[i] /\ handed'[j] = e
        BY <1>4, <3>1, <3>3
      <4>. QED  BY <1>5, <2>1, <3>1, <4>1
    <3>. QED  BY <1>4, <3>2, <3>3
  <2>. QED  BY <2>1, <2>2, <2>5, <2>6
<1>11. StatusInv'
  <2>. SUFFICES ASSUME NoStatusLeftOut'
                PROVE  /\ \A d \in Waits' : IsStatus(d) => d.status = connected
                       /\ (\A d \in Waits' : ~IsStatus(d)) => connected = HandedStatus'
    BY DEF StatusInv, IsStatus
  <2>1. NoStatusLeftOut
    BY <1>5 DEF NoStatusLeftOut
  <2>2. /\ \A d \in Waits : IsStatus(d) => d.status = connected
        /\ (\A d \in Waits : ~IsStatus(d)) => connected = HandedStatus
    BY <1>1, <2>1 DEF StatusInv
  <2>3. connected \in BOOLEAN /\ HandedStatus \in BOOLEAN /\ HandedStatus' \in BOOLEAN
    BY <1>1 DEF TypeOK, HandedStatus
  <2>4. CASE IsStatus(e)
    BY <1>4, <1>5, <2>2, <2>3, <2>4
  <2>5. CASE ~IsStatus(e)
    <3>1. \A d \in Content(todo[t]) : ~IsStatus(d)
      BY <1>2, <2>5
    <3>2. (\A d \in Waits' : ~IsStatus(d)) => \A d \in Waits : ~IsStatus(d)
      BY <1>3, <3>1
    <3>. QED  BY <1>4, <1>5, <2>2, <2>3, <2>5, <3>2
  <2>. QED  BY <2>4, <2>5
<1>12. inside # None => todo'[inside] = Empty
  BY <1>1, <1>3 DEF TypeOK, LoopInv
<1>. QED  BY <1>3, <1>4, <1>6, <1>7, <1>8, <1>10, <1>11, <1>12

\* Events are left out, for want of a callback or because of an exception.
LEMMA LeavesOut ==
  ASSUME EventsInv, NEW t \in Threads,
         NEW fs \in Messages, Listed(fs), Content(fs) \subseteq Content(todo[t]),
         todo' = [todo EXCEPT ![t] = fs],
         NEW R, R = Content(todo[t]) \ Content(fs),
         \/ skipped' = skipped \cup R /\ lost' = lost
         \/ lost' = lost \cup R /\ skipped' = skipped,
         UNCHANGED <<inside, connected, events, handed, happened, iterations, overlapped>>
  PROVE  /\ todo' \in [Threads -> Messages]
         /\ skipped' \subseteq Events /\ lost' \subseteq Events
         /\ BatchInv' /\ TimeInv' /\ PlacesInv' /\ OrderInv' /\ StatusInv'
         /\ inside # None => todo'[inside] = Empty
<1>1. TypeOK /\ MessageInv /\ LoopInv /\ BatchInv /\ TimeInv /\ PlacesInv /\ OrderInv /\ StatusInv
  BY DEF EventsInv
<1>2. /\ todo' \in [Threads -> Messages] /\ BatchInv'
      /\ Waits' = Waits \ R /\ R \subseteq Waits
      /\ \A u \in Threads : todo[u] = Empty => todo'[u] = Empty
  BY <1>1, Removal
<1>3. PlacesInv'
  BY <1>1, <1>2 DEF PlacesInv
<1>4. \A d \in Content(todo[t]) : d \in Events
  BY <1>1, InItsList DEF TypeOK, BatchInv, Messages
<1>5. skipped' \subseteq Events /\ lost' \subseteq Events
  BY <1>1, <1>4 DEF TypeOK
<1>6. TimeInv'
  BY <1>1 DEF TimeInv
<1>7. OrderInv'
  BY <1>1, <1>2 DEF OrderInv, HandedInOrder, Before, Idle
<1>8. StatusInv'
  <2>. SUFFICES ASSUME NoStatusLeftOut'
                PROVE  /\ \A d \in Waits' : IsStatus(d) => d.status = connected
                       /\ (\A d \in Waits' : ~IsStatus(d)) => connected = HandedStatus'
    BY DEF StatusInv, IsStatus
  <2>1. NoStatusLeftOut /\ \A d \in R : ~IsStatus(d)
    BY DEF NoStatusLeftOut
  <2>2. HandedStatus' = HandedStatus
    BY DEF HandedStatus, LastStatus, IsStatus
  <2>. QED  BY <1>1, <1>2, <2>1, <2>2 DEF StatusInv
<1>9. inside # None => todo'[inside] = Empty
  BY <1>1, <1>2 DEF TypeOK, LoopInv
<1>. QED  BY <1>2, <1>3, <1>5, <1>6, <1>7, <1>8, <1>9

-----------------------------------------------------------------------------
(* Steps.                                                                  *)

LEMMA InitEvents == Init => EventsInv
<1>. SUFFICES ASSUME Init  PROVE EventsInv
  OBVIOUS
<1>1. /\ Empty \in Messages /\ Listed(Empty) /\ Content(Empty) = {}
      /\ "connectionStatus" \in Types
  BY EmptyMessage, RankOrders
<1>2. \A t \in Threads : todo[t] = Empty /\ Content(todo[t]) = {}
  BY <1>1 DEF Init
<1>3. Waits = {} /\ Range(handed) = {}
  BY <1>2 DEF Waits, Init, Range
<1>4. TypeOK
  <2>1. iterations \in 0..MaxIterations
    BY CoreEventsAssumption DEF Init
  <2>4. inside \in Threads \cup {None} /\ connected \in BOOLEAN /\ overlapped \in BOOLEAN
    BY DEF Init
  <2>5. loop \in [Threads -> Types \cup {None}] /\ callbacks \subseteq Types
    BY DEF Init
  <2>2. /\ events \in [Types -> Seq(Events)] /\ events = Empty
        /\ todo \in [Threads -> [Types -> Seq(Events)]]
    BY <1>1 DEF Init, Messages
  <2>3. /\ handed \in Seq(Events)
        /\ skipped \subseteq Events /\ lost \subseteq Events /\ happened \subseteq Events
    BY DEF Init
  <2>. QED  BY <2>1, <2>2, <2>3, <2>4, <2>5 DEF TypeOK
<1>5. MessageInv
  BY <1>1 DEF Init, MessageInv, Empty
<1>6. LoopInv /\ BatchInv /\ TimeInv /\ PlacesInv
  BY <1>1, <1>2, <1>3 DEF Init, LoopInv, BatchInv, TimeInv, PlacesInv
<1>7. OrderInv
  BY <1>2, <1>3 DEF Init, OrderInv, HandedInOrder, Idle
<1>8. StatusInv
  <2>1. handed = << >> /\ connected = FALSE
    BY DEF Init
  <2>2. HandedStatus = FALSE
    BY <2>1 DEF HandedStatus
  <2>. QED  BY <1>3, <2>1, <2>2 DEF StatusInv
<1>. QED  BY <1>4, <1>5, <1>6, <1>7, <1>8 DEF EventsInv

LEMMA BeginStep ==
  ASSUME EventsInv, NEW t \in Threads, Begin(t)
  PROVE  EventsInv'
<1>1. TypeOK /\ MessageInv /\ LoopInv /\ BatchInv /\ TimeInv /\ PlacesInv /\ OrderInv /\ StatusInv
  BY DEF EventsInv
<1>2. t # None /\ iterations \in Nat
  BY <1>1, CoreEventsAssumption DEF TypeOK
<1>3. TypeOK'
  BY <1>1, <1>2, CoreEventsAssumption DEF TypeOK, Begin
<1>4. MessageInv'
  <2>1. events' = Empty
    BY <1>1 DEF TypeOK, Begin
  <2>. QED  BY <2>1, RankOrders DEF MessageInv, Empty
<1>5. LoopInv'
  BY <1>1, <1>2 DEF LoopInv, Begin, Idle
<1>6. BatchInv' /\ PlacesInv' /\ Waits' = Waits
  BY <1>1 DEF BatchInv, PlacesInv, Waits, Begin
<1>7. TimeInv'
  <2>1. \A e \in happened : e.iteration \in Nat
    BY <1>1 DEF TypeOK, Events
  <2>. QED  BY <1>1, <1>2, <2>1 DEF TimeInv, Begin
<1>8. OrderInv'
  <2>1. ASSUME ~overlapped'  PROVE \A u, v \in Threads : ~Idle(u)' /\ ~Idle(v)' => u = v
    BY <1>2, <2>1 DEF Begin, Idle
  <2>2. overlapped => overlapped'
    BY <1>1 DEF Begin, TypeOK
  <2>. QED  BY <1>1, <1>6, <2>1, <2>2 DEF OrderInv, HandedInOrder, Before, Begin
<1>9. StatusInv'
  <2>1. NoStatusLeftOut' => NoStatusLeftOut
    BY <1>1 DEF NoStatusLeftOut, IsStatus, Begin, TypeOK
  <2>2. HandedStatus' = HandedStatus
    BY DEF HandedStatus, LastStatus, IsStatus, Begin
  <2>. QED  BY <1>1, <1>6, <2>1, <2>2 DEF StatusInv, IsStatus, Begin
<1>. QED  BY <1>3, <1>4, <1>5, <1>6, <1>7, <1>8, <1>9 DEF EventsInv

LEMMA ArriveStep ==
  ASSUME EventsInv, NEW t \in Threads, Arrive(t)
  PROVE  EventsInv'
<1>1. TypeOK /\ MessageInv /\ LoopInv /\ BatchInv /\ TimeInv /\ PlacesInv /\ OrderInv /\ StatusInv
  BY DEF EventsInv
<1>2. inside # None /\ iterations \in 1..MaxIterations
  BY <1>1, CoreEventsAssumption DEF Arrive, TypeOK, TimeInv
<1>3. PICK call \in Occurring : events' = AddEvent(events, EventType[call], FALSE)
  BY DEF Arrive
<1>4. PICK y \in Types \ {"connectionStatus"} : events' = AddEvent(events, y, FALSE)
  BY <1>3, EventTypes
<1>5. PICK s \in Seq(Events), n \in Nat : s = events[y] /\ n = Len(s)
  BY <1>1 DEF TypeOK
<1>6. PICK e \in Events :
        e = [type |-> y, iteration |-> iterations, nth |-> n + 1, status |-> FALSE]
  <2>1. y \in Types /\ iterations \in 1..MaxIterations /\ n + 1 \in Nat \ {0}
    BY <1>2
  <2>2. [type |-> y, iteration |-> iterations, nth |-> n + 1, status |-> FALSE] \in Events
    BY <2>1 DEF Events
  <2>. QED  BY <2>2
<1>7. events' = [events EXCEPT ![y] = Append(events[y], e)]
  BY <1>4, <1>5, <1>6 DEF AddEvent
<1>8. /\ events' \in [Types -> Seq(Events)] /\ events'[y] = Append(events[y], e)
      /\ \A z \in Types : z # y => events'[z] = events[z]
  BY <1>1, <1>5, <1>7 DEF TypeOK
<1>9. TypeOK'
  BY <1>1, <1>2, <1>8 DEF TypeOK, Arrive, history
<1>10. MessageInv'
  <2>. USE DEF Arrive, history
  <2>1. \A i \in DOMAIN events'[y] :
          events'[y][i] = [type |-> y, iteration |-> iterations, nth |-> i, status |-> FALSE]
    <3>1. /\ \A i \in DOMAIN events'[y] : i \in DOMAIN events[y] \/ i = n + 1
          /\ \A i \in DOMAIN events[y] : events'[y][i] = events[y][i]
          /\ events'[y][n + 1] = e
      <4>. DEFINE a == Append(s, e)
      <4>1. /\ a[Len(s) + 1] = e
            /\ \A i \in DOMAIN a : i \in DOMAIN s \/ i = Len(s) + 1
            /\ \A i \in DOMAIN s : a[i] = s[i]
        BY AppendOne
      <4>2. events'[y] = a
        BY <1>5, <1>8
      <4>. HIDE DEF a
      <4>. QED  BY <1>5, <4>1, <4>2
    <3>. QED  BY <1>1, <1>6, <3>1 DEF MessageInv
  <2>2. events'["connectionStatus"] = << >>
    BY <1>1, <1>8, RankOrders DEF MessageInv
  <2>3. \A z \in Types : z # y => \A i \in DOMAIN events'[z] :
          events'[z][i] = [type |-> z, iteration |-> iterations, nth |-> i, status |-> FALSE]
    BY <1>1, <1>8 DEF MessageInv
  <2>. QED  BY <2>1, <2>2, <2>3 DEF MessageInv
<1>11. LoopInv' /\ BatchInv' /\ TimeInv' /\ PlacesInv' /\ Waits' = Waits
  BY <1>1 DEF LoopInv, BatchInv, TimeInv, PlacesInv, Waits, Arrive, history
<1>12. OrderInv'
  BY <1>1, <1>11 DEF OrderInv, HandedInOrder, Before, Idle, Arrive, history
<1>13. StatusInv'
  <2>1. NoStatusLeftOut' = NoStatusLeftOut /\ HandedStatus' = HandedStatus
    BY DEF NoStatusLeftOut, HandedStatus, LastStatus, IsStatus, Arrive, history
  <2>. QED  BY <1>1, <1>11, <2>1 DEF StatusInv, IsStatus, Arrive
<1>. QED  BY <1>9, <1>10, <1>11, <1>12, <1>13 DEF EventsInv

\* The events of the message taken are new: all others are of earlier iterations.
LEMMA EndStep ==
  ASSUME EventsInv, NEW t \in Threads, End(t)
  PROVE  EventsInv'
<1>1. TypeOK /\ MessageInv /\ LoopInv /\ BatchInv /\ TimeInv /\ PlacesInv /\ OrderInv /\ StatusInv
  BY DEF EventsInv
<1>2. inside = t /\ inside # None /\ inside' = None /\ iterations \in Nat
  BY <1>1, CoreEventsAssumption DEF End, TypeOK
<1>3. PICK up \in BOOLEAN :
        /\ todo' = [todo EXCEPT ![t] = Connection(events, up)]
        /\ events' = Cleared(Connection(events, up))
        /\ happened' = happened \cup Content(Connection(events, up))
        /\ connected' = up
  BY DEF End
<1>4. PICK message \in Messages :
        /\ message = Connection(events, up)
        /\ Listed(message)
        /\ \A e \in Content(message) :
             e.iteration = iterations /\ (IsStatus(e) => e.status = up)
        /\ up # connected <=> \E e \in Content(message) : IsStatus(e)
  BY <1>1, <1>2, Taken
<1>5. /\ todo \in [Threads -> Messages] /\ todo' \in [Threads -> Messages]
      /\ todo'[t] = message /\ todo[t] = Empty
      /\ \A u \in Threads : u # t => todo'[u] = todo[u]
  BY <1>1, <1>2, <1>3, <1>4 DEF TypeOK, LoopInv, Messages
<1>6. Content(todo[t]) = {}
  BY <1>5, EmptyMessage
<1>7. Waits' = Waits \cup Content(message)
  <2>1. \A u \in Threads : u # t => Content(todo'[u]) = Content(todo[u])
    BY <1>5
  <2>2. Content(todo'[t]) = Content(message)
    BY <1>5
  <2>. QED  BY <1>6, <2>1, <2>2 DEF Waits
<1>8. /\ happened = Waits \cup Range(handed) \cup skipped \cup lost
      /\ \A e \in happened : e.iteration < iterations /\ e.iteration \in Nat
  BY <1>1, <1>2 DEF PlacesInv, TimeInv, TypeOK, Events
<1>9. happened \cap Content(message) = {}
  BY <1>2, <1>4, <1>8
<1>10. Content(message) \subseteq Events
  BY <1>4, InItsList
<1>11. events' = Empty /\ happened' = happened \cup Content(message)
  BY <1>3, <1>4 DEF Cleared
<1>12. TypeOK'
  BY <1>1, <1>2, <1>3, <1>5, <1>10, <1>11, EmptyMessage DEF TypeOK, Messages, End
<1>13. MessageInv'
  BY <1>11, RankOrders DEF MessageInv, Empty
<1>14. LoopInv'
  <2>1. loop[t] = None
    BY <1>1, <1>5 DEF LoopInv, TypeOK, Empty
  <2>. QED  BY <1>1, <1>2, <1>5, <2>1 DEF LoopInv, End
<1>15. BatchInv'
  <2>1. \A u \in Threads : Listed(todo'[u])
    BY <1>1, <1>4, <1>5 DEF BatchInv
  <2>2. ASSUME NEW u \in Threads, NEW v \in Threads,
               NEW d \in Content(todo'[u]), NEW e \in Content(todo'[v])
        PROVE  d.iteration = e.iteration <=> u = v
    <3>1. \A w \in Threads : w # t =>
            \A f \in Content(todo'[w]) : f.iteration < iterations /\ f.iteration \in Nat
      BY <1>5, <1>8 DEF Waits
    <3>2. CASE u = t /\ v = t
      BY <1>4, <1>5, <3>2
    <3>3. CASE u = t /\ v # t
      BY <1>2, <1>4, <1>5, <3>1, <3>3
    <3>4. CASE u # t /\ v = t
      BY <1>2, <1>4, <1>5, <3>1, <3>4
    <3>5. CASE u # t /\ v # t
      BY <1>1, <1>5, <3>5 DEF BatchInv
    <3>. QED  BY <3>2, <3>3, <3>4, <3>5
  <2>. QED  BY <2>1, <2>2 DEF BatchInv
<1>16. TimeInv'
  BY <1>2, <1>4, <1>8, <1>11 DEF TimeInv, End
<1>17. PlacesInv'
  BY <1>1, <1>7, <1>8, <1>9, <1>11 DEF PlacesInv, End
<1>18. OrderInv'
  <2>. SUFFICES ASSUME ~overlapped  PROVE OrderInv'
    BY DEF OrderInv, End
  <2>1. \A u, v \in Threads : ~Idle(u)' /\ ~Idle(v)' => u = v
    <3>1. \A u \in Threads : ~Idle(u) => u = t
      BY <1>1, <1>2 DEF OrderInv, Idle
    <3>2. \A u \in Threads : u # t /\ ~Idle(u)' => ~Idle(u)
      BY <1>2, <1>5, CoreEventsAssumption DEF Idle
    <3>. QED  BY <3>1, <3>2
  <2>2. \A i \in DOMAIN handed : handed[i].iteration < iterations
    BY <1>8 DEF Range
  <2>3. \A i \in DOMAIN handed : \A e \in Waits' : Before(handed[i], e)
    BY <1>1, <1>4, <1>7, <2>2 DEF OrderInv, Before
  <2>4. handed' = handed
    BY DEF End
  <2>. QED  BY <1>1, <2>1, <2>3, <2>4 DEF OrderInv, HandedInOrder, Before
<1>19. StatusInv'
  <2>. SUFFICES ASSUME NoStatusLeftOut'
                PROVE  /\ \A e \in Waits' : IsStatus(e) => e.status = up
                       /\ (\A e \in Waits' : ~IsStatus(e)) => up = HandedStatus'
    BY <1>3 DEF StatusInv, IsStatus
  <2>1. NoStatusLeftOut /\ HandedStatus' = HandedStatus
    BY DEF NoStatusLeftOut, HandedStatus, LastStatus, IsStatus, End
  <2>2. \A u \in Threads : u # t => todo[u] = Empty
    BY <1>1, <1>2, <2>1 DEF NoStatusLeftOut, OrderInv, Idle
  <2>3. Waits = {}
    BY <1>6, <2>2, EmptyMessage DEF Waits
  <2>4. connected = HandedStatus
    BY <1>1, <2>1, <2>3 DEF StatusInv
  <2>. QED  BY <1>4, <1>7, <2>1, <2>3, <2>4
<1>. QED  BY <1>12, <1>13, <1>14, <1>15, <1>16, <1>17, <1>18, <1>19 DEF EventsInv

\* A loop is entered, or its list skipped for want of a callback.
LEMMA EnterStep ==
  ASSUME EventsInv, NEW t \in Threads, Enter(t)
  PROVE  EventsInv'
<1>1. TypeOK /\ MessageInv /\ LoopInv /\ BatchInv /\ TimeInv /\ PlacesInv /\ OrderInv /\ StatusInv
  BY DEF EventsInv
<1>2. PICK y \in Types :
        /\ todo[t][y] # << >>
        /\ \A z \in Types : Rank(z) < Rank(y) => todo[t][z] = << >>
        /\ \/ y \in callbacks /\ loop' = [loop EXCEPT ![t] = y] /\ UNCHANGED <<todo, skipped>>
           \/ /\ todo' = [todo EXCEPT ![t][y] = << >>]
              /\ skipped' = skipped \cup Range(todo[t][y])
              /\ UNCHANGED loop
  BY DEF Enter
<1>3. /\ loop[t] = None
      /\ UNCHANGED <<inside, connected, events, callbacks, handed, lost, happened, iterations,
                     overlapped>>
  BY DEF Enter
<1>4. MessageInv'
  BY <1>1, <1>3 DEF MessageInv
<1>5. CASE loop' = [loop EXCEPT ![t] = y] /\ UNCHANGED <<todo, skipped>>
  <2>1. TypeOK'
    BY <1>1, <1>3, <1>5 DEF TypeOK
  <2>2. loop \in [Threads -> Types \cup {None}]
    BY <1>1 DEF TypeOK
  <2>3. LoopInv'
    BY <1>1, <1>2, <1>3, <1>5, <2>2 DEF LoopInv
  <2>4. BatchInv' /\ TimeInv' /\ PlacesInv' /\ Waits' = Waits
    BY <1>1, <1>3, <1>5 DEF BatchInv, TimeInv, PlacesInv, Waits
  <2>5. OrderInv'
    BY <1>1, <1>3, <1>5, <2>4 DEF OrderInv, HandedInOrder, Before, Idle
  <2>6. StatusInv'
    <3>1. NoStatusLeftOut' = NoStatusLeftOut /\ HandedStatus' = HandedStatus
      BY <1>3, <1>5 DEF NoStatusLeftOut, HandedStatus, LastStatus, IsStatus
    <3>. QED  BY <1>1, <1>3, <2>4, <3>1 DEF StatusInv, IsStatus
  <2>. QED  BY <1>4, <2>1, <2>3, <2>4, <2>5, <2>6 DEF EventsInv
<1>6. CASE /\ todo' = [todo EXCEPT ![t][y] = << >>]
           /\ skipped' = skipped \cup Range(todo[t][y])
           /\ UNCHANGED loop
  <2>1. PICK fs : fs = [todo[t] EXCEPT ![y] = << >>]
    OBVIOUS
  <2>2. /\ todo[t] \in Messages /\ Listed(todo[t]) /\ todo \in [Threads -> Messages]
    BY <1>1 DEF TypeOK, BatchInv, Messages
  <2>3. /\ fs \in Messages /\ Listed(fs)
        /\ Content(fs) = Content(todo[t]) \ Range(todo[t][y])
        /\ Range(todo[t][y]) \subseteq Content(todo[t])
    BY <2>1, <2>2, LeaveOut
  <2>4. todo' = [todo EXCEPT ![t] = fs]
    BY <1>6, <2>1, <2>2
  <2>5. PICK R : R = Range(todo[t][y])
    OBVIOUS
  <2>6. /\ R = Content(todo[t]) \ Content(fs) /\ Content(fs) \subseteq Content(todo[t])
        /\ skipped' = skipped \cup R /\ lost' = lost
    BY <1>3, <1>6, <2>3, <2>5
  <2>7. UNCHANGED <<inside, connected, events, handed, happened, iterations, overlapped>>
    BY <1>3
  <2>8. /\ todo' \in [Threads -> Messages]
        /\ skipped' \subseteq Events /\ lost' \subseteq Events
        /\ BatchInv' /\ TimeInv' /\ PlacesInv' /\ OrderInv' /\ StatusInv'
        /\ inside # None => todo'[inside] = Empty
    BY <2>3, <2>4, <2>6, <2>7, LeavesOut
  <2>9. TypeOK'
    BY <1>1, <1>3, <1>6, <2>8 DEF TypeOK, Messages
  <2>10. LoopInv'
    BY <1>1, <1>3, <1>6, <2>2, <2>4, <2>8 DEF LoopInv
  <2>. QED  BY <1>4, <2>8, <2>9, <2>10 DEF EventsInv
<1>. QED  BY <1>2, <1>5, <1>6

LEMMA HandStep ==
  ASSUME EventsInv, NEW t \in Threads, Hand(t)
  PROVE  EventsInv'
<1>1. TypeOK /\ MessageInv /\ LoopInv /\ BatchInv /\ TimeInv /\ PlacesInv /\ OrderInv /\ StatusInv
  BY DEF EventsInv
<1>2. PICK y \in Types : y = loop[t] /\ y # None
  BY <1>1, CoreEventsAssumption DEF Hand, TypeOK
<1>3. /\ UNCHANGED <<inside, connected, events, callbacks, skipped, lost, happened, iterations,
                     overlapped>>
      /\ handed' = Append(handed, Head(todo[t][y]))
      /\ todo' = [todo EXCEPT ![t][y] = Tail(todo[t][y])]
      /\ loop' = [loop EXCEPT ![t] = IF Tail(todo[t][y]) = << >> THEN None ELSE y]
  BY <1>2 DEF Hand
<1>4. /\ todo[t] \in Messages /\ Listed(todo[t]) /\ todo \in [Threads -> Messages]
      /\ todo[t][y] # << >> /\ loop \in [Threads -> Types \cup {None}]
      /\ \A z \in Types : Rank(z) < Rank(y) => todo[t][z] = << >>
  BY <1>1, <1>2 DEF TypeOK, BatchInv, LoopInv, Messages
<1>5. PICK fs : fs = [todo[t] EXCEPT ![y] = Tail(todo[t][y])]
  OBVIOUS
<1>6. PICK e : e = Head(todo[t][y])
  OBVIOUS
<1>7. /\ fs \in Messages /\ Listed(fs)
      /\ e \in Content(todo[t]) /\ Content(fs) = Content(todo[t]) \ {e}
  BY <1>4, <1>5, <1>6, TakeFirst
<1>8. todo' = [todo EXCEPT ![t] = fs]
  BY <1>3, <1>4, <1>5
<1>9. /\ loop[t] # None /\ e = Head(todo[t][loop[t]]) /\ handed' = Append(handed, e)
      /\ Content(fs) \subseteq Content(todo[t]) \ {e}
      /\ lost' = lost \cup ((Content(todo[t]) \ {e}) \ Content(fs))
      /\ UNCHANGED <<inside, connected, events, skipped, happened, iterations, overlapped>>
  BY <1>2, <1>3, <1>6, <1>7
<1>10. /\ todo' \in [Threads -> Messages] /\ handed' \in Seq(Events)
       /\ lost' \subseteq Events
       /\ BatchInv' /\ TimeInv' /\ PlacesInv' /\ OrderInv' /\ StatusInv'
       /\ inside # None => todo'[inside] = Empty
  BY <1>7, <1>8, <1>9, HandsOver
<1>11. /\ loop' \in [Threads -> Types \cup {None}]
       /\ \A u \in Threads : u # t => loop'[u] = loop[u] /\ todo'[u] = todo[u]
       /\ todo'[t] = fs
       /\ loop'[t] # None => loop'[t] = y /\ fs[y] # << >>
  BY <1>3, <1>4, <1>5, <1>8
<1>12. TypeOK'
  BY <1>1, <1>3, <1>10, <1>11 DEF TypeOK, Messages
<1>13. LoopInv'
  <2>1. \A z \in Types : Rank(z) < Rank(y) => fs[z] = << >>
    <3>1. \A z \in Types : z # y => fs[z] = todo[t][z]
      BY <1>4, <1>5 DEF Messages
    <3>2. ~(Rank(y) < Rank(y))
      BY RankOrders
    <3>. QED  BY <1>4, <3>1, <3>2
  <2>2. ASSUME NEW u \in Threads, loop'[u] # None
        PROVE  /\ todo'[u][loop'[u]] # << >>
               /\ \A z \in Types : Rank(z) < Rank(loop'[u]) => todo'[u][z] = << >>
    <3>1. CASE u = t
      BY <1>11, <2>1, <2>2, <3>1
    <3>2. CASE u # t
      BY <1>1, <1>11, <2>2, <3>2 DEF LoopInv
    <3>. QED  BY <3>1, <3>2
  <2>. QED  BY <1>3, <1>10, <2>2 DEF LoopInv
<1>14. MessageInv'
  BY <1>1, <1>3 DEF MessageInv
<1>. QED  BY <1>10, <1>12, <1>13, <1>14 DEF EventsInv

LEMMA AbandonStep ==
  ASSUME EventsInv, NEW t \in Threads, HandThrows(t) \/ HandToNull(t)
  PROVE  EventsInv'
<1>1. TypeOK /\ MessageInv /\ LoopInv /\ BatchInv /\ TimeInv /\ PlacesInv /\ OrderInv /\ StatusInv
  BY DEF EventsInv
<1>2. Empty \in Messages /\ Listed(Empty) /\ Content(Empty) = {}
  BY EmptyMessage
<1>3. /\ todo' = [todo EXCEPT ![t] = Empty]
      /\ loop' = [loop EXCEPT ![t] = None]
      /\ UNCHANGED <<inside, connected, events, callbacks, skipped, happened, iterations,
                     overlapped>>
  BY DEF HandThrows, HandToNull, Abandon
<1>4. loop[t] # None
  BY <1>1, CoreEventsAssumption DEF HandThrows, HandToNull, TypeOK
<1>5. /\ todo' \in [Threads -> Messages] /\ handed' \in Seq(Events)
      /\ lost' \subseteq Events
      /\ BatchInv' /\ TimeInv' /\ PlacesInv' /\ OrderInv' /\ StatusInv'
      /\ inside # None => todo'[inside] = Empty
  <2>1. CASE HandThrows(t)
    <3>1. PICK e : e = Head(todo[t][loop[t]])
      OBVIOUS
    <3>2. /\ handed' = Append(handed, e)
          /\ Content(Empty) \subseteq Content(todo[t]) \ {e}
          /\ lost' = lost \cup ((Content(todo[t]) \ {e}) \ Content(Empty))
          /\ UNCHANGED <<inside, connected, events, skipped, happened, iterations, overlapped>>
      BY <1>2, <1>3, <2>1, <3>1 DEF HandThrows
    <3>. QED  BY <1>2, <1>3, <1>4, <3>1, <3>2, HandsOver
  <2>2. CASE HandToNull(t)
    <3>1. PICK R : R = Content(todo[t])
      OBVIOUS
    <3>2. /\ R = Content(todo[t]) \ Content(Empty)
          /\ Content(Empty) \subseteq Content(todo[t])
          /\ lost' = lost \cup R /\ skipped' = skipped
          /\ UNCHANGED <<inside, connected, events, handed, happened, iterations, overlapped>>
      BY <1>2, <1>3, <2>2, <3>1 DEF HandToNull
    <3>3. handed' \in Seq(Events)
      BY <1>1, <3>2 DEF TypeOK
    <3>4. /\ todo' \in [Threads -> Messages] /\ lost' \subseteq Events
          /\ BatchInv' /\ TimeInv' /\ PlacesInv' /\ OrderInv' /\ StatusInv'
          /\ inside # None => todo'[inside] = Empty
      BY <1>2, <1>3, <3>2, LeavesOut
    <3>. QED  BY <3>3, <3>4
  <2>. QED  BY <2>1, <2>2
<1>6. TypeOK'
  BY <1>1, <1>3, <1>5 DEF TypeOK, Messages
<1>7. LoopInv'
  BY <1>1, <1>3, <1>5 DEF LoopInv, TypeOK
<1>8. MessageInv'
  BY <1>1, <1>3 DEF MessageInv
<1>. QED  BY <1>5, <1>6, <1>7, <1>8 DEF EventsInv

\* A callback is set or removed, or nothing happens.
LEMMA OtherStep ==
  ASSUME EventsInv, SetCallback \/ UNCHANGED vars
  PROVE  EventsInv'
<1>1. TypeOK /\ MessageInv /\ LoopInv /\ BatchInv /\ TimeInv /\ PlacesInv /\ OrderInv /\ StatusInv
  BY DEF EventsInv
<1>2. /\ UNCHANGED <<inside, connected, events, todo, loop, handed, skipped, lost, happened>>
      /\ UNCHANGED <<iterations, overlapped>>
  BY DEF SetCallback, vars, history
<1>3. callbacks' \subseteq Types
  BY <1>1, EventTypes, RankOrders DEF SetCallback, vars, TypeOK
<1>4. TypeOK'
  BY <1>1, <1>2, <1>3 DEF TypeOK
<1>5. MessageInv' /\ LoopInv' /\ BatchInv' /\ TimeInv' /\ PlacesInv' /\ Waits' = Waits
  BY <1>1, <1>2 DEF MessageInv, LoopInv, BatchInv, TimeInv, PlacesInv, Waits
<1>6. OrderInv'
  BY <1>1, <1>2, <1>5 DEF OrderInv, HandedInOrder, Before, Idle
<1>7. StatusInv'
  <2>1. NoStatusLeftOut' = NoStatusLeftOut /\ HandedStatus' = HandedStatus
    BY <1>2 DEF NoStatusLeftOut, HandedStatus, LastStatus, IsStatus
  <2>. QED  BY <1>1, <1>2, <1>5, <2>1 DEF StatusInv, IsStatus
<1>. QED  BY <1>4, <1>5, <1>6, <1>7 DEF EventsInv

\* The invariant holds in every state.
THEOREM AlwaysEvents == Spec => []EventsInv
<1>1. Init => EventsInv
  BY InitEvents
<1>2. EventsInv /\ [Next]_vars => EventsInv'
  <2>. SUFFICES ASSUME EventsInv, [Next]_vars  PROVE EventsInv'
    OBVIOUS
  <2>1. ASSUME NEW t \in Threads, Begin(t)  PROVE EventsInv'
    BY <2>1, BeginStep
  <2>2. ASSUME NEW t \in Threads, Arrive(t)  PROVE EventsInv'
    BY <2>2, ArriveStep
  <2>3. ASSUME NEW t \in Threads, End(t)  PROVE EventsInv'
    BY <2>3, EndStep
  <2>4. ASSUME NEW t \in Threads, Enter(t)  PROVE EventsInv'
    BY <2>4, EnterStep
  <2>5. ASSUME NEW t \in Threads, Hand(t)  PROVE EventsInv'
    BY <2>5, HandStep
  <2>6. ASSUME NEW t \in Threads, HandThrows(t) \/ HandToNull(t)  PROVE EventsInv'
    BY <2>6, AbandonStep
  <2>7. CASE SetCallback \/ UNCHANGED vars
    BY <2>7, OtherStep
  <2>. QED  BY <2>1, <2>2, <2>3, <2>4, <2>5, <2>6, <2>7 DEF Next
<1>. QED  BY <1>1, <1>2, PTL DEF Spec

-----------------------------------------------------------------------------
(* Theorems.                                                               *)

\* Every variable of the event queue keeps its type, and between iterations the message
\* is empty.
THEOREM CoreEventTypes == Spec => []TypeOK
<1>1. EventsInv => TypeOK
  BY DEF EventsInv
<1>. QED  BY <1>1, AlwaysEvents, PTL

\* Whichever threads iterate, and whatever the client does with its callbacks, an event
\* is in one place only and is handed out once at most.
THEOREM NothingLostOrTwice == Spec => []Conserved
<1>1. ASSUME EventsInv  PROVE Conserved
  <2>1. TypeOK /\ BatchInv /\ PlacesInv
    BY <1>1 DEF EventsInv
  <2>2. \A t \in Threads : todo[t] \in Messages /\ Listed(todo[t])
    BY <2>1 DEF TypeOK, BatchInv, Messages
  <2>. SUFFICES ASSUME NEW e \in happened  PROVE \E p \in Places(e) : Places(e) = {p}
    BY DEF Conserved
  <2>. DEFINE W == WaitsAt(e)
              H == HandedAt(e)
  <2>3. Places(e) = ({"todo"} \X W) \cup ({"handed"} \X H)
                    \cup ({"skipped"} \X (skipped \cap {e})) \cup ({"lost"} \X (lost \cap {e}))
    BY DEF Places
  <2>4. ASSUME e \in Waits  PROVE \E w : W = {w}
    <3>1. PICK t \in Threads : e \in Content(todo[t])
      BY <2>4 DEF Waits
    <3>2. PICK i \in DOMAIN todo[t][e.type] :
            /\ todo[t][e.type][i] = e
            /\ \A j \in DOMAIN todo[t][e.type] : todo[t][e.type][j] = e => j = i
      BY <2>2, <3>1, InItsList
    <3>3. ASSUME NEW u \in Threads, u # t, NEW j \in DOMAIN todo[u][e.type]
          PROVE  todo[u][e.type][j] # e
      <4>1. e.type \in Types
        BY <2>1 DEF TypeOK, Events
      <4>2. todo[u][e.type][j] = e => e \in Content(todo[u])
        BY <2>2, <4>1, InMessage
      <4>3. e \in Content(todo[u]) => u = t
        BY <2>1, <3>1 DEF BatchInv
      <4>. QED  BY <3>3, <4>2, <4>3
    <3>4. W = {<<t, i>>}
      <4>1. \A w \in W : w = <<t, i>>
        BY <3>2, <3>3 DEF WaitsAt
      <4>2. <<t, i>> \in W
        BY <3>2 DEF WaitsAt
      <4>. QED  BY <4>1, <4>2
    <3>. QED  BY <3>4
  <2>5. ASSUME e \notin Waits  PROVE W = {}
    <3>1. \A t \in Threads : \A i \in DOMAIN todo[t][e.type] : todo[t][e.type][i] # e
      <4>1. e.type \in Types
        BY <2>1 DEF TypeOK, Events
      <4>. QED  BY <2>2, <2>5, <4>1, InMessage DEF Waits
    <3>. QED  BY <3>1 DEF WaitsAt
  <2>6. ASSUME e \in Range(handed)  PROVE \E i : H = {i}
    <3>1. PICK i \in DOMAIN handed : handed[i] = e
      BY <2>6 DEF Range
    <3>2. H = {i}
      BY <2>1, <3>1 DEF PlacesInv, HandedAt
    <3>. QED  BY <3>2
  <2>7. ASSUME e \notin Range(handed)  PROVE H = {}
    BY <2>7 DEF Range, HandedAt
  <2>. HIDE DEF W, H
  <2>8. /\ e \in Waits \cup Range(handed) \cup skipped \cup lost
        /\ e \in Waits => e \notin Range(handed) \cup skipped \cup lost
        /\ e \in Range(handed) => e \notin skipped \cup lost
        /\ e \in skipped => e \notin lost
    BY <2>1 DEF PlacesInv
  <2>9. CASE e \in Waits
    <3>1. PICK w : W = {w}
      BY <2>4, <2>9
    <3>2. Places(e) = {<<"todo", w>>}
      BY <2>3, <2>7, <2>8, <2>9, <3>1
    <3>. QED  BY <3>2
  <2>10. CASE e \in Range(handed)
    <3>1. PICK i : H = {i}
      BY <2>6, <2>10
    <3>2. Places(e) = {<<"handed", i>>}
      BY <2>3, <2>5, <2>8, <2>10, <3>1
    <3>. QED  BY <3>2
  <2>11. CASE e \in skipped
    <3>1. Places(e) = {<<"skipped", e>>}
      BY <2>3, <2>5, <2>7, <2>8, <2>11
    <3>. QED  BY <3>1
  <2>12. CASE e \in lost
    <3>1. Places(e) = {<<"lost", e>>}
      BY <2>3, <2>5, <2>7, <2>8, <2>12
    <3>. QED  BY <3>1
  <2>. QED  BY <2>8, <2>9, <2>10, <2>11, <2>12
<1>. QED  BY <1>1, AlwaysEvents, PTL

\* A client whose iterations do not overlap is handed events by iteration, type and
\* occurrence.
THEOREM OneIteratorInOrder == Spec => []HandedInOrder
<1>1. EventsInv => HandedInOrder
  BY DEF EventsInv, OrderInv, HandedInOrder
<1>. QED  BY <1>1, AlwaysEvents, PTL

\* If besides it has left out no connection status, it knows after iteration() whether
\* there is a connection.
THEOREM OneIteratorKnows == Spec => []ClientKnowsConnection
<1>1. ASSUME EventsInv  PROVE ClientKnowsConnection
  <2>. SUFFICES ASSUME NoStatusLeftOut, \A t \in Threads : Idle(t)
                PROVE  connected = HandedStatus
    BY DEF ClientKnowsConnection, NoStatusLeftOut, HandedStatus
  <2>1. Waits = {}
    BY EmptyMessage DEF Waits, Idle
  <2>. QED  BY <1>1, <2>1 DEF EventsInv, StatusInv
<1>. QED  BY <1>1, AlwaysEvents, PTL
=============================================================================
