---------------------------- MODULE FileTransfers ----------------------------
(***************************************************************************)
(* File transfers between two friends, each running core.cpp's wrapper     *)
(* around toxcore: new_Tox::transfers, the file functions of core.cpp, the *)
(* callbacks of core_private.h and the part of new_tox_iteration that asks *)
(* the client for chunks.                                                  *)
(*                                                                         *)
(* A call of the client is one action and falls between two iterations:    *)
(* instances are used by one thread at a time (InstanceHandles).  toxcore  *)
(* is external.  It is taken to number files per direction, to carry       *)
(* packets between friends in order, and to pass on only what concerns a   *)
(* file it knows of, as the assertions of the wrapper require: slots is    *)
(* what it knows.                                                          *)
(***************************************************************************)
EXTENDS Naturals, SequencesExt

CONSTANTS
  Peers,
  Numbers,      \* toxcore's file numbers of one direction, at most 0..255
  Sizes,        \* of the files sent
  DataSize,     \* tox_file_data_size
  WordSize,     \* size_t and uint64_t arithmetic is modulo WordSize
  MaxSends,     \* of each peer, how many files it may send
  MaxNet,       \* bound: clients wait while so many packets are on the way
  Garbage,      \* what file_transfer::cause may contain, it is never assigned
  Allowed,      \* what the client does beyond the usual, see Practices
  None

Incoming    == 256                     \* 0x100
FileNumbers == Numbers \cup {Incoming + n : n \in Numbers}

Practices == {
  "pause",        \* pause a running transfer
  "resume-any",   \* resume any transfer, not only an offered one, and again
  "oversend",     \* send more than requested, up to DataSize
  "empty-chunk",  \* send a chunk of length 0
  "busy",         \* toxcore's send queue is full
  "delete"}       \* delete the friend and add it again

ASSUME TransfersAssumption ==
  /\ IsFiniteSet(Peers) /\ Cardinality(Peers) = 2
  /\ Numbers \subseteq 0..255
  /\ Sizes \subseteq Nat
  /\ DataSize \in Nat \ {0}
  /\ WordSize \in Nat
  /\ \A s \in Sizes : s + DataSize < WordSize
  /\ MaxSends \in [Peers -> Nat] /\ MaxNet \in Nat
  /\ Garbage \subseteq {"INITIAL", "SELF", "FRIEND"}
  /\ Allowed \subseteq Practices

VARIABLES
  transfers,  \* new_Tox::transfers of each peer, None where there is no entry
  slots,      \* toxcore: of each file number, "none", "offered" or "accepted"
  net,        \* packets on their way to each peer
  asked,      \* file_request_chunk events for data the client has not sent yet
  told,       \* file_request_chunk events of length 0, which need no answer
  isFriend,   \* is the other peer in the friend list?
  aborted,    \* an assertion failed and ended the process
  stage,      \* where new_tox_iteration is, "idle" when it does not run
  sends,      \* how many files the peer has sent
  resumed     \* history: transfers the client has resumed

client == <<sends, resumed>>
vars == <<transfers, slots, net, asked, told, isFriend, aborted, stage, client>>

Other(p) == CHOOSE q \in Peers : q # p
Alive(p) == ~aborted[p]
AtRest(p) == Alive(p) /\ stage[p] = "idle"

\* file_transfer::new_file_number, old_file_number and send_receive; receive_send
\* is 1 in a packet about a file that its addressee sends.
NewFileNumber(receive_send, n) == IF receive_send = 1 THEN n ELSE Incoming + n
OldFileNumber(fn) == fn % 256
SendReceive(fn) == IF fn >= Incoming THEN 1 ELSE 0

\* Faulty: "the initial state is running on the sending side", without consent.
TransferRunning(id, size, cause) ==
  [id |-> id, state |-> "RUNNING", cause |-> cause, position |-> 0,
   file_size |-> size, event_pending |-> FALSE]

\* id identifies the transfer for the properties: its sender and a count.
Transfer(id, size, cause) ==
  [id |-> id, state |-> "PAUSED", cause |-> cause, position |-> 0,
   file_size |-> size, event_pending |-> FALSE]

Request(id, n, size) == [type |-> "request", id |-> id, number |-> n, size |-> size]

\* at: where in the file the sending client read the data.
Data(id, n, at, length) ==
  [type |-> "data", id |-> id, number |-> n, at |-> at, length |-> length]

Control(fn, control) ==
  [type |-> "control", receive_send |-> SendReceive(fn), number |-> OldFileNumber(fn),
   control |-> control]

\* tox_file_send_control fails, without effect, for a file toxcore does not know.
SendControl(p, fn, control) ==
  IF slots[p][fn] = "none" THEN <<>> ELSE <<Control(fn, control)>>

Send(p, packets) == net' = [net EXCEPT ![Other(p)] = @ \o packets]

-----------------------------------------------------------------------------
(***************************************************************************)
(* new_tox_iteration: tox_do handles packets, calling the callbacks of     *)
(* new_Tox::CB; then the client is asked for chunks.  One packet or one    *)
(* request is one step, as the two peers share nothing but the packets.    *)
(***************************************************************************)

\* tox_do takes the next packet, of this type, and sends an answer.
Arrives(p, type) ==
  /\ Alive(p) /\ isFriend[p] /\ stage[p] # "asking"
  /\ net[p] # <<>> /\ Head(net[p]).type = type
  /\ stage' = [stage EXCEPT ![p] = "tox_do"]
  /\ UNCHANGED <<asked, isFriend, client>>

Answer(p, packets) == net' = [net EXCEPT ![p] = Tail(@), ![Other(p)] = @ \o packets]

Abort(p) ==
  /\ aborted' = [aborted EXCEPT ![p] = TRUE]
  /\ Answer(p, <<>>)
  /\ UNCHANGED <<transfers, slots, told>>

Ignore(p) == Answer(p, <<>>) /\ UNCHANGED <<transfers, slots, aborted, told>>

\* Faulty: the transfer stays in the map.
ForgetSlotOnly(p, fn) ==
  /\ slots' = [slots EXCEPT ![p][fn] = "none"]
  /\ UNCHANGED transfers

Forget(p, fn) ==
  /\ transfers' = [transfers EXCEPT ![p][fn] = None]
  /\ slots' = [slots EXCEPT ![p][fn] = "none"]

FileSendRequest(p, cause) ==
  LET m  == Head(net[p])
      fn == Incoming + m.number
  IN /\ Arrives(p, "request")
     /\ \/ transfers[p][fn] # None /\ Abort(p)
        \/ /\ transfers[p][fn] = None
           /\ transfers' = [transfers EXCEPT ![p][fn] = Transfer(m.id, m.size, cause)]
           /\ slots' = [slots EXCEPT ![p][fn] = "offered"]
           /\ Answer(p, <<>>)
           /\ UNCHANGED <<aborted, told>>

\* Faulty: the receiver's position stays where it is.
ReceivedUncounted(p, fn, length) == UNCHANGED transfers

\* transfer->position += length
Received(p, fn, length) ==
  transfers' = [transfers EXCEPT ![p][fn].position = (@ + length) % WordSize]

\* The answer to data that takes the transfer to this position.
\* Faulty: the end of the file is not acknowledged; every chunk is, as if it were the last.
AcknowledgeNever(t, fn, pos)  == <<>>
AcknowledgeAlways(t, fn, pos) == <<Control(fn, "FINISHED")>>

Acknowledge(t, fn, pos) == IF pos = t.file_size THEN <<Control(fn, "FINISHED")>> ELSE <<>>

FileData(p) ==
  LET m  == Head(net[p])
      fn == Incoming + m.number
      t  == transfers[p][fn]
  IN /\ Arrives(p, "data")
     /\ \/ slots[p][fn] # "accepted" /\ Ignore(p)
        \/ slots[p][fn] = "accepted" /\ t = None /\ Abort(p)
        \/ /\ slots[p][fn] = "accepted" /\ t # None
           /\ Received(p, fn, m.length)
           /\ Answer(p, Acknowledge(t, fn, (t.position + m.length) % WordSize))
           /\ UNCHANGED <<slots, aborted, told>>

\* "We're done, send a request for 0 bytes to let the client know", on either side.
\* id and file_size are those of the transfer, for the properties.
Notice(t, fn) ==
  [number |-> fn, id |-> t.id, position |-> t.position, file_size |-> t.file_size]

Tell(p, fn) == told' = [told EXCEPT ![p] = Append(@, Notice(transfers[p][fn], fn))]

\* A pause by the friend is not implemented but for an assertion.
FileControlled(p) ==
  LET m  == Head(net[p])
      fn == NewFileNumber(m.receive_send, m.number)
  IN /\ Arrives(p, "control")
     /\ \/ slots[p][fn] = "none" /\ Ignore(p)
        \/ /\ slots[p][fn] # "none"
           /\ transfers[p][fn] = None \/ m.control = "PAUSE"
           /\ Abort(p)
        \/ /\ slots[p][fn] # "none" /\ transfers[p][fn] # None /\ m.control = "FINISHED"
           /\ Tell(p, fn) /\ Forget(p, fn)
           /\ Answer(p, <<>>)
           /\ UNCHANGED aborted
        \/ /\ slots[p][fn] # "none" /\ transfers[p][fn] # None /\ m.control = "ACCEPT"
           /\ transfers' = [transfers EXCEPT ![p][fn].state = "RUNNING"]
           /\ slots' = [slots EXCEPT ![p][fn] = IF m.receive_send = 1 THEN "accepted" ELSE @]
           /\ Answer(p, <<>>)
           /\ UNCHANGED <<aborted, told>>

\* Running, not complete, and nothing asked that was not answered.
Wants(t) ==
  t # None /\ t.position # t.file_size /\ t.state = "RUNNING" /\ ~t.event_pending

Remaining(t) == (WordSize + t.file_size - t.position) % WordSize

\* Faulty: the end of the file forgotten, and the size of a packet forgotten.
ChunkRequestFull(t, fn) ==
  [number |-> fn, id |-> t.id, position |-> t.position, length |-> DataSize]

ChunkRequestRest(t, fn) ==
  [number |-> fn, id |-> t.id, position |-> t.position, length |-> Remaining(t)]

ChunkRequest(t, fn) ==
  [number |-> fn, id |-> t.id, position |-> t.position,
   length |-> IF DataSize < Remaining(t) THEN DataSize ELSE Remaining(t)]

\* Faulty: the event is not marked as pending.
AskedAgain(t) == t

Asked(t) == [t EXCEPT !.event_pending = TRUE]

\* In the order of the file numbers, as a std::map is iterated.
AskChunk(p, fn) ==
  /\ Alive(p) /\ Wants(transfers[p][fn])
  /\ \A other \in FileNumbers : Wants(transfers[p][other]) => fn <= other
  /\ asked' = [asked EXCEPT ![p] = Append(@, ChunkRequest(transfers[p][fn], fn))]
  /\ transfers' = [transfers EXCEPT ![p][fn] = Asked(@)]
  /\ stage' = [stage EXCEPT ![p] = "asking"]
  /\ UNCHANGED <<slots, net, told, isFriend, aborted, client>>

\* Also of an iteration that had nothing to do.
IterationReturns(p) ==
  /\ Alive(p)
  /\ \A fn \in FileNumbers : ~Wants(transfers[p][fn])
  /\ stage' = [stage EXCEPT ![p] = "idle"]
  /\ UNCHANGED <<transfers, slots, net, asked, told, isFriend, aborted, client>>

-----------------------------------------------------------------------------
(* Calls of the client.  Those that change nothing are left out: errors, and  *)
(* the control CANCEL, which the wrapper accepts and ignores.                *)

\* new_tox_file_send: toxcore chooses a number that is free there, the wrapper
\* asserts that it has no transfer of that number.
FileSend(p, n, size, cause) ==
  LET id == <<p, sends[p] + 1>>
  IN /\ AtRest(p) /\ isFriend[p] /\ sends[p] < MaxSends[p]
     /\ slots[p][n] = "none"
     /\ slots' = [slots EXCEPT ![p][n] = "offered"]
     /\ Send(p, <<Request(id, n, size)>>)
     /\ sends' = [sends EXCEPT ![p] = @ + 1]
     /\ IF transfers[p][n] # None
        THEN aborted' = [aborted EXCEPT ![p] = TRUE] /\ UNCHANGED transfers
        ELSE /\ transfers' = [transfers EXCEPT ![p][n] = Transfer(id, size, cause)]
             /\ UNCHANGED aborted
     /\ UNCHANGED <<asked, told, isFriend, stage, resumed>>

Room(p) == Len(net[Other(p)]) < MaxNet

Controls(p, fn) == AtRest(p) /\ isFriend[p] /\ Room(p) /\ transfers[p][fn] # None

\* The usual client resumes a transfer offered to it, once.
MayResume(p, fn) ==
  \/ "resume-any" \in Allowed
  \/ fn >= Incoming /\ transfers[p][fn].id \notin resumed[p]

\* The state stays PAUSED; a failure to send is ignored.
Resume(p, fn) ==
  LET t == transfers[p][fn]
  IN /\ Controls(p, fn) /\ MayResume(p, fn)
     /\ t.state = "PAUSED" /\ t.cause # "FRIEND"
     /\ Send(p, SendControl(p, fn, "ACCEPT"))
     /\ slots' = [slots EXCEPT ![p][fn] =
                    IF @ = "offered" /\ fn >= Incoming THEN "accepted" ELSE @]
     /\ resumed' = [resumed EXCEPT ![p] = @ \cup {t.id}]
     /\ UNCHANGED <<transfers, asked, told, isFriend, aborted, stage, sends>>

\* The state stays as it is; toxcore cannot refuse a file it does not know
\* without an assertion failing.
Pause(p, fn) ==
  /\ "pause" \in Allowed /\ Controls(p, fn)
  /\ transfers[p][fn].state # "PAUSED"
  /\ Send(p, SendControl(p, fn, "PAUSE"))
  /\ aborted' = [aborted EXCEPT ![p] = slots[p][fn] = "none"]
  /\ UNCHANGED <<transfers, slots, asked, told, isFriend, stage, client>>

ChunkLengths(r) ==
  (IF "empty-chunk" \in Allowed THEN {0} ELSE {}) \cup
  1..(IF "oversend" \in Allowed THEN DataSize ELSE r.length)

\* A chunk the client sends is one it read where it was asked to.
SendFails(p, r, length) ==
  \/ length = 0
  \/ /\ transfers[p][r.number] # None
     /\ slots[p][OldFileNumber(r.number)] # "accepted" \/ "busy" \in Allowed

\* new_tox_file_send_chunk
SendChunk(p, i, length) ==
  LET r   == asked[p][i]
      fn  == r.number
      t   == transfers[p][fn]
      pos == (t.position + length) % WordSize
  IN /\ AtRest(p) /\ isFriend[p] /\ Room(p)
     /\ asked' = [asked EXCEPT ![p] = RemoveAt(@, i)]
     /\ \/ /\ SendFails(p, r, length)
           /\ aborted' = [aborted EXCEPT ![p] = TRUE]
           /\ UNCHANGED <<transfers, net>>
        \/ /\ length > 0 /\ t # None
           /\ slots[p][OldFileNumber(fn)] = "accepted"
           /\ transfers' = [transfers EXCEPT ![p][fn].position = pos,
                                             ![p][fn].event_pending = FALSE]
           /\ Send(p, <<Data(t.id, OldFileNumber(fn), r.position, length)>> \o
                      IF pos = t.file_size THEN SendControl(p, fn, "FINISHED") ELSE <<>>)
           /\ aborted' = [aborted EXCEPT ![p] = pos = t.file_size /\ slots[p][fn] = "none"]
        \/ /\ length > 0 /\ t = None   \* NOT_FOUND
           /\ UNCHANGED <<transfers, net, aborted>>
     /\ UNCHANGED <<slots, told, isFriend, stage, client>>

\* new_tox_friend_delete: toxcore forgets the files of the friend.
FriendDelete(p) ==
  /\ "delete" \in Allowed /\ AtRest(p) /\ isFriend[p]
  /\ isFriend' = [isFriend EXCEPT ![p] = FALSE]
  /\ slots' = [slots EXCEPT ![p] = [fn \in FileNumbers |-> "none"]]
  /\ UNCHANGED <<transfers, net, asked, told, aborted, stage, client>>

\* The friend gets the number it had, and connects again.
FriendAdd(p) ==
  /\ AtRest(p) /\ ~isFriend[p]
  /\ isFriend' = [isFriend EXCEPT ![p] = TRUE]
  /\ net' = [net EXCEPT ![p] = <<>>]
  /\ UNCHANGED <<transfers, slots, asked, told, aborted, stage, client>>

-----------------------------------------------------------------------------
Init ==
  /\ transfers = [p \in Peers |-> [fn \in FileNumbers |-> None]]
  /\ slots = [p \in Peers |-> [fn \in FileNumbers |-> "none"]]
  /\ net = [p \in Peers |-> <<>>]
  /\ asked = [p \in Peers |-> <<>>]
  /\ told = [p \in Peers |-> <<>>]
  /\ isFriend = [p \in Peers |-> TRUE]
  /\ aborted = [p \in Peers |-> FALSE]
  /\ stage = [p \in Peers |-> "idle"]
  /\ sends = [p \in Peers |-> 0]
  /\ resumed = [p \in Peers |-> {}]

\* Packets of somebody who is not a friend are not handled.
Receives(p) ==
  (\E cause \in Garbage : FileSendRequest(p, cause)) \/ FileData(p) \/ FileControlled(p)

Asks(p) == IterationReturns(p) \/ \E fn \in FileNumbers : AskChunk(p, fn)

Answers(p) ==
  \E i \in DOMAIN asked[p] : \E length \in ChunkLengths(asked[p][i]) : SendChunk(p, i, length)

Offers(p) ==
  \E n \in Numbers, size \in Sizes, cause \in Garbage : FileSend(p, n, size, cause)

Calls(p, fn) == Resume(p, fn) \/ Pause(p, fn)

Next ==
  \E p \in Peers :
    \/ Receives(p) \/ Asks(p) \/ Answers(p) \/ Offers(p)
    \/ \E fn \in FileNumbers : Calls(p, fn)
    \/ FriendDelete(p) \/ FriendAdd(p)

Spec == Init /\ [][Next]_vars

(***************************************************************************)
(* Both clients keep iterating, packets arrive, and a client answers the   *)
(* requests for chunks, as the documentation of file_request_chunk asks.   *)
(***************************************************************************)
Fairness ==
  \A p \in Peers : WF_vars(Receives(p)) /\ WF_vars(Asks(p)) /\ WF_vars(Answers(p))

FairSpec == Spec /\ Fairness

-----------------------------------------------------------------------------
Ids == UNION {{<<p, i>> : i \in 1..MaxSends[p]} : p \in Peers}
Transfers ==
  [id : Ids, state : {"PAUSED", "RUNNING"}, cause : Garbage,
   position : 0..(WordSize - 1), file_size : Sizes, event_pending : BOOLEAN]

ASSUME NoneAssumption == None \notin Transfers

Requests ==
  [number : FileNumbers, id : Ids, position : 0..(WordSize - 1), length : 1..DataSize]

Notices ==
  [number : FileNumbers, id : Ids, position : 0..(WordSize - 1), file_size : Sizes]

Packets ==
  [type : {"request"}, id : Ids, number : Numbers, size : Sizes] \cup
  [type : {"data"}, id : Ids, number : Numbers, at : 0..(WordSize - 1), length : 1..DataSize] \cup
  [type : {"control"}, receive_send : {0, 1}, number : Numbers,
   control : {"ACCEPT", "PAUSE", "FINISHED"}]

TypeOK ==
  /\ transfers \in [Peers -> [FileNumbers -> Transfers \cup {None}]]
  /\ slots \in [Peers -> [FileNumbers -> {"none", "offered", "accepted"}]]
  /\ net \in [Peers -> Seq(Packets)]
  /\ asked \in [Peers -> Seq(Requests)]
  /\ told \in [Peers -> Seq(Notices)]
  /\ isFriend \in [Peers -> BOOLEAN]
  /\ aborted \in [Peers -> BOOLEAN]
  /\ stage \in [Peers -> {"idle", "tox_do", "asking"}]
  /\ sends \in [Peers -> Nat]
  /\ resumed \in [Peers -> SUBSET Ids]

\* No assertion of the wrapper fails: a callback finds the transfer it is about,
\* a new transfer finds its number free, although numbers are reused as soon as
\* the friend's FINISHED arrives, and toxcore accepts every chunk.
NoAbort == \A p \in Peers : Alive(p)

\* The wrapper's map has an entry for exactly the files toxcore knows of.
MapMirrors ==
  \A p \in Peers, fn \in FileNumbers :
    Alive(p) => (transfers[p][fn] # None <=> slots[p][fn] # "none")

\* Neither side goes past the end of the file; file_size - position would wrap
\* around, and position = file_size, the only test for the end, never hold.
NoOverrun ==
  \A p \in Peers, fn \in FileNumbers :
    LET t == transfers[p][fn] IN t # None => t.position <= t.file_size

\* file_receive_chunk tells the client the position of the data in the file, in
\* the transfer the data was read for.
InOrder ==
  \A p \in Peers :
    LET m == Head(net[p])
        t == transfers[p][Incoming + m.number]
    IN Alive(p) /\ isFriend[p] /\ net[p] # <<>> /\ m.type = "data" =>
         t # None /\ t.id = m.id /\ t.position = m.at

\* A request the client has not answered is the only one for its transfer, and
\* is for the transfer's position: answering late never sends old data.
RequestsCurrent ==
  \A p \in Peers :
    /\ \A i \in DOMAIN asked[p] :
         LET r == asked[p][i]
             t == transfers[p][r.number]
         IN t # None /\ t.id = r.id /\ t.position = r.position /\ t.event_pending
    /\ \A i, j \in DOMAIN asked[p] : asked[p][i].number = asked[p][j].number => i = j

\* Data is only asked of the client that sends the file.
DataOnlyOutgoing ==
  \A p \in Peers : \A i \in DOMAIN asked[p] : asked[p][i].number < Incoming

\* What core.h and FileTransferTest say of file_request_chunk: only the client that sends
\* a file gets it, with the number file_send returned.  The event of length 0 goes to both.
RequestsOnlyOutgoing ==
  DataOnlyOutgoing /\ \A p \in Peers : \A i \in DOMAIN told[p] : told[p][i].number < Incoming

Keeps(p, id) == \E fn \in FileNumbers : transfers[p][fn] # None /\ transfers[p][fn].id = id

\* A client that sends a file is told of its end once, when the wrapper gives the transfer
\* up and not before.  Whoever is told that a file is finished has moved all of it, and a
\* friend who has not ended the transfer yet has moved all of it, too.
EndsTold ==
  \A p \in Peers :
    /\ \A i \in 1..sends[p] :
         Keeps(p, <<p, i>>) <=> \A k \in DOMAIN told[p] : told[p][k].id # <<p, i>>
    /\ \A k \in DOMAIN told[p] :
         /\ told[p][k].position = told[p][k].file_size
         /\ \A l \in DOMAIN told[p] : told[p][k].id = told[p][l].id => k = l
         /\ \A fn \in FileNumbers :
              LET t == transfers[Other(p)][fn]
              IN t # None /\ t.id = told[p][k].id => t.position = t.file_size

\* A file is sent only after the receiving client has resumed that transfer,
\* not one that had its number before.
Consent ==
  \A p \in Peers, n \in Numbers :
    LET t == transfers[p][n]
    IN t # None /\ t.state = "RUNNING" => t.id \in resumed[Other(p)]

\* What will take the file that p sends by number n on: a request to be made, one to be
\* answered, or a packet on its way.
Moving(p, n) ==
  \/ Wants(transfers[p][n])
  \/ \E i \in DOMAIN asked[p] : asked[p][i].number = n
  \/ \E i \in DOMAIN net[p] :
       LET m == net[p][i] IN m.type = "control" /\ m.receive_send = 1 /\ m.number = n
  \/ \E i \in DOMAIN net[Other(p)] :
       LET m == net[Other(p)][i]
       IN m.number = n /\ (m.type = "data" \/ (m.type = "control" /\ m.receive_send = 0))

\* Neither side is left with a transfer that the receiving client resumed and that
\* nothing takes on.  A stream (size 0) is: it counts as complete before it starts.
NeverStuck ==
  \A p \in Peers, n \in Numbers :
    \A t \in {transfers[p][n], transfers[Other(p)][Incoming + n]} \ {None} :
      Alive(p) /\ t.id \in resumed[Other(p)] /\ t.file_size # 0 => Moving(p, n)

\* A transfer that the receiving client resumed comes to an end on both sides.
Ongoing(id) == \E p \in Peers : Keeps(p, id)

Completes ==
  \A p, q \in Peers : \A i \in 1..MaxSends[q] :
    <<q, i>> \in resumed[p] ~> ~Ongoing(<<q, i>>)

\* A stream, which is a file of size 0, is sent in chunks that are requested once it runs.
\* core.h says so of tox_file_send; the code takes the stream for complete.
StreamsAsked ==
  \A p \in Peers, n \in Numbers :
    LET t == transfers[p][n]
    IN t # None /\ t.file_size = 0 /\ t.state = "RUNNING" ~>
         \E i \in DOMAIN asked[p] : asked[p][i].number = n
=============================================================================
