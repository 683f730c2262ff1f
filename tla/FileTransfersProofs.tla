------------------------- MODULE FileTransfersProofs -------------------------
(***************************************************************************)
(* Proofs about FileTransfers.  What packets are on their way about one    *)
(* file number and what both peers know of it fit together: Pair says how, *)
(* in the stages a file goes through.  Of what a client may do beyond the  *)
(* usual, all this stands what is Tolerated, although of that every thing  *)
(* may end a process.                                                      *)
(***************************************************************************)
EXTENDS FileRefinement, FiniteSetTheorems, SequenceTheorems, TLAPS

\* Packets about file number n of the sender, on their way to the receiver ...
IsRequest(m, n) == m.type = "request" /\ m.number = n
IsData(m, n)    == m.type = "data" /\ m.number = n
IsEnd(m, n) ==
  m.type = "control" /\ m.receive_send = 0 /\ m.number = n /\ m.control = "FINISHED"

\* ... and on their way back.
IsAccept(m, n) ==
  m.type = "control" /\ m.receive_send = 1 /\ m.number = n /\ m.control = "ACCEPT"
IsReceipt(m, n) ==
  m.type = "control" /\ m.receive_send = 1 /\ m.number = n /\ m.control = "FINISHED"

Onward(m, n) == IsRequest(m, n) \/ IsData(m, n) \/ IsEnd(m, n)
Back(m, n)   == IsAccept(m, n) \/ IsReceipt(m, n)

NoRequest(s, n) == \A i \in DOMAIN s : ~IsRequest(s[i], n)
NoData(s, n)    == \A i \in DOMAIN s : ~IsData(s[i], n)
NoEnd(s, n)     == \A i \in DOMAIN s : ~IsEnd(s[i], n)
NoAccept(s, n)  == \A i \in DOMAIN s : ~IsAccept(s[i], n)
NoReceipt(s, n) == \A i \in DOMAIN s : ~IsReceipt(s[i], n)

OneRequest(s, n, id, size) ==
  \E i \in DOMAIN s :
    /\ IsRequest(s[i], n) /\ s[i].id = id /\ s[i].size = size
    /\ \A j \in DOMAIN s : IsRequest(s[j], n) => j = i
OneEnd(s, n) ==
  \E i \in DOMAIN s : IsEnd(s[i], n) /\ \A j \in DOMAIN s : IsEnd(s[j], n) => j = i
OneAccept(s, n) ==
  \E i \in DOMAIN s : IsAccept(s[i], n) /\ \A j \in DOMAIN s : IsAccept(s[j], n) => j = i
OneReceipt(s, n) ==
  \E i \in DOMAIN s : IsReceipt(s[i], n) /\ \A j \in DOMAIN s : IsReceipt(s[j], n) => j = i

\* The end of one transfer arrives before the offer of the next ...
EndFirst(s, n) == \A i, j \in DOMAIN s : IsEnd(s[i], n) /\ IsRequest(s[j], n) => i < j

\* ... and after its data.
EndLast(s, n) == \A i, j \in DOMAIN s : IsData(s[i], n) /\ IsEnd(s[j], n) => i < j

\* The data on its way is the file from one position to another, in order.
Chain(s, n, id, from, to) ==
  /\ from <= to
  /\ \A i \in DOMAIN s : IsData(s[i], n) =>
       /\ s[i].id = id /\ from <= s[i].at /\ s[i].at + s[i].length <= to
       /\ \/ s[i].at = from
          \/ \E j \in DOMAIN s : j < i /\ IsData(s[j], n) /\ s[j].at + s[j].length = s[i].at
       /\ \A j \in DOMAIN s : j < i /\ IsData(s[j], n) => s[j].at + s[j].length <= s[i].at
  /\ from = to \/ \E i \in DOMAIN s : IsData(s[i], n) /\ s[i].at + s[i].length = to

-----------------------------------------------------------------------------
(* a and sa are what the sender's map and its toxcore know of a file number, b *)
(* and sb the receiver's; F are the packets on their way to the receiver, B    *)
(* those to the sender, heard the files the receiver has resumed.              *)

\* The receiver has nothing, or a file that is complete and whose end is on its way.
Over(b, sb, F, heard, n) ==
  \/ b = None /\ sb = "none" /\ NoEnd(F, n)
  \/ /\ b # None /\ sb = "accepted" /\ b.position = b.file_size
     /\ b.id \in heard /\ OneEnd(F, n)

Idle(a, sa, b, sb, F, B, heard, n) ==
  /\ a = None /\ sa = "none"
  /\ NoRequest(F, n) /\ NoData(F, n) /\ NoAccept(B, n) /\ NoReceipt(B, n)
  /\ Over(b, sb, F, heard, n)

\* The sender has offered the file and waits.
Paused(a, sa) ==
  /\ a # None /\ sa = "offered"
  /\ a.state = "PAUSED" /\ a.position = 0 /\ ~a.event_pending

Offered(a, sa, b, sb, F, B, heard, n) ==
  /\ Paused(a, sa) /\ a.id \notin heard
  /\ OneRequest(F, n, a.id, a.file_size) /\ EndFirst(F, n)
  /\ NoData(F, n) /\ NoAccept(B, n) /\ NoReceipt(B, n)
  /\ Over(b, sb, F, heard, n)

\* Both sides know of the file.
Agree(a, b) == b # None /\ b.id = a.id /\ b.file_size = a.file_size

Announced(a, sa, b, sb, F, B, heard, n) ==
  /\ Paused(a, sa) /\ Agree(a, b) /\ b.position = 0
  /\ NoRequest(F, n) /\ NoData(F, n) /\ NoEnd(F, n) /\ NoReceipt(B, n)
  /\ \/ sb = "offered" /\ a.id \notin heard /\ NoAccept(B, n)
     \/ sb = "accepted" /\ a.id \in heard /\ OneAccept(B, n)

Running(a, sa, heard) ==
  /\ a # None /\ sa = "accepted"
  /\ a.state = "RUNNING" /\ a.id \in heard /\ a.position <= a.file_size

\* A side has done its part, which it tells the other once.  An empty file has no end.
Complete(t) == t.position = t.file_size /\ t.file_size # 0

Sending(a, sa, b, sb, F, B, heard, n) ==
  /\ Running(a, sa, heard) /\ Agree(a, b) /\ sb = "accepted"
  /\ Chain(F, n, a.id, b.position, a.position) /\ EndLast(F, n)
  /\ NoRequest(F, n) /\ NoAccept(B, n)
  /\ IF Complete(a) THEN OneEnd(F, n) ELSE NoEnd(F, n)
  /\ IF Complete(b) THEN OneReceipt(B, n) ELSE NoReceipt(B, n)

\* The receiver is through with the file, the sender has not heard so.
Ended(a, sa, b, sb, F, B, heard, n) ==
  /\ Running(a, sa, heard) /\ Complete(a) /\ b = None /\ sb = "none"
  /\ NoRequest(F, n) /\ NoData(F, n) /\ NoEnd(F, n) /\ NoAccept(B, n) /\ OneReceipt(B, n)

Pair(a, sa, b, sb, F, B, heard, n) ==
  \/ Idle(a, sa, b, sb, F, B, heard, n)
  \/ Offered(a, sa, b, sb, F, B, heard, n)
  \/ Announced(a, sa, b, sb, F, B, heard, n)
  \/ Sending(a, sa, b, sb, F, B, heard, n)
  \/ Ended(a, sa, b, sb, F, B, heard, n)

\* The file that peer p sends, and the one that it receives, by this number.
SentBy(p, n) ==
  Pair(transfers[p][n], slots[p][n], transfers[Other(p)][Incoming + n],
       slots[Other(p)][Incoming + n], net[Other(p)], net[p], resumed[Other(p)], n)
ReceivedBy(p, n) ==
  Pair(transfers[Other(p)][n], slots[Other(p)][n], transfers[p][Incoming + n],
       slots[p][Incoming + n], net[p], net[Other(p)], resumed[p], n)

PairInv == \A p \in Peers, n \in Numbers : SentBy(p, n)

\* The wrapper never resumes the receiving side, and asks it for nothing.
ReceiverInv ==
  \A p \in Peers, n \in Numbers :
    LET t == transfers[p][Incoming + n]
    IN t # None => t.state = "PAUSED" /\ ~t.event_pending

\* Ids are given once.
GivenIds(p, k) == {<<p, i>> : i \in 1..k}

IdInv ==
  \A p \in Peers :
    /\ \A n \in Numbers : transfers[p][n] # None =>
         transfers[p][n].id \in GivenIds(p, sends[p])
    /\ \A m, n \in Numbers : transfers[p][m] # None /\ transfers[p][n] # None /\
         transfers[p][m].id = transfers[p][n].id => m = n
    /\ resumed[Other(p)] \subseteq GivenIds(p, sends[p])

\* What the client was asked for, it is still to send.
RequestInv ==
  /\ RequestsCurrent /\ DataOnlyOutgoing
  /\ \A p \in Peers : \A i \in DOMAIN asked[p] :
       asked[p][i].position + asked[p][i].length
         <= transfers[p][asked[p][i].number].file_size
  /\ \A p \in Peers, n \in Numbers :
       transfers[p][n] # None /\ transfers[p][n].event_pending =>
         transfers[p][n].state = "RUNNING" /\ transfers[p][n].position < transfers[p][n].file_size

\* Pausing has no effect but on a process that is asked to.
IsPause(m) == m.type = "control" /\ m.control = "PAUSE"

\* The peers stay friends, and no sender accepts a file.
Usual(m) == m.type = "control" /\ m.receive_send = 0 => m.control # "ACCEPT"

PeerInv ==
  \A p \in Peers : isFriend[p] /\ \A i \in DOMAIN net[p] : Usual(net[p][i])

\* What clients may do, and files still arrive as they were sent, or not at all.
Tolerated == {"pause", "empty-chunk", "busy"}

TransferInv == TypeOK /\ PeerInv /\ PairInv /\ ReceiverInv /\ IdInv /\ RequestInv
-----------------------------------------------------------------------------
(* The two peers, and arithmetic.                                          *)

LEMMA TwoPeers ==
  ASSUME NEW p \in Peers
  PROVE  /\ Other(p) \in Peers /\ Other(p) # p /\ Other(Other(p)) = p
         /\ \A q \in Peers : q = p \/ q = Other(p)
<1>1. IsFiniteSet(Peers) /\ Cardinality(Peers) = 2
  BY TransfersAssumption
<1>2. IsFiniteSet(Peers \ {p}) /\ Cardinality(Peers \ {p}) = 1
  BY <1>1, FS_RemoveElement
<1>3. PICK q : Peers \ {p} = {q}
  BY <1>2, FS_Singleton
<1>4. q \in Peers /\ q # p /\ \A r \in Peers : r = p \/ r = q
  BY <1>3
<1>5. \E r : r \in Peers /\ r # p
  BY <1>4
<1>6. Other(p) \in Peers /\ Other(p) # p
  BY <1>4 DEF Other
<1>7. Other(p) = q
  BY <1>4, <1>6
<1>8. Other(q) \in Peers /\ Other(q) # q
  BY <1>4 DEF Other
<1>. QED  BY <1>4, <1>7, <1>8

LEMMA Widths ==
  ASSUME NEW s \in Sizes
  PROVE  /\ s \in Nat /\ DataSize \in Nat \ {0} /\ WordSize \in Nat \ {0}
         /\ s + DataSize < WordSize
BY TransfersAssumption

LEMMA Modulo ==
  ASSUME NEW w \in Nat \ {0}, NEW x \in Nat
  PROVE  /\ x % w \in 0..(w - 1)
         /\ x < w => x % w = x
         /\ w <= x /\ x < w + w => x % w = x - w
OBVIOUS

LEMMA FileNumber ==
  ASSUME NEW n \in Numbers
  PROVE  /\ n \in 0..255 /\ n \in FileNumbers /\ Incoming + n \in FileNumbers
         /\ OldFileNumber(n) = n /\ OldFileNumber(Incoming + n) = n
         /\ SendReceive(n) = 0 /\ SendReceive(Incoming + n) = 1
         /\ NewFileNumber(1, n) = n /\ NewFileNumber(0, n) = Incoming + n
         /\ n < Incoming /\ ~(Incoming + n < Incoming)
BY TransfersAssumption DEF FileNumbers, Incoming, OldFileNumber, SendReceive, NewFileNumber

LEMMA FileNumberIs ==
  ASSUME NEW fn \in FileNumbers
  PROVE  /\ fn \in Nat /\ OldFileNumber(fn) \in Numbers /\ SendReceive(fn) \in {0, 1}
         /\ fn < Incoming => fn \in Numbers /\ OldFileNumber(fn) = fn /\ SendReceive(fn) = 0
         /\ ~(fn < Incoming) => fn = Incoming + OldFileNumber(fn) /\ SendReceive(fn) = 1
<1>1. CASE fn \in Numbers
  BY <1>1, FileNumber DEF Incoming
<1>2. CASE \E n \in Numbers : fn = Incoming + n
  BY <1>2, FileNumber DEF Incoming
<1>. QED  BY <1>1, <1>2 DEF FileNumbers

-----------------------------------------------------------------------------
(* Packets and types.                                                      *)

LEMMA Concat ==
  ASSUME NEW s \in Seq(Packets)
  PROVE  /\ s \o <<>> = s
         /\ \A m \in Packets :
              /\ s \o <<m>> = Append(s, m)
              /\ s \o (<<m>> \o <<>>) = Append(s, m)
              /\ \A k \in Packets : s \o (<<m>> \o <<k>>) = Append(Append(s, m), k)
<1>1. s \o <<>> = s
  BY ConcatEmptySeq
<1>2. ASSUME NEW m \in Packets  PROVE s \o <<m>> = Append(s, m)
  BY AppendIsConcat
<1>3. ASSUME NEW m \in Packets  PROVE s \o (<<m>> \o <<>>) = Append(s, m)
  <2>1. <<m>> \in Seq(Packets)
    OBVIOUS
  <2>. QED  BY <1>2, <2>1, ConcatEmptySeq
<1>4. ASSUME NEW m \in Packets, NEW k \in Packets
      PROVE  s \o (<<m>> \o <<k>>) = Append(Append(s, m), k)
  <2>1. Append(s, m) \in Seq(Packets) /\ <<m>> \in Seq(Packets) /\ <<k>> \in Seq(Packets)
    BY AppendProperties
  <2>2. Append(Append(s, m), k) = (s \o <<m>>) \o <<k>>
    BY <1>2, <2>1, AppendIsConcat
  <2>3. @ = s \o (<<m>> \o <<k>>)
    BY <2>1, ConcatAssociative
  <2>. QED  BY <2>2, <2>3
<1>. QED  BY <1>1, <1>2, <1>3, <1>4

LEMMA ControlTypes ==
  ASSUME NEW fn \in FileNumbers, NEW c \in {"ACCEPT", "PAUSE", "FINISHED"}
  PROVE  /\ Control(fn, c) \in Packets
         /\ \A p : SendControl(p, fn, c) \in Seq(Packets)
<1>1. Control(fn, c) \in Packets
  BY FileNumberIs DEF Control, Packets
<1>. QED  BY <1>1 DEF SendControl

LEMMA SendTypes ==
  ASSUME net \in [Peers -> Seq(Packets)], NEW p \in Peers, NEW packets \in Seq(Packets)
  PROVE  /\ Send(p, packets) => net' \in [Peers -> Seq(Packets)]
         /\ Answer(p, packets) /\ net[p] # <<>> => net' \in [Peers -> Seq(Packets)]
<1>1. Other(p) \in Peers /\ Other(p) # p
  BY TwoPeers
<1>2. net[Other(p)] \o packets \in Seq(Packets)
  BY <1>1, ConcatProperties
<1>3. net[p] # <<>> => Tail(net[p]) \in Seq(Packets)
  OBVIOUS
<1>. QED  BY <1>1, <1>2, <1>3 DEF Send, Answer

Maps == [Peers -> [FileNumbers -> Transfers \cup {None}]]

\* One entry of a map changes.
LEMMA MapTypes ==
  ASSUME NEW ts \in Maps, NEW p \in Peers, NEW fn \in FileNumbers
  PROVE  \A t \in Transfers \cup {None} : [ts EXCEPT ![p][fn] = t] \in Maps
BY DEF Maps

LEMMA SlotTypes ==
  ASSUME NEW ss \in [Peers -> [FileNumbers -> {"none", "offered", "accepted"}]],
         NEW p \in Peers, NEW fn \in FileNumbers, NEW x \in {"none", "offered", "accepted"}
  PROVE  [ss EXCEPT ![p][fn] = x] \in [Peers -> [FileNumbers -> {"none", "offered", "accepted"}]]
OBVIOUS

LEMMA TransferTypes ==
  ASSUME NEW t \in Transfers
  PROVE  /\ [t EXCEPT !.state = "RUNNING"] \in Transfers
         /\ \A pending \in BOOLEAN : [t EXCEPT !.event_pending = pending] \in Transfers
         /\ \A length \in 0..DataSize :
              /\ (t.position + length) % WordSize \in 0..(WordSize - 1)
              /\ [t EXCEPT !.position = (@ + length) % WordSize] \in Transfers
              /\ [t EXCEPT !.position = (t.position + length) % WordSize,
                           !.event_pending = FALSE] \in Transfers
<1>1. [t EXCEPT !.state = "RUNNING"] \in Transfers
  BY DEF Transfers
<1>2. \A pending \in BOOLEAN : [t EXCEPT !.event_pending = pending] \in Transfers
  BY DEF Transfers
<1>3. ASSUME NEW length \in 0..DataSize
      PROVE  (t.position + length) % WordSize \in 0..(WordSize - 1)
  <2>1. t.file_size \in Sizes /\ t.position \in Nat
    BY Widths DEF Transfers
  <2>2. WordSize \in Nat \ {0} /\ t.position + length \in Nat
    BY <2>1, Widths
  <2>. QED  BY ONLY <2>2, Modulo
<1>4. ASSUME NEW length \in 0..DataSize
      PROVE  /\ [t EXCEPT !.position = (@ + length) % WordSize] \in Transfers
             /\ [t EXCEPT !.position = (t.position + length) % WordSize,
                          !.event_pending = FALSE] \in Transfers
  BY <1>3 DEF Transfers
<1>. QED  BY <1>1, <1>2, <1>3, <1>4

LEMMA TransferMade ==
  ASSUME NEW id \in Ids, NEW size \in Sizes, NEW cause \in Garbage
  PROVE  Transfer(id, size, cause) \in Transfers
<1>1. WordSize \in Nat \ {0}
  BY Widths
<1>. QED  BY <1>1 DEF Transfer, Transfers

LEMMA NewId ==
  ASSUME NEW p \in Peers, sends[p] \in Nat, sends[p] < MaxSends[p]
  PROVE  <<p, sends[p] + 1>> \in Ids
<1>1. sends[p] + 1 \in 1..MaxSends[p]
  BY TransfersAssumption
<1>. QED  BY <1>1 DEF Ids

\* A transfer that wants a chunk wants at least a byte.
LEMMA RequestTypes ==
  ASSUME NEW fn \in FileNumbers, NEW t \in Transfers, Wants(t)
  PROVE  /\ ChunkRequest(t, fn) \in Requests
         /\ t.position < t.file_size => Remaining(t) = t.file_size - t.position
<1>1. /\ t.file_size \in Nat /\ t.position \in 0..(WordSize - 1) /\ t.position # t.file_size
      /\ WordSize \in Nat \ {0} /\ DataSize \in Nat \ {0} /\ t.file_size < WordSize
  BY Widths DEF Transfers, Wants
<1>2. WordSize + t.file_size - t.position \in Nat
  BY <1>1
<1>3. /\ Remaining(t) \in 1..(WordSize - 1)
      /\ t.position < t.file_size => Remaining(t) = t.file_size - t.position
  <2>1. CASE t.position < t.file_size
    <3>1. /\ WordSize <= WordSize + t.file_size - t.position
          /\ WordSize + t.file_size - t.position < WordSize + WordSize
      BY <1>1, <2>1
    <3>2. PICK x \in Nat : x = WordSize + t.file_size - t.position
      BY <1>2
    <3>3. x % WordSize = x - WordSize
      BY <1>1, <3>1, <3>2, Modulo
    <3>. QED  BY <1>1, <2>1, <3>2, <3>3 DEF Remaining
  <2>2. CASE t.file_size < t.position
    <3>1. WordSize + t.file_size - t.position < WordSize
      BY <1>1, <2>2
    <3>2. Remaining(t) = WordSize + t.file_size - t.position
      BY <1>1, <1>2, <3>1, Modulo DEF Remaining
    <3>. QED  BY <1>1, <2>2, <3>2
  <2>. QED  BY <1>1, <2>1, <2>2
<1>4. ChunkRequest(t, fn).length \in 1..DataSize
  BY <1>1, <1>3 DEF ChunkRequest
<1>. QED  BY <1>1, <1>3, <1>4 DEF ChunkRequest, Requests, Transfers

LEMMA TypeReceives ==
  ASSUME TypeOK, NEW p \in Peers, Receives(p)
  PROVE  TypeOK'
<1> USE DEF TypeOK, Arrives, client
<1>1. ASSUME NEW packets \in Seq(Packets), net[p] # <<>>, Answer(p, packets)
      PROVE  net' \in [Peers -> Seq(Packets)]
  BY <1>1, SendTypes
<1>2. net[p] # <<>> => Head(net[p]) \in Packets
  OBVIOUS
<1>3. <<>> \in Seq(Packets)
  OBVIOUS
<1>4. ASSUME Abort(p) \/ Ignore(p), net[p] # <<>>
      PROVE  /\ net' \in [Peers -> Seq(Packets)] /\ aborted' \in [Peers -> BOOLEAN]
             /\ transfers' = transfers /\ slots' = slots /\ told' = told
  BY <1>1, <1>3, <1>4 DEF Abort, Ignore
<1>5. ASSUME NEW cause \in Garbage, FileSendRequest(p, cause)
      PROVE  TypeOK'
  <2> DEFINE m == Head(net[p])
             fn == Incoming + m.number
  <2>1. m.id \in Ids /\ m.number \in Numbers /\ m.size \in Sizes /\ fn \in FileNumbers
    BY <1>2, <1>5, FileNumber DEF FileSendRequest, Packets
  <2>2. CASE Abort(p)
    BY <1>4, <1>5, <2>2 DEF FileSendRequest
  <2>3. CASE ~Abort(p)
    <3>1. /\ transfers' = [transfers EXCEPT ![p][fn] = Transfer(m.id, m.size, cause)]
          /\ slots' = [slots EXCEPT ![p][fn] = "offered"]
          /\ Answer(p, <<>>) /\ net[p] # <<>> /\ aborted' = aborted /\ told' = told
      BY <1>5, <2>3 DEF FileSendRequest
    <3>2. transfers' \in Maps
      BY <2>1, <3>1, MapTypes, TransferMade DEF Maps
    <3>3. slots' \in [Peers -> [FileNumbers -> {"none", "offered", "accepted"}]]
      BY <2>1, <3>1, SlotTypes
    <3>. QED  BY <1>1, <1>3, <1>5, <3>1, <3>2, <3>3 DEF FileSendRequest, Maps
  <2>. QED  BY <2>2, <2>3
<1>6. CASE FileData(p)
  <2> DEFINE m == Head(net[p])
             fn == Incoming + m.number
             t == transfers[p][fn]
  <2>1. m.number \in Numbers /\ m.length \in 1..DataSize /\ fn \in FileNumbers
    BY <1>2, <1>6, FileNumber DEF FileData, Packets
  <2>2. CASE Abort(p) \/ Ignore(p)
    BY <1>4, <1>6, <2>2 DEF FileData
  <2>3. CASE ~(Abort(p) \/ Ignore(p))
    <3>1. /\ t # None /\ Received(p, fn, m.length) /\ net[p] # <<>>
          /\ Answer(p, Acknowledge(t, fn, (t.position + m.length) % WordSize))
          /\ slots' = slots /\ aborted' = aborted /\ told' = told
      BY <1>6, <2>3 DEF FileData
    <3>2. t \in Transfers
      <4>1. t \in Transfers \cup {None}
        BY <2>1
      <4>. QED  BY <3>1, <4>1
    <3>3. transfers' = [transfers EXCEPT ![p][fn] = [t EXCEPT !.position = (@ + m.length) % WordSize]]
      BY <3>1 DEF Received
    <3>4. transfers' \in Maps
      <4>1. m.length \in 0..DataSize
        BY <2>1, TransfersAssumption
      <4>2. [t EXCEPT !.position = (@ + m.length) % WordSize] \in Transfers
        BY <3>2, <4>1, TransferTypes
      <4>3. transfers \in Maps
        BY DEF Maps
      <4>. QED  BY <2>1, <3>3, <4>2, <4>3, MapTypes
    <3>5. Acknowledge(t, fn, (t.position + m.length) % WordSize) \in Seq(Packets)
      BY <2>1, ControlTypes DEF Acknowledge
    <3>. QED  BY <1>1, <1>6, <3>1, <3>4, <3>5 DEF FileData, Maps
  <2>. QED  BY <2>2, <2>3
<1>7. CASE FileControlled(p)
  <2> DEFINE m == Head(net[p])
             fn == NewFileNumber(m.receive_send, m.number)
             t == transfers[p][fn]
  <2>1. m.number \in Numbers /\ m.receive_send \in {0, 1} /\ fn \in FileNumbers
    BY <1>2, <1>7, FileNumber DEF FileControlled, Packets
  <2>2. CASE Abort(p) \/ Ignore(p)
    BY <1>4, <1>7, <2>2 DEF FileControlled
  <2>3. CASE t # None /\ Tell(p, fn) /\ Forget(p, fn) /\ Answer(p, <<>>) /\ aborted' = aborted
    <3>1. transfers' \in Maps
      BY <2>1, <2>3, MapTypes DEF Maps, Forget
    <3>2. slots' \in [Peers -> [FileNumbers -> {"none", "offered", "accepted"}]]
      BY <2>1, <2>3, SlotTypes DEF Forget
    <3>3. told' \in [Peers -> Seq(Notices)]
      <4>1. t \in Transfers
        BY <2>1, <2>3
      <4>2. Notice(t, fn) \in Notices
        BY <2>1, <4>1 DEF Notice, Notices, Transfers
      <4>3. Append(told[p], Notice(t, fn)) \in Seq(Notices)
        BY <4>2, AppendProperties
      <4>. QED  BY <2>3, <4>3 DEF Tell
    <3>. QED  BY <1>1, <1>3, <1>7, <2>3, <3>1, <3>2, <3>3 DEF FileControlled, Maps
  <2>4. ASSUME t # None, transfers' = [transfers EXCEPT ![p][fn].state = "RUNNING"],
               slots' = [slots EXCEPT ![p][fn] = IF m.receive_send = 1 THEN "accepted" ELSE @],
               Answer(p, <<>>), aborted' = aborted, told' = told
        PROVE  TypeOK'
    <3>1. t \in Transfers
      BY <2>1, <2>4
    <3>2. transfers' = [transfers EXCEPT ![p][fn] = [t EXCEPT !.state = "RUNNING"]]
      BY <2>4
    <3>3. transfers' \in Maps
      BY <2>1, <3>1, <3>2, MapTypes, TransferTypes DEF Maps
    <3>4. slots' \in [Peers -> [FileNumbers -> {"none", "offered", "accepted"}]]
      <4>1. slots[p][fn] \in {"none", "offered", "accepted"}
        BY <2>1
      <4>. QED  BY <2>1, <2>4, <4>1
    <3>. QED  BY <1>1, <1>3, <1>7, <2>4, <3>3, <3>4 DEF FileControlled, Maps
  <2>. QED  BY <1>7, <2>2, <2>3, <2>4 DEF FileControlled
<1>. QED  BY <1>5, <1>6, <1>7 DEF Receives

LEMMA TypeAsks ==
  ASSUME TypeOK, NEW p \in Peers, Asks(p)
  PROVE  TypeOK'
<1> USE DEF TypeOK, client
<1>1. CASE IterationReturns(p)
  BY <1>1 DEF IterationReturns
<1>2. ASSUME NEW fn \in FileNumbers, AskChunk(p, fn)
      PROVE  TypeOK'
  <2> DEFINE t == transfers[p][fn]
  <2>1. t \in Transfers /\ Wants(t)
    BY <1>2 DEF AskChunk, Wants
  <2>2. transfers' \in Maps
    <3>1. transfers \in Maps
      BY DEF Maps
    <3>2. Asked(t) \in Transfers /\ transfers' = [transfers EXCEPT ![p][fn] = Asked(t)]
      BY <1>2, <2>1, TransferTypes DEF Asked, AskChunk
    <3>. QED  BY <3>1, <3>2, MapTypes
  <2>3. asked' \in [Peers -> Seq(Requests)]
    <3>1. ChunkRequest(t, fn) \in Requests
      BY <2>1, RequestTypes
    <3>2. asked' = [asked EXCEPT ![p] = Append(asked[p], ChunkRequest(t, fn))]
      BY <1>2 DEF AskChunk
    <3>3. Append(asked[p], ChunkRequest(t, fn)) \in Seq(Requests)
      BY <3>1, AppendProperties
    <3>. QED  BY <3>2, <3>3
  <2>. QED  BY <1>2, <2>2, <2>3 DEF AskChunk, Maps
<1>. QED  BY <1>1, <1>2 DEF Asks

LEMMA Removed ==
  ASSUME NEW s \in Seq(Requests), NEW i \in DOMAIN s
  PROVE  /\ RemoveAt(s, i) \in Seq(Requests)
         /\ Len(RemoveAt(s, i)) = Len(s) - 1
         /\ \A j \in DOMAIN RemoveAt(s, i) : RemoveAt(s, i)[j] = s[IF j < i THEN j ELSE j + 1]
<1>1. i \in 1..Len(s) /\ Len(s) \in Nat
  OBVIOUS
<1> DEFINE front == SubSeq(s, 1, i - 1)
           back == SubSeq(s, i + 1, Len(s))
<1>2. /\ front \in Seq(Requests) /\ Len(front) = i - 1
      /\ \A j \in 1..(i - 1) : front[j] = s[j]
  BY <1>1, SubSeqProperties
<1>3. /\ back \in Seq(Requests) /\ Len(back) = Len(s) - i
      /\ \A j \in 1..(Len(s) - i) : back[j] = s[i + j]
  <2>1. \A j \in i + 1..Len(s) : s[j] \in Requests
    BY <1>1
  <2>2. /\ back \in Seq(Requests)
        /\ Len(back) = IF i + 1 <= Len(s) THEN Len(s) - (i + 1) + 1 ELSE 0
        /\ \A j \in 1..(Len(s) - (i + 1) + 1) : back[j] = s[i + 1 + j - 1]
    BY <1>1, <2>1, SubSeqProperties
  <2>. QED  BY <1>1, <2>2
<1>4. /\ front \o back \in Seq(Requests)
      /\ Len(front \o back) = Len(front) + Len(back)
      /\ \A j \in 1..(Len(front) + Len(back)) :
           (front \o back)[j] = IF j <= Len(front) THEN front[j] ELSE back[j - Len(front)]
  BY <1>2, <1>3, ConcatProperties
<1>5. ASSUME NEW j \in DOMAIN (front \o back)
      PROVE  (front \o back)[j] = s[IF j < i THEN j ELSE j + 1]
  <2> HIDE DEF front, back
  <2>1. j \in 1..(Len(s) - 1)
    BY <1>1, <1>2, <1>3, <1>4
  <2>4. (front \o back)[j] = IF j <= Len(front) THEN front[j] ELSE back[j - Len(front)]
    <3>1. j \in 1..(Len(front) + Len(back))
      BY ONLY <1>1, <1>2, <1>3, <2>1
    <3>. QED  BY ONLY <1>4, <3>1
  <2>2. CASE j < i
    <3>1. j \in 1..(i - 1) /\ j <= Len(front)
      BY ONLY <1>1, <1>2, <2>1, <2>2
    <3>. QED  BY ONLY <1>2, <2>2, <2>4, <3>1
  <2>3. CASE ~(j < i)
    <3>1. j - (i - 1) \in 1..(Len(s) - i) /\ i + (j - (i - 1)) = j + 1
      BY ONLY <1>1, <2>1, <2>3
    <3>2. Len(front) = i - 1 /\ ~(j <= Len(front))
      BY ONLY <1>1, <1>2, <2>1, <2>3
    <3>3. (front \o back)[j] = back[j - (i - 1)]
      BY ONLY <2>4, <3>2
    <3>4. back[j - (i - 1)] = s[i + (j - (i - 1))]
      BY ONLY <1>3, <3>1
    <3>. QED  BY ONLY <2>3, <3>1, <3>3, <3>4
  <2>. QED  BY <2>2, <2>3
<1>6. RemoveAt(s, i) = front \o back
  BY DEF RemoveAt
<1> HIDE DEF front, back
<1>7. Len(front \o back) = Len(s) - 1
  BY <1>1, <1>2, <1>3, <1>4
<1>. QED  BY <1>4, <1>5, <1>6, <1>7

LEMMA TypeAnswers ==
  ASSUME TypeOK, NEW p \in Peers, Answers(p)
  PROVE  TypeOK'
<1> USE DEF TypeOK, client
<1>0. PICK i \in DOMAIN asked[p] :
        \E length \in ChunkLengths(asked[p][i]) : SendChunk(p, i, length)
  BY DEF Answers
<1>1. PICK length \in ChunkLengths(asked[p][i]) : SendChunk(p, i, length)
  BY <1>0
<1> DEFINE r == asked[p][i]
           fn == r.number
           t == transfers[p][fn]
           pos == (t.position + length) % WordSize
<1>2. r \in Requests /\ fn \in FileNumbers
  <2>1. asked[p] \in Seq(Requests)
    OBVIOUS
  <2>2. r \in Requests
    BY <2>1, ElementOfSeq
  <2>. QED  BY <2>2 DEF Requests
<1>3. length \in 0..DataSize
  BY <1>2, TransfersAssumption DEF ChunkLengths, Requests
<1>4. asked' \in [Peers -> Seq(Requests)]
  BY <1>1, Removed DEF SendChunk
<1>5. CASE UNCHANGED <<transfers, net>>
  BY <1>1, <1>4, <1>5 DEF SendChunk
<1>6. CASE ~UNCHANGED <<transfers, net>>
  <2>1. /\ length > 0 /\ t # None
        /\ transfers' = [transfers EXCEPT ![p][fn].position = pos, ![p][fn].event_pending = FALSE]
        /\ Send(p, <<Data(t.id, OldFileNumber(fn), r.position, length)>> \o
                   IF pos = t.file_size THEN SendControl(p, fn, "FINISHED") ELSE <<>>)
    BY <1>1, <1>6 DEF SendChunk
  <2>2. t \in Transfers
    <3>1. t \in Transfers \cup {None}
      BY <1>2
    <3>. QED  BY <2>1, <3>1
  <2>3. transfers' \in Maps
    <3>1. transfers' = [transfers EXCEPT ![p][fn] =
                          [t EXCEPT !.position = pos, !.event_pending = FALSE]]
      BY <1>2, <2>1
    <3>2. transfers \in Maps
      BY DEF Maps
    <3>. QED  BY <1>2, <1>3, <2>2, <3>1, <3>2, MapTypes, TransferTypes
  <2>4. Data(t.id, OldFileNumber(fn), r.position, length) \in Packets
    <3>1. t.id \in Ids /\ r.position \in 0..(WordSize - 1) /\ length \in 1..DataSize
      <4>1. t.id \in Ids
        BY <2>2 DEF Transfers
      <4>2. r.position \in 0..(WordSize - 1)
        BY <1>2 DEF Requests
      <4>3. length \in 1..DataSize
        <5>1. length > 0 /\ DataSize \in Nat
          BY <2>1, TransfersAssumption
        <5>. QED  BY ONLY <1>3, <5>1
      <4>. QED  BY <4>1, <4>2, <4>3
    <3>2. OldFileNumber(fn) \in Numbers
      BY <1>2, FileNumberIs
    <3>. QED  BY <3>1, <3>2 DEF Data, Packets
  <2>5. net' \in [Peers -> Seq(Packets)]
    <3>1. SendControl(p, fn, "FINISHED") \in Seq(Packets)
      BY <1>2, ControlTypes
    <3>2. <<Data(t.id, OldFileNumber(fn), r.position, length)>> \in Seq(Packets)
      BY <2>4
    <3>3. <<Data(t.id, OldFileNumber(fn), r.position, length)>> \o
            (IF pos = t.file_size THEN SendControl(p, fn, "FINISHED") ELSE <<>>) \in Seq(Packets)
      BY <3>1, <3>2, ConcatProperties, EmptySeq
    <3>. QED  BY <2>1, <3>3, SendTypes
  <2>6. aborted' \in [Peers -> BOOLEAN]
    BY <1>1, <1>6 DEF SendChunk
  <2>. QED  BY <1>1, <1>4, <2>3, <2>5, <2>6 DEF SendChunk, Maps
<1>. QED  BY <1>5, <1>6

LEMMA TypeCalls ==
  ASSUME TypeOK, NEW p \in Peers,
         \/ Offers(p) \/ \E fn \in FileNumbers : Calls(p, fn)
         \/ FriendDelete(p) \/ FriendAdd(p)
  PROVE  TypeOK'
<1> USE DEF TypeOK, client
<1>1. ASSUME NEW n \in Numbers, NEW size \in Sizes, NEW cause \in Garbage,
             FileSend(p, n, size, cause)
      PROVE  TypeOK'
  <2>1. n \in FileNumbers /\ <<p, sends[p] + 1>> \in Ids
    BY <1>1, FileNumber, NewId DEF FileSend
  <2>2. net' \in [Peers -> Seq(Packets)]
    <3>1. Request(<<p, sends[p] + 1>>, n, size) \in Packets
      BY <2>1 DEF Request, Packets
    <3>2. <<Request(<<p, sends[p] + 1>>, n, size)>> \in Seq(Packets)
      BY <3>1
    <3>. QED  BY <1>1, <3>2, SendTypes DEF FileSend
  <2>3. slots' \in [Peers -> [FileNumbers -> {"none", "offered", "accepted"}]]
    BY <1>1, <2>1, SlotTypes DEF FileSend
  <2>4. transfers' \in Maps
    <3> DEFINE t == Transfer(<<p, sends[p] + 1>>, size, cause)
    <3>1. t \in Transfers /\ transfers \in Maps
      BY <2>1, TransferMade DEF Maps
    <3>2. transfers' = transfers \/ transfers' = [transfers EXCEPT ![p][n] = t]
      BY <1>1 DEF FileSend
    <3> HIDE DEF t
    <3>3. [transfers EXCEPT ![p][n] = t] \in Maps
      BY ONLY <2>1, <3>1, MapTypes
    <3>. QED  BY ONLY <3>1, <3>2, <3>3
  <2>5. aborted' \in [Peers -> BOOLEAN] /\ sends' \in [Peers -> Nat]
    <3>1. sends' = [sends EXCEPT ![p] = @ + 1]
      BY <1>1 DEF FileSend
    <3>2. aborted' = aborted \/ aborted' = [aborted EXCEPT ![p] = TRUE]
      BY <1>1 DEF FileSend
    <3>3. sends' \in [Peers -> Nat]
      BY <3>1
    <3>4. aborted' \in [Peers -> BOOLEAN]
      BY <3>2
    <3>. QED  BY <3>3, <3>4
  <2>6. UNCHANGED <<asked, told, isFriend, stage, resumed>>
    BY <1>1 DEF FileSend
  <2>. QED  BY <2>2, <2>3, <2>4, <2>5, <2>6 DEF Maps
<1>2. ASSUME NEW fn \in FileNumbers, Resume(p, fn)
      PROVE  TypeOK'
  <2>1. transfers[p][fn].id \in Ids
    BY <1>2 DEF Resume, Controls, Transfers
  <2>2. net' \in [Peers -> Seq(Packets)]
    BY <1>2, ControlTypes, SendTypes DEF Resume
  <2>3. slots' \in [Peers -> [FileNumbers -> {"none", "offered", "accepted"}]]
    BY <1>2 DEF Resume
  <2>. QED  BY <1>2, <2>1, <2>2, <2>3 DEF Resume
<1>3. ASSUME NEW fn \in FileNumbers, Pause(p, fn)
      PROVE  TypeOK'
  <2>1. net' \in [Peers -> Seq(Packets)]
    BY <1>3, ControlTypes, SendTypes DEF Pause
  <2>. QED  BY <1>3, <2>1 DEF Pause
<1>4. CASE FriendDelete(p)
  BY <1>4 DEF FriendDelete
<1>5. CASE FriendAdd(p)
  BY <1>5 DEF FriendAdd
<1>. QED  BY <1>1, <1>2, <1>3, <1>4, <1>5 DEF Offers, Calls

LEMMA TypeStep ==
  TypeOK /\ [Next]_vars => TypeOK'
<1>1. ASSUME TypeOK, Next  PROVE TypeOK'
  BY <1>1, TypeReceives, TypeAsks, TypeAnswers, TypeCalls DEF Next
<1>2. ASSUME TypeOK, UNCHANGED vars  PROVE TypeOK'
  BY <1>2 DEF TypeOK, vars, client
<1>. QED  BY <1>1, <1>2

LEMMA TypeStarts == Init => TypeOK
BY DEF Init, TypeOK

\* Whatever the clients do, the variables have their types: requests are for at least a
\* byte and at most a packet, and positions stay within a word.
THEOREM FileTypes == Spec => []TypeOK
BY TypeStarts, TypeStep, PTL DEF Spec

-----------------------------------------------------------------------------
(* What is on its way, when a packet arrives and when one is sent.         *)

LEMMA InTail ==
  ASSUME NEW s \in Seq(Packets), s # <<>>
  PROVE  /\ 1 \in DOMAIN s /\ s[1] = Head(s) /\ DOMAIN s \subseteq Nat
         /\ \A i \in DOMAIN Tail(s) : i \in Nat /\ i + 1 \in DOMAIN s /\ i + 1 # 1
                                      /\ Tail(s)[i] = s[i + 1]
         /\ \A j \in DOMAIN s : j = 1 \/ (j - 1 \in DOMAIN Tail(s) /\ Tail(s)[j - 1] = s[j])
OBVIOUS

LEMMA InAppend ==
  ASSUME NEW s \in Seq(Packets), NEW m \in Packets
  PROVE  /\ Len(s) + 1 \in DOMAIN Append(s, m) /\ Append(s, m)[Len(s) + 1] = m
         /\ \A i \in DOMAIN s : i \in Nat /\ i \in DOMAIN Append(s, m) /\ i < Len(s) + 1
                                /\ Append(s, m)[i] = s[i]
         /\ \A i \in DOMAIN Append(s, m) : i = Len(s) + 1 \/ i \in DOMAIN s
OBVIOUS

LEMMA NoneInTail ==
  ASSUME NEW s \in Seq(Packets), s # <<>>, NEW n
  PROVE  /\ NoRequest(s, n) => NoRequest(Tail(s), n)
         /\ NoData(s, n) => NoData(Tail(s), n)
         /\ NoEnd(s, n) => NoEnd(Tail(s), n)
         /\ NoAccept(s, n) => NoAccept(Tail(s), n)
         /\ NoReceipt(s, n) => NoReceipt(Tail(s), n)
         /\ EndFirst(s, n) => EndFirst(Tail(s), n)
         /\ EndLast(s, n) => EndLast(Tail(s), n)
<1>1. /\ NoRequest(s, n) => NoRequest(Tail(s), n)
      /\ NoData(s, n) => NoData(Tail(s), n)
      /\ NoEnd(s, n) => NoEnd(Tail(s), n)
      /\ NoAccept(s, n) => NoAccept(Tail(s), n)
      /\ NoReceipt(s, n) => NoReceipt(Tail(s), n)
  BY InTail DEF NoRequest, NoData, NoEnd, NoAccept, NoReceipt
<1>2. ASSUME EndFirst(s, n)  PROVE EndFirst(Tail(s), n)
  <2>1. ASSUME NEW i \in DOMAIN Tail(s), NEW j \in DOMAIN Tail(s),
               IsEnd(Tail(s)[i], n), IsRequest(Tail(s)[j], n)
        PROVE  i < j
    <3>1. i + 1 < j + 1
      BY <1>2, <2>1, InTail DEF EndFirst
    <3>. QED  BY <3>1, InTail
  <2>. QED  BY <2>1 DEF EndFirst
<1>3. ASSUME EndLast(s, n)  PROVE EndLast(Tail(s), n)
  <2>1. ASSUME NEW i \in DOMAIN Tail(s), NEW j \in DOMAIN Tail(s),
               IsData(Tail(s)[i], n), IsEnd(Tail(s)[j], n)
        PROVE  i < j
    <3>1. i + 1 < j + 1
      BY <1>3, <2>1, InTail DEF EndLast
    <3>. QED  BY <3>1, InTail
  <2>. QED  BY <2>1 DEF EndLast
<1>. QED  BY <1>1, <1>2, <1>3

\* The only one of its kind is still there, or was the packet that has arrived.
LEMMA OneInTail ==
  ASSUME NEW s \in Seq(Packets), s # <<>>, NEW n
  PROVE  /\ \A id, size : OneRequest(s, n, id, size) =>
              IF IsRequest(Head(s), n)
              THEN NoRequest(Tail(s), n) /\ Head(s).id = id /\ Head(s).size = size
              ELSE OneRequest(Tail(s), n, id, size)
         /\ OneEnd(s, n) => IF IsEnd(Head(s), n) THEN NoEnd(Tail(s), n) ELSE OneEnd(Tail(s), n)
         /\ OneAccept(s, n) =>
              IF IsAccept(Head(s), n) THEN NoAccept(Tail(s), n) ELSE OneAccept(Tail(s), n)
         /\ OneReceipt(s, n) =>
              IF IsReceipt(Head(s), n) THEN NoReceipt(Tail(s), n) ELSE OneReceipt(Tail(s), n)
<1>1. ASSUME NEW id, NEW size, OneRequest(s, n, id, size)
      PROVE  IF IsRequest(Head(s), n)
             THEN NoRequest(Tail(s), n) /\ Head(s).id = id /\ Head(s).size = size
             ELSE OneRequest(Tail(s), n, id, size)
  <2>1. PICK i \in DOMAIN s : /\ IsRequest(s[i], n) /\ s[i].id = id /\ s[i].size = size
                              /\ \A j \in DOMAIN s : IsRequest(s[j], n) => j = i
    BY <1>1 DEF OneRequest
  <2>2. CASE IsRequest(Head(s), n)
    BY <2>1, <2>2, InTail DEF NoRequest
  <2>3. CASE ~IsRequest(Head(s), n)
    <3>1. i - 1 \in DOMAIN Tail(s) /\ Tail(s)[i - 1] = s[i]
      BY <2>1, <2>3, InTail
    <3>2. ASSUME NEW j \in DOMAIN Tail(s), IsRequest(Tail(s)[j], n)  PROVE j = i - 1
      <4>1. j + 1 = i /\ j \in Nat
        BY <2>1, <3>2, InTail
      <4>. QED  BY <4>1
    <3>. QED  BY <2>1, <2>3, <3>1, <3>2 DEF OneRequest
  <2>. QED  BY <2>2, <2>3
<1>2. ASSUME OneEnd(s, n)
      PROVE  IF IsEnd(Head(s), n) THEN NoEnd(Tail(s), n) ELSE OneEnd(Tail(s), n)
  <2>1. PICK i \in DOMAIN s : IsEnd(s[i], n) /\ \A j \in DOMAIN s : IsEnd(s[j], n) => j = i
    BY <1>2 DEF OneEnd
  <2>2. CASE IsEnd(Head(s), n)
    BY <2>1, <2>2, InTail DEF NoEnd
  <2>3. CASE ~IsEnd(Head(s), n)
    <3>1. i - 1 \in DOMAIN Tail(s) /\ Tail(s)[i - 1] = s[i]
      BY <2>1, <2>3, InTail
    <3>2. ASSUME NEW j \in DOMAIN Tail(s), IsEnd(Tail(s)[j], n)  PROVE j = i - 1
      <4>1. j + 1 = i /\ j \in Nat
        BY <2>1, <3>2, InTail
      <4>. QED  BY <4>1
    <3>. QED  BY <2>1, <2>3, <3>1, <3>2 DEF OneEnd
  <2>. QED  BY <2>2, <2>3
<1>3. ASSUME OneAccept(s, n)
      PROVE  IF IsAccept(Head(s), n) THEN NoAccept(Tail(s), n) ELSE OneAccept(Tail(s), n)
  <2>1. PICK i \in DOMAIN s : IsAccept(s[i], n) /\ \A j \in DOMAIN s : IsAccept(s[j], n) => j = i
    BY <1>3 DEF OneAccept
  <2>2. CASE IsAccept(Head(s), n)
    BY <2>1, <2>2, InTail DEF NoAccept
  <2>3. CASE ~IsAccept(Head(s), n)
    <3>1. i - 1 \in DOMAIN Tail(s) /\ Tail(s)[i - 1] = s[i]
      BY <2>1, <2>3, InTail
    <3>2. ASSUME NEW j \in DOMAIN Tail(s), IsAccept(Tail(s)[j], n)  PROVE j = i - 1
      <4>1. j + 1 = i /\ j \in Nat
        BY <2>1, <3>2, InTail
      <4>. QED  BY <4>1
    <3>. QED  BY <2>1, <2>3, <3>1, <3>2 DEF OneAccept
  <2>. QED  BY <2>2, <2>3
<1>4. ASSUME OneReceipt(s, n)
      PROVE  IF IsReceipt(Head(s), n) THEN NoReceipt(Tail(s), n) ELSE OneReceipt(Tail(s), n)
  <2>1. PICK i \in DOMAIN s :
          IsReceipt(s[i], n) /\ \A j \in DOMAIN s : IsReceipt(s[j], n) => j = i
    BY <1>4 DEF OneReceipt
  <2>2. CASE IsReceipt(Head(s), n)
    BY <2>1, <2>2, InTail DEF NoReceipt
  <2>3. CASE ~IsReceipt(Head(s), n)
    <3>1. i - 1 \in DOMAIN Tail(s) /\ Tail(s)[i - 1] = s[i]
      BY <2>1, <2>3, InTail
    <3>2. ASSUME NEW j \in DOMAIN Tail(s), IsReceipt(Tail(s)[j], n)  PROVE j = i - 1
      <4>1. j + 1 = i /\ j \in Nat
        BY <2>1, <3>2, InTail
      <4>. QED  BY <4>1
    <3>. QED  BY <2>1, <2>3, <3>1, <3>2 DEF OneReceipt
  <2>. QED  BY <2>2, <2>3
<1>. QED  BY <1>1, <1>2, <1>3, <1>4

LEMMA NoneInAppend ==
  ASSUME NEW s \in Seq(Packets), NEW m \in Packets, NEW n
  PROVE  /\ NoRequest(s, n) /\ ~IsRequest(m, n) => NoRequest(Append(s, m), n)
         /\ NoData(s, n) /\ ~IsData(m, n) => NoData(Append(s, m), n)
         /\ NoEnd(s, n) /\ ~IsEnd(m, n) => NoEnd(Append(s, m), n)
         /\ NoAccept(s, n) /\ ~IsAccept(m, n) => NoAccept(Append(s, m), n)
         /\ NoReceipt(s, n) /\ ~IsReceipt(m, n) => NoReceipt(Append(s, m), n)
BY InAppend DEF NoRequest, NoData, NoEnd, NoAccept, NoReceipt

\* Still the only one of its kind.
LEMMA OneInAppend ==
  ASSUME NEW s \in Seq(Packets), NEW m \in Packets, NEW n
  PROVE  /\ \A id, size : OneRequest(s, n, id, size) /\ ~IsRequest(m, n) =>
              OneRequest(Append(s, m), n, id, size)
         /\ OneEnd(s, n) /\ ~IsEnd(m, n) => OneEnd(Append(s, m), n)
         /\ OneAccept(s, n) /\ ~IsAccept(m, n) => OneAccept(Append(s, m), n)
         /\ OneReceipt(s, n) /\ ~IsReceipt(m, n) => OneReceipt(Append(s, m), n)
<1> DEFINE u == Append(s, m)
<1>0. /\ \A i \in DOMAIN s : i \in DOMAIN u /\ u[i] = s[i]
      /\ \A i \in DOMAIN u : u[i] = m \/ (i \in DOMAIN s /\ u[i] = s[i])
  BY InAppend
<1> HIDE DEF u
<1>1. ASSUME NEW id, NEW size, OneRequest(s, n, id, size), ~IsRequest(m, n)
      PROVE  OneRequest(u, n, id, size)
  <2>1. PICK i \in DOMAIN s : /\ IsRequest(s[i], n) /\ s[i].id = id /\ s[i].size = size
                              /\ \A j \in DOMAIN s : IsRequest(s[j], n) => j = i
    BY <1>1 DEF OneRequest
  <2>2. i \in DOMAIN u /\ u[i] = s[i]
    BY <1>0
  <2>3. \A j \in DOMAIN u : IsRequest(u[j], n) => j = i
    BY <1>0, <1>1, <2>1
  <2>. QED  BY <2>1, <2>2, <2>3 DEF OneRequest
<1>2. ASSUME OneEnd(s, n), ~IsEnd(m, n)  PROVE OneEnd(u, n)
  BY <1>0, <1>2 DEF OneEnd
<1>3. ASSUME OneAccept(s, n), ~IsAccept(m, n)  PROVE OneAccept(u, n)
  BY <1>0, <1>3 DEF OneAccept
<1>4. ASSUME OneReceipt(s, n), ~IsReceipt(m, n)  PROVE OneReceipt(u, n)
  BY <1>0, <1>4 DEF OneReceipt
<1>. QED  BY <1>1, <1>2, <1>3, <1>4 DEF u

\* The first of its kind is the only one.
LEMMA FirstInAppend ==
  ASSUME NEW s \in Seq(Packets), NEW m \in Packets, NEW n
  PROVE  /\ NoRequest(s, n) /\ IsRequest(m, n) => OneRequest(Append(s, m), n, m.id, m.size)
         /\ NoEnd(s, n) /\ IsEnd(m, n) => OneEnd(Append(s, m), n)
         /\ NoAccept(s, n) /\ IsAccept(m, n) => OneAccept(Append(s, m), n)
         /\ NoReceipt(s, n) /\ IsReceipt(m, n) => OneReceipt(Append(s, m), n)
<1> DEFINE u == Append(s, m)
<1>0. \E k \in DOMAIN u : u[k] = m /\ \A i \in DOMAIN u : i = k \/ (i \in DOMAIN s /\ u[i] = s[i])
  BY InAppend
<1> HIDE DEF u
<1>1. PICK k \in DOMAIN u :
        u[k] = m /\ \A i \in DOMAIN u : i = k \/ (i \in DOMAIN s /\ u[i] = s[i])
  BY <1>0
<1>2. ASSUME NoRequest(s, n), IsRequest(m, n)  PROVE OneRequest(u, n, m.id, m.size)
  BY <1>1, <1>2 DEF NoRequest, OneRequest
<1>3. ASSUME NoEnd(s, n), IsEnd(m, n)  PROVE OneEnd(u, n)
  BY <1>1, <1>3 DEF NoEnd, OneEnd
<1>4. ASSUME NoAccept(s, n), IsAccept(m, n)  PROVE OneAccept(u, n)
  BY <1>1, <1>4 DEF NoAccept, OneAccept
<1>5. ASSUME NoReceipt(s, n), IsReceipt(m, n)  PROVE OneReceipt(u, n)
  BY <1>1, <1>5 DEF NoReceipt, OneReceipt
<1>. QED  BY <1>2, <1>3, <1>4, <1>5 DEF u

\* Order among packets of one file number.
LEMMA OrderInAppend ==
  ASSUME NEW s \in Seq(Packets), NEW m \in Packets, NEW n
  PROVE  /\ EndFirst(s, n) /\ ~IsEnd(m, n) => EndFirst(Append(s, m), n)
         /\ NoRequest(s, n) => EndFirst(Append(s, m), n)
         /\ EndLast(s, n) /\ ~IsData(m, n) => EndLast(Append(s, m), n)
         /\ NoEnd(s, n) => EndLast(Append(s, m), n)
<1> DEFINE u == Append(s, m)
<1>0. \E k \in DOMAIN u :
        /\ u[k] = m /\ k \notin DOMAIN s
        /\ \A i \in DOMAIN s : i < k
        /\ \A i \in DOMAIN u : i = k \/ (i \in DOMAIN s /\ u[i] = s[i])
  <2>1. Len(s) + 1 \notin DOMAIN s
    OBVIOUS
  <2>. QED  BY <2>1, InAppend
<1> HIDE DEF u
<1>1. PICK k \in DOMAIN u :
        /\ u[k] = m /\ k \notin DOMAIN s
        /\ \A i \in DOMAIN s : i < k
        /\ \A i \in DOMAIN u : i = k \/ (i \in DOMAIN s /\ u[i] = s[i])
  BY <1>0
<1>2. ~(IsEnd(m, n) /\ IsRequest(m, n)) /\ ~(IsEnd(m, n) /\ IsData(m, n))
  BY DEF IsEnd, IsRequest, IsData
<1>3. ASSUME EndFirst(s, n), ~IsEnd(m, n)  PROVE EndFirst(u, n)
  BY <1>1, <1>3 DEF EndFirst
<1>4. ASSUME NoRequest(s, n)  PROVE EndFirst(u, n)
  BY <1>1, <1>2, <1>4 DEF EndFirst, NoRequest
<1>5. ASSUME EndLast(s, n), ~IsData(m, n)  PROVE EndLast(u, n)
  BY <1>1, <1>5 DEF EndLast
<1>6. ASSUME NoEnd(s, n)  PROVE EndLast(u, n)
  BY <1>1, <1>2, <1>6 DEF EndLast, NoEnd
<1>. QED  BY <1>3, <1>4, <1>5, <1>6 DEF u

\* A packet arrives in its turn.
LEMMA OrderAtHead ==
  ASSUME NEW s \in Seq(Packets), s # <<>>, NEW n
  PROVE  /\ EndFirst(s, n) /\ IsRequest(Head(s), n) => NoEnd(s, n)
         /\ EndLast(s, n) /\ IsEnd(Head(s), n) => NoData(s, n)
<1>1. 1 \in DOMAIN s /\ s[1] = Head(s) /\ \A i \in DOMAIN s : ~(i < 1)
  OBVIOUS
<1>. QED  BY <1>1 DEF EndFirst, EndLast, NoEnd, NoData

\* The chain of data, when nothing of it is on its way, ...
LEMMA ChainEmpty ==
  ASSUME NEW s \in Seq(Packets), NEW n, NEW id, NEW from \in Nat, NEW to \in Nat
  PROVE  /\ NoData(s, n) => Chain(s, n, id, from, from)
         /\ Chain(s, n, id, from, to) /\ NoData(s, n) => from = to
         /\ Chain(s, n, id, from, from) => NoData(s, n)
<1>1. NoData(s, n) => Chain(s, n, id, from, from)
  BY DEF NoData, Chain
<1>2. Chain(s, n, id, from, to) /\ NoData(s, n) => from = to
  BY DEF NoData, Chain
<1>3. ASSUME Chain(s, n, id, from, from), NEW i \in DOMAIN s, IsData(s[i], n)  PROVE FALSE
  <2>1. s[i] \in Packets
    BY ElementOfSeq
  <2>2. s[i].at \in Nat /\ s[i].length \in Nat \ {0}
    BY <1>3, <2>1 DEF IsData, Packets
  <2>3. from <= s[i].at /\ s[i].at + s[i].length <= from
    BY <1>3 DEF Chain
  <2>. QED  BY <2>2, <2>3
<1>. QED  BY <1>1, <1>2, <1>3 DEF NoData

\* ... when something else arrives, ...
LEMMA ChainTail ==
  ASSUME NEW s \in Seq(Packets), s # <<>>, NEW n, NEW id, NEW from \in Nat, NEW to \in Nat,
         Chain(s, n, id, from, to), ~IsData(Head(s), n)
  PROVE  Chain(Tail(s), n, id, from, to)
<1> DEFINE u == Tail(s)
<1>1. /\ \A i \in DOMAIN u : i \in Nat /\ i + 1 \in DOMAIN s /\ u[i] = s[i + 1]
      /\ \A j \in DOMAIN s : IsData(s[j], n) => j \in Nat /\ j - 1 \in DOMAIN u /\ u[j - 1] = s[j]
  BY InTail
<1> HIDE DEF u
<1>2. ASSUME NEW i \in DOMAIN u, IsData(u[i], n)
      PROVE  /\ u[i].id = id /\ from <= u[i].at /\ u[i].at + u[i].length <= to
             /\ \/ u[i].at = from
                \/ \E j \in DOMAIN u : j < i /\ IsData(u[j], n) /\ u[j].at + u[j].length = u[i].at
             /\ \A j \in DOMAIN u : j < i /\ IsData(u[j], n) => u[j].at + u[j].length <= u[i].at
  <2>1. i \in Nat /\ i + 1 \in DOMAIN s /\ u[i] = s[i + 1] /\ IsData(s[i + 1], n)
    BY <1>1, <1>2
  <2>2. /\ u[i].id = id /\ from <= u[i].at /\ u[i].at + u[i].length <= to
        /\ \/ u[i].at = from
           \/ \E j \in DOMAIN s : j < i + 1 /\ IsData(s[j], n) /\ s[j].at + s[j].length = u[i].at
        /\ \A j \in DOMAIN s : j < i + 1 /\ IsData(s[j], n) => s[j].at + s[j].length <= u[i].at
    BY <2>1 DEF Chain
  <2>3. ASSUME NEW j \in DOMAIN s, j < i + 1, IsData(s[j], n)
        PROVE  j - 1 \in DOMAIN u /\ j - 1 < i /\ u[j - 1] = s[j]
    BY <1>1, <2>1, <2>3
  <2>4. ASSUME NEW j \in DOMAIN u, j < i, IsData(u[j], n)
        PROVE  u[j].at + u[j].length <= u[i].at
    <3>1. j + 1 \in DOMAIN s /\ j + 1 < i + 1 /\ u[j] = s[j + 1]
      BY <1>1, <2>1, <2>4
    <3>. QED  BY <2>2, <2>4, <3>1
  <2>. QED  BY <2>2, <2>3, <2>4
<1>3. from = to \/ \E i \in DOMAIN u : IsData(u[i], n) /\ u[i].at + u[i].length = to
  <2>1. from = to \/ \E i \in DOMAIN s : IsData(s[i], n) /\ s[i].at + s[i].length = to
    BY DEF Chain
  <2>. QED  BY <1>1, <2>1
<1>4. from <= to
  BY DEF Chain
<1>5. Chain(u, n, id, from, to)
  BY <1>2, <1>3, <1>4 DEF Chain
<1>. QED  BY <1>5 DEF u

\* ... when its first packet arrives, ...
LEMMA ChainHead ==
  ASSUME NEW s \in Seq(Packets), s # <<>>, NEW n, NEW id, NEW from \in Nat, NEW to \in Nat,
         Chain(s, n, id, from, to), IsData(Head(s), n)
  PROVE  /\ Head(s).id = id /\ Head(s).at = from /\ Head(s).length \in Nat \ {0}
         /\ from + Head(s).length <= to
         /\ Chain(Tail(s), n, id, from + Head(s).length, to)
<1> DEFINE u == Tail(s)
           m == Head(s)
           next == from + m.length
<1>1. /\ 1 \in DOMAIN s /\ s[1] = m
      /\ \A i \in DOMAIN u : i \in Nat /\ i + 1 \in DOMAIN s /\ 1 < i + 1 /\ u[i] = s[i + 1]
      /\ \A j \in DOMAIN s : j \in Nat /\ ~(j < 1)
      /\ \A j \in DOMAIN s : j = 1 \/ (j - 1 \in DOMAIN u /\ u[j - 1] = s[j])
  BY InTail
<1>2. m.at \in Nat /\ m.length \in Nat \ {0}
  <2>1. m \in Packets
    OBVIOUS
  <2>. QED  BY <2>1 DEF IsData, Packets
<1> HIDE DEF u, m
<1>3. /\ m.id = id /\ m.at = from /\ next <= to
  <2>1. /\ m.id = id /\ from <= m.at /\ m.at + m.length <= to
        /\ m.at = from \/ \E j \in DOMAIN s : j < 1
    BY <1>1 DEF Chain, m
  <2>. QED  BY <1>1, <2>1
<1>4. ASSUME NEW i \in DOMAIN u, IsData(u[i], n)
      PROVE  /\ u[i].id = id /\ next <= u[i].at /\ u[i].at + u[i].length <= to
             /\ \/ u[i].at = next
                \/ \E j \in DOMAIN u : j < i /\ IsData(u[j], n) /\ u[j].at + u[j].length = u[i].at
             /\ \A j \in DOMAIN u : j < i /\ IsData(u[j], n) => u[j].at + u[j].length <= u[i].at
  <2>1. i \in Nat /\ i + 1 \in DOMAIN s /\ 1 < i + 1 /\ u[i] = s[i + 1] /\ IsData(s[i + 1], n)
    BY <1>1, <1>4
  <2>2. /\ u[i].id = id /\ from <= u[i].at /\ u[i].at + u[i].length <= to
        /\ \/ u[i].at = from
           \/ \E j \in DOMAIN s : j < i + 1 /\ IsData(s[j], n) /\ s[j].at + s[j].length = u[i].at
        /\ \A j \in DOMAIN s : j < i + 1 /\ IsData(s[j], n) => s[j].at + s[j].length <= u[i].at
    BY <2>1 DEF Chain
  <2>3. u[i] \in Packets
    BY <2>1, ElementOfSeq
  <2>4. u[i].at \in Nat /\ u[i].length \in Nat
    BY <1>4, <2>3 DEF IsData, Packets
  <2>5. next <= u[i].at
    BY <1>1, <1>3, <2>1, <2>2 DEF m
  <2>6. u[i].at # from
    BY <1>2, <2>4, <2>5
  <2>7. PICK j \in DOMAIN s : j < i + 1 /\ IsData(s[j], n) /\ s[j].at + s[j].length = u[i].at
    BY <2>2, <2>6
  <2>8. j = 1 => u[i].at = next
    BY <1>1, <1>3, <2>7
  <2>9. j # 1 => j - 1 \in DOMAIN u /\ u[j - 1] = s[j] /\ j - 1 < i
    BY <1>1, <2>1, <2>7
  <2>10. ASSUME NEW k \in DOMAIN u, k < i, IsData(u[k], n)
         PROVE  u[k].at + u[k].length <= u[i].at
    <3>1. k + 1 \in DOMAIN s /\ k + 1 < i + 1 /\ u[k] = s[k + 1]
      BY <1>1, <2>1, <2>10
    <3>. QED  BY <2>2, <2>10, <3>1
  <2>. QED  BY <2>2, <2>5, <2>7, <2>8, <2>9, <2>10
<1>5. next = to \/ \E i \in DOMAIN u : IsData(u[i], n) /\ u[i].at + u[i].length = to
  <2>1. from # to
    BY <1>2, <1>3
  <2>2. PICK i \in DOMAIN s : IsData(s[i], n) /\ s[i].at + s[i].length = to
    BY <2>1 DEF Chain
  <2>. QED  BY <1>1, <1>3, <2>2
<1>6. Chain(u, n, id, next, to)
  BY <1>3, <1>4, <1>5 DEF Chain
<1>. QED  BY <1>2, <1>3, <1>6 DEF u, m

\* ... and when more is sent.
LEMMA ChainAppend ==
  ASSUME NEW s \in Seq(Packets), NEW m \in Packets,
         NEW n, NEW id, NEW from \in Nat, NEW to \in Nat, Chain(s, n, id, from, to)
  PROVE  /\ ~IsData(m, n) => Chain(Append(s, m), n, id, from, to)
         /\ IsData(m, n) /\ m.id = id /\ m.at = to =>
              Chain(Append(s, m), n, id, from, to + m.length)
<1> DEFINE u == Append(s, m)
<1>0. \E k \in DOMAIN u :
        /\ u[k] = m
        /\ \A i \in DOMAIN s : i < k /\ i \in DOMAIN u /\ u[i] = s[i] /\ ~(k < i)
        /\ \A i \in DOMAIN u : i = k \/ (i \in DOMAIN s /\ u[i] = s[i])
        /\ ~(k < k)
  <2>1. ~(Len(s) + 1 < Len(s) + 1) /\ \A i \in DOMAIN s : ~(Len(s) + 1 < i)
    OBVIOUS
  <2>. QED  BY <2>1, InAppend
<1> HIDE DEF u
<1>1. PICK k \in DOMAIN u :
        /\ u[k] = m
        /\ \A i \in DOMAIN s : i < k /\ i \in DOMAIN u /\ u[i] = s[i] /\ ~(k < i)
        /\ \A i \in DOMAIN u : i = k \/ (i \in DOMAIN s /\ u[i] = s[i])
        /\ ~(k < k)
  BY <1>0
<1>2. ASSUME NEW i \in DOMAIN s, IsData(u[i], n)
      PROVE  /\ u[i].id = id /\ from <= u[i].at /\ u[i].at + u[i].length <= to
             /\ \/ u[i].at = from
                \/ \E j \in DOMAIN u : j < i /\ IsData(u[j], n) /\ u[j].at + u[j].length = u[i].at
             /\ \A j \in DOMAIN u : j < i /\ IsData(u[j], n) => u[j].at + u[j].length <= u[i].at
  <2>1. /\ u[i].id = id /\ from <= u[i].at /\ u[i].at + u[i].length <= to
        /\ \/ u[i].at = from
           \/ \E j \in DOMAIN s : j < i /\ IsData(s[j], n) /\ s[j].at + s[j].length = u[i].at
        /\ \A j \in DOMAIN s : j < i /\ IsData(s[j], n) => s[j].at + s[j].length <= u[i].at
    BY <1>1, <1>2 DEF Chain
  <2>. QED  BY <1>1, <2>1
<1>3. from <= to /\ (from = to \/ \E i \in DOMAIN s : IsData(s[i], n) /\ s[i].at + s[i].length = to)
  BY DEF Chain
<1>4. ASSUME ~IsData(m, n)  PROVE Chain(u, n, id, from, to)
  <2>1. \A i \in DOMAIN u : IsData(u[i], n) => i \in DOMAIN s
    BY <1>1, <1>4
  <2>2. from = to \/ \E i \in DOMAIN u : IsData(u[i], n) /\ u[i].at + u[i].length = to
    BY <1>1, <1>3
  <2>. QED  BY <1>2, <1>3, <2>1, <2>2 DEF Chain
<1>5. ASSUME IsData(m, n), m.id = id, m.at = to
      PROVE  Chain(u, n, id, from, to + m.length)
  <2>1. m.length \in Nat
    BY <1>5 DEF IsData, Packets
  <2>2. ASSUME NEW i \in DOMAIN s, IsData(u[i], n)
        PROVE  u[i].at + u[i].length <= to + m.length
    <3>1. s[i] \in Packets /\ u[i] = s[i]
      BY <1>1, ElementOfSeq
    <3>2. u[i].at \in Nat /\ u[i].length \in Nat
      BY <2>2, <3>1 DEF IsData, Packets
    <3>3. u[i].at + u[i].length <= to
      BY <1>2, <2>2
    <3>. QED  BY <2>1, <3>2, <3>3
  <2>3. /\ u[k].id = id /\ from <= u[k].at /\ u[k].at + u[k].length <= to + m.length
        /\ \/ u[k].at = from
           \/ \E j \in DOMAIN u : j < k /\ IsData(u[j], n) /\ u[j].at + u[j].length = u[k].at
        /\ \A j \in DOMAIN u : j < k /\ IsData(u[j], n) => u[j].at + u[j].length <= u[k].at
    <3>1. \A j \in DOMAIN u : j < k /\ IsData(u[j], n) => u[j].at + u[j].length <= u[k].at
      BY <1>1, <1>2, <1>5
    <3>2. \/ u[k].at = from
          \/ \E j \in DOMAIN u : j < k /\ IsData(u[j], n) /\ u[j].at + u[j].length = u[k].at
      BY <1>1, <1>3, <1>5
    <3>3. u[k].id = id /\ from <= u[k].at /\ u[k].at + u[k].length <= to + m.length
      BY <1>1, <1>3, <1>5, <2>1
    <3>. QED  BY <3>1, <3>2, <3>3
  <2>4. from <= to + m.length
    BY <1>3, <2>1
  <2>5. IsData(u[k], n) /\ u[k].at + u[k].length = to + m.length
    BY <1>1, <1>5
  <2>6. \A i \in DOMAIN u : i = k \/ i \in DOMAIN s
    BY <1>1
  <2>. QED  BY <1>2, <2>2, <2>3, <2>4, <2>5, <2>6 DEF Chain
<1>. QED  BY <1>4, <1>5 DEF u

-----------------------------------------------------------------------------
(* A pair is as it was when packets about other files arrive or are sent.  *)

LEMMA InTransfer ==
  ASSUME NEW t \in Transfers \cup {None}
  PROVE  t # None => /\ t \in Transfers /\ t.id \in Ids /\ t.file_size \in Sizes
                     /\ t.position \in Nat /\ t.file_size \in Nat
                     /\ t.state \in {"PAUSED", "RUNNING"} /\ t.event_pending \in BOOLEAN
<1>1. ASSUME t # None  PROVE t \in Transfers
  BY <1>1
<1>2. ASSUME t \in Transfers
      PROVE  /\ t.id \in Ids /\ t.file_size \in Sizes
             /\ t.position \in Nat /\ t.file_size \in Nat
             /\ t.state \in {"PAUSED", "RUNNING"} /\ t.event_pending \in BOOLEAN
  BY <1>2, Widths DEF Transfers
<1>. QED  BY <1>1, <1>2

LEMMA PairTail ==
  ASSUME NEW a \in Transfers \cup {None}, NEW b \in Transfers \cup {None}, NEW sa, NEW sb,
         NEW F \in Seq(Packets), NEW B \in Seq(Packets), NEW heard, NEW n,
         Pair(a, sa, b, sb, F, B, heard, n)
  PROVE  /\ F # <<>> /\ ~Onward(Head(F), n) => Pair(a, sa, b, sb, Tail(F), B, heard, n)
         /\ B # <<>> /\ ~Back(Head(B), n) => Pair(a, sa, b, sb, F, Tail(B), heard, n)
<1>1. ASSUME F # <<>>, ~Onward(Head(F), n)
      PROVE  Pair(a, sa, b, sb, Tail(F), B, heard, n)
  <2>1. ~IsRequest(Head(F), n) /\ ~IsData(Head(F), n) /\ ~IsEnd(Head(F), n)
    BY <1>1 DEF Onward
  <2>2. /\ NoRequest(F, n) => NoRequest(Tail(F), n)
        /\ NoData(F, n) => NoData(Tail(F), n)
        /\ NoEnd(F, n) => NoEnd(Tail(F), n)
        /\ EndFirst(F, n) => EndFirst(Tail(F), n)
        /\ EndLast(F, n) => EndLast(Tail(F), n)
    BY <1>1, NoneInTail
  <2>3. /\ \A id, size : OneRequest(F, n, id, size) => OneRequest(Tail(F), n, id, size)
        /\ OneEnd(F, n) => OneEnd(Tail(F), n)
    BY <1>1, <2>1, OneInTail
  <2>4. Over(b, sb, F, heard, n) => Over(b, sb, Tail(F), heard, n)
    BY <2>2, <2>3 DEF Over
  <2>5. CASE Idle(a, sa, b, sb, F, B, heard, n)
    BY <2>2, <2>4, <2>5 DEF Idle, Pair
  <2>6. CASE Offered(a, sa, b, sb, F, B, heard, n)
    BY <2>2, <2>3, <2>4, <2>6 DEF Offered, Pair
  <2>7. CASE Announced(a, sa, b, sb, F, B, heard, n)
    BY <2>2, <2>7 DEF Announced, Pair
  <2>8. CASE Sending(a, sa, b, sb, F, B, heard, n)
    <3>1. a.position \in Nat /\ b.position \in Nat
      BY <2>8, InTransfer DEF Sending, Running, Agree
    <3>2. Chain(Tail(F), n, a.id, b.position, a.position)
      BY <1>1, <2>1, <2>8, <3>1, ChainTail DEF Sending
    <3>. QED  BY <2>2, <2>3, <2>8, <3>2 DEF Sending, Pair
  <2>9. CASE Ended(a, sa, b, sb, F, B, heard, n)
    BY <2>2, <2>9 DEF Ended, Pair
  <2>. QED  BY <2>5, <2>6, <2>7, <2>8, <2>9 DEF Pair
<1>2. ASSUME B # <<>>, ~Back(Head(B), n)
      PROVE  Pair(a, sa, b, sb, F, Tail(B), heard, n)
  <2>1. ~IsAccept(Head(B), n) /\ ~IsReceipt(Head(B), n)
    BY <1>2 DEF Back
  <2>2. /\ NoAccept(B, n) => NoAccept(Tail(B), n)
        /\ NoReceipt(B, n) => NoReceipt(Tail(B), n)
    BY <1>2, NoneInTail
  <2>3. /\ OneAccept(B, n) => OneAccept(Tail(B), n)
        /\ OneReceipt(B, n) => OneReceipt(Tail(B), n)
    BY <1>2, <2>1, OneInTail
  <2>5. CASE Idle(a, sa, b, sb, F, B, heard, n)
    BY <2>2, <2>5 DEF Idle, Pair
  <2>6. CASE Offered(a, sa, b, sb, F, B, heard, n)
    BY <2>2, <2>6 DEF Offered, Pair
  <2>7. CASE Announced(a, sa, b, sb, F, B, heard, n)
    BY <2>2, <2>3, <2>7 DEF Announced, Pair
  <2>8. CASE Sending(a, sa, b, sb, F, B, heard, n)
    BY <2>2, <2>3, <2>8 DEF Sending, Pair
  <2>9. CASE Ended(a, sa, b, sb, F, B, heard, n)
    BY <2>2, <2>3, <2>9 DEF Ended, Pair
  <2>. QED  BY <2>5, <2>6, <2>7, <2>8, <2>9 DEF Pair
<1>. QED  BY <1>1, <1>2

LEMMA PairAppend ==
  ASSUME NEW a \in Transfers \cup {None}, NEW b \in Transfers \cup {None}, NEW sa, NEW sb,
         NEW F \in Seq(Packets), NEW B \in Seq(Packets), NEW heard, NEW n,
         Pair(a, sa, b, sb, F, B, heard, n), NEW m \in Packets
  PROVE  /\ ~Onward(m, n) => Pair(a, sa, b, sb, Append(F, m), B, heard, n)
         /\ ~Back(m, n) => Pair(a, sa, b, sb, F, Append(B, m), heard, n)
<1>1. ASSUME ~Onward(m, n)
      PROVE  Pair(a, sa, b, sb, Append(F, m), B, heard, n)
  <2>1. ~IsRequest(m, n) /\ ~IsData(m, n) /\ ~IsEnd(m, n)
    BY <1>1 DEF Onward
  <2>2. /\ NoRequest(F, n) => NoRequest(Append(F, m), n)
        /\ NoData(F, n) => NoData(Append(F, m), n)
        /\ NoEnd(F, n) => NoEnd(Append(F, m), n)
    BY <2>1, NoneInAppend
  <2>3. /\ EndFirst(F, n) => EndFirst(Append(F, m), n)
        /\ EndLast(F, n) => EndLast(Append(F, m), n)
    BY <2>1, OrderInAppend
  <2>4. /\ \A id, size : OneRequest(F, n, id, size) => OneRequest(Append(F, m), n, id, size)
        /\ OneEnd(F, n) => OneEnd(Append(F, m), n)
    BY <2>1, OneInAppend
  <2>5. Over(b, sb, F, heard, n) => Over(b, sb, Append(F, m), heard, n)
    BY <2>2, <2>4 DEF Over
  <2>6. CASE Idle(a, sa, b, sb, F, B, heard, n)
    BY <2>2, <2>5, <2>6 DEF Idle, Pair
  <2>7. CASE Offered(a, sa, b, sb, F, B, heard, n)
    BY <2>2, <2>3, <2>4, <2>5, <2>7 DEF Offered, Pair
  <2>8. CASE Announced(a, sa, b, sb, F, B, heard, n)
    BY <2>2, <2>8 DEF Announced, Pair
  <2>9. CASE Sending(a, sa, b, sb, F, B, heard, n)
    <3>1. a.position \in Nat /\ b.position \in Nat
      BY <2>9, InTransfer DEF Sending, Running, Agree
    <3>2. Chain(Append(F, m), n, a.id, b.position, a.position)
      BY <2>1, <2>9, <3>1, ChainAppend DEF Sending
    <3>. QED  BY <2>2, <2>3, <2>4, <2>9, <3>2 DEF Sending, Pair
  <2>10. CASE Ended(a, sa, b, sb, F, B, heard, n)
    BY <2>2, <2>10 DEF Ended, Pair
  <2>. QED  BY <2>6, <2>7, <2>8, <2>9, <2>10 DEF Pair
<1>2. ASSUME ~Back(m, n)
      PROVE  Pair(a, sa, b, sb, F, Append(B, m), heard, n)
  <2>1. ~IsAccept(m, n) /\ ~IsReceipt(m, n)
    BY <1>2 DEF Back
  <2>2. /\ NoAccept(B, n) => NoAccept(Append(B, m), n)
        /\ NoReceipt(B, n) => NoReceipt(Append(B, m), n)
    BY <2>1, NoneInAppend
  <2>3. /\ OneAccept(B, n) => OneAccept(Append(B, m), n)
        /\ OneReceipt(B, n) => OneReceipt(Append(B, m), n)
    BY <2>1, OneInAppend
  <2>5. CASE Idle(a, sa, b, sb, F, B, heard, n)
    BY <2>2, <2>5 DEF Idle, Pair
  <2>6. CASE Offered(a, sa, b, sb, F, B, heard, n)
    BY <2>2, <2>6 DEF Offered, Pair
  <2>7. CASE Announced(a, sa, b, sb, F, B, heard, n)
    BY <2>2, <2>3, <2>7 DEF Announced, Pair
  <2>8. CASE Sending(a, sa, b, sb, F, B, heard, n)
    BY <2>2, <2>3, <2>8 DEF Sending, Pair
  <2>9. CASE Ended(a, sa, b, sb, F, B, heard, n)
    BY <2>2, <2>3, <2>9 DEF Ended, Pair
  <2>. QED  BY <2>5, <2>6, <2>7, <2>8, <2>9 DEF Pair
<1>. QED  BY <1>1, <1>2

\* The receiver resumes another file.
LEMMA PairHeard ==
  ASSUME NEW a, NEW b, NEW sa, NEW sb, NEW F, NEW B, NEW heard, NEW n,
         Pair(a, sa, b, sb, F, B, heard, n), NEW id, a # None => a.id # id
  PROVE  Pair(a, sa, b, sb, F, B, heard \cup {id}, n)
<1>1. Over(b, sb, F, heard, n) => Over(b, sb, F, heard \cup {id}, n)
  BY DEF Over
<1>2. CASE Idle(a, sa, b, sb, F, B, heard, n)
  BY <1>1, <1>2 DEF Idle, Pair
<1>3. CASE Offered(a, sa, b, sb, F, B, heard, n)
  BY <1>1, <1>3 DEF Offered, Paused, Pair
<1>4. CASE Announced(a, sa, b, sb, F, B, heard, n)
  BY <1>4 DEF Announced, Paused, Pair
<1>5. CASE Sending(a, sa, b, sb, F, B, heard, n)
  BY <1>5 DEF Sending, Running, Pair
<1>6. CASE Ended(a, sa, b, sb, F, B, heard, n)
  BY <1>6 DEF Ended, Running, Pair
<1>. QED  BY <1>2, <1>3, <1>4, <1>5, <1>6 DEF Pair

-----------------------------------------------------------------------------
(* What is known when a packet arrives, and how the pair goes on.          *)

\* An offer arrives when the number is free again.
LEMMA RequestArrives ==
  ASSUME NEW a \in Transfers \cup {None}, NEW b \in Transfers \cup {None}, NEW sa, NEW sb,
         NEW F \in Seq(Packets), NEW B \in Seq(Packets), NEW heard, NEW n \in Numbers,
         Pair(a, sa, b, sb, F, B, heard, n), F # <<>>, IsRequest(Head(F), n),
         NEW cause \in Garbage
  PROVE  /\ b = None
         /\ Pair(a, sa, Transfer(Head(F).id, Head(F).size, cause), "offered",
                 Tail(F), B, heard, n)
<1> DEFINE m == Head(F)
           t == Transfer(m.id, m.size, cause)
<1>1. Offered(a, sa, b, sb, F, B, heard, n)
  <2>1. ~NoRequest(F, n)
    BY InTail DEF NoRequest
  <2>. QED  BY <2>1 DEF Pair, Idle, Announced, Sending, Ended
<1>2. NoEnd(F, n)
  BY <1>1, OrderAtHead DEF Offered
<1>3. b = None
  <2>1. ~OneEnd(F, n)
    BY <1>2 DEF NoEnd, OneEnd
  <2>. QED  BY <1>1, <2>1 DEF Offered, Over
<1>4. m.id = a.id /\ m.size = a.file_size /\ NoRequest(Tail(F), n)
  BY <1>1, OneInTail DEF Offered
<1>5. NoData(Tail(F), n) /\ NoEnd(Tail(F), n)
  BY <1>1, <1>2, NoneInTail DEF Offered
<1>6. t # None /\ t.id = a.id /\ t.file_size = a.file_size /\ t.position = 0
  <2>1. a.id \in Ids /\ a.file_size \in Sizes
    BY <1>1, InTransfer DEF Offered, Paused
  <2>2. t \in Transfers
    BY <1>4, <2>1, TransferMade
  <2>. QED  BY <1>4, <2>2, NoneAssumption DEF Transfer
<1> HIDE DEF t
<1>7. Announced(a, sa, t, "offered", Tail(F), B, heard, n)
  BY <1>1, <1>4, <1>5, <1>6 DEF Announced, Offered, Agree
<1>. QED  BY <1>3, <1>7 DEF Pair, t

\* The data of a packet is what is to come next.
Fits(t, m) ==
  /\ t.id = m.id /\ t.position = m.at /\ t.position < t.file_size
  /\ t.position + m.length \in Nat /\ t.position + m.length <= t.file_size

\* Data arrives for the file it was read from, at the position it was read at.
LEMMA DataExpected ==
  ASSUME NEW a \in Transfers \cup {None}, NEW b \in Transfers \cup {None}, NEW sa, NEW sb,
         NEW F \in Seq(Packets), NEW B \in Seq(Packets), NEW heard, NEW n \in Numbers,
         Pair(a, sa, b, sb, F, B, heard, n), F # <<>>, IsData(Head(F), n)
  PROVE  /\ Sending(a, sa, b, sb, F, B, heard, n)
         /\ b # None /\ Fits(b, Head(F))
<1>1. Sending(a, sa, b, sb, F, B, heard, n)
  <2>1. ~NoData(F, n)
    BY InTail DEF NoData
  <2>. QED  BY <2>1 DEF Pair, Idle, Offered, Announced, Ended
<1>2. /\ a.position \in Nat /\ b.position \in Nat /\ b.file_size \in Nat
      /\ b # None /\ sb = "accepted" /\ b.id = a.id /\ b.file_size = a.file_size
      /\ a.position <= a.file_size
  BY <1>1, InTransfer DEF Sending, Running, Agree
<1>3. /\ Head(F).id = a.id /\ Head(F).at = b.position /\ Head(F).length \in Nat \ {0}
      /\ b.position + Head(F).length <= a.position
  BY <1>1, <1>2, ChainHead DEF Sending
<1>. QED  BY <1>1, <1>2, <1>3 DEF Fits

LEMMA DataArrives ==
  ASSUME NEW a \in Transfers \cup {None}, NEW b \in Transfers \cup {None}, NEW sa, NEW sb,
         NEW F \in Seq(Packets), NEW B \in Seq(Packets), NEW heard, NEW n \in Numbers,
         Pair(a, sa, b, sb, F, B, heard, n), F # <<>>, IsData(Head(F), n),
         NEW t \in Transfers \cup {None}, t # None,
         t.id = b.id, t.file_size = b.file_size, t.position = b.position + Head(F).length
  PROVE  Pair(a, sa, t, sb, Tail(F),
              IF t.position = b.file_size
              THEN Append(B, Control(Incoming + n, "FINISHED")) ELSE B, heard, n)
<1> DEFINE m   == Head(F)
           pos == b.position + m.length
           fin == Control(Incoming + n, "FINISHED")
<1>1. Sending(a, sa, b, sb, F, B, heard, n)
  BY DataExpected
<1>2. /\ a.position \in Nat /\ b.position \in Nat /\ b.file_size \in Nat
      /\ b # None /\ sb = "accepted" /\ b.id = a.id /\ b.file_size = a.file_size
      /\ a.position <= a.file_size
  BY <1>1, InTransfer DEF Sending, Running, Agree
<1>3. Chain(Tail(F), n, a.id, pos, a.position)
  BY <1>1, <1>2, ChainHead DEF Sending
<1>4. pos \in Nat /\ pos <= b.file_size /\ b.position < b.file_size /\ b.file_size # 0
  <2>1. pos \in Nat /\ pos <= b.file_size /\ b.position < b.file_size
    BY DataExpected DEF Fits
  <2>. QED  BY <1>2, <2>1
<1>5. NoReceipt(B, n)
  BY <1>1, <1>2, <1>4 DEF Sending, Complete
<1>6. IsReceipt(fin, n) /\ ~IsAccept(fin, n) /\ fin \in Packets
  BY FileNumber, ControlTypes DEF IsReceipt, IsAccept, Control
<1>7. /\ EndLast(Tail(F), n) /\ NoRequest(Tail(F), n)
      /\ IF Complete(a) THEN OneEnd(Tail(F), n) ELSE NoEnd(Tail(F), n)
  <2>1. ~IsEnd(m, n)
    BY DEF IsData, IsEnd
  <2>. QED  BY <1>1, <2>1, NoneInTail, OneInTail DEF Sending
<1> HIDE DEF m, pos, fin
<1>8. Complete(t) <=> pos = b.file_size
  BY <1>4 DEF Complete, pos, m
<1>9. Agree(a, t)
  BY <1>2 DEF Agree
<1>10. CASE pos = b.file_size
  <2>1. OneReceipt(Append(B, fin), n) /\ NoAccept(Append(B, fin), n)
    BY <1>1, <1>5, <1>6, FirstInAppend, NoneInAppend DEF Sending
  <2>2. Sending(a, sa, t, sb, Tail(F), Append(B, fin), heard, n)
    BY <1>1, <1>3, <1>7, <1>8, <1>9, <1>10, <2>1 DEF Sending, pos, m
  <2>. QED  BY <1>10, <2>2 DEF Pair, pos, m, fin
<1>11. CASE pos # b.file_size
  <2>1. Sending(a, sa, t, sb, Tail(F), B, heard, n)
    BY <1>1, <1>3, <1>5, <1>7, <1>8, <1>9, <1>11 DEF Sending, pos, m
  <2>. QED  BY <1>11, <2>1 DEF Pair, pos, m
<1>. QED  BY <1>10, <1>11

\* The end arrives after the data, before the number is used again.
LEMMA EndArrives ==
  ASSUME NEW a \in Transfers \cup {None}, NEW b \in Transfers \cup {None}, NEW sa, NEW sb,
         NEW F \in Seq(Packets), NEW B \in Seq(Packets), NEW heard, NEW n \in Numbers,
         Pair(a, sa, b, sb, F, B, heard, n), F # <<>>, IsEnd(Head(F), n)
  PROVE  /\ b # None /\ b.position = b.file_size
         /\ Pair(a, sa, None, "none", Tail(F), B, heard, n)
<1>0. ~NoEnd(F, n)
  BY InTail DEF NoEnd
<1>1. /\ NoRequest(F, n) => NoRequest(Tail(F), n)
      /\ NoData(F, n) => NoData(Tail(F), n)
      /\ EndFirst(F, n) => EndFirst(Tail(F), n)
      /\ OneEnd(F, n) => NoEnd(Tail(F), n)
      /\ \A id, size : OneRequest(F, n, id, size) => OneRequest(Tail(F), n, id, size)
  <2>1. ~IsRequest(Head(F), n)
    BY DEF IsEnd, IsRequest
  <2>. QED  BY <2>1, NoneInTail, OneInTail
<1>2. Over(b, sb, F, heard, n) =>
        b # None /\ b.position = b.file_size /\ Over(None, "none", Tail(F), heard, n)
  BY <1>0, <1>1 DEF Over
<1>3. CASE Idle(a, sa, b, sb, F, B, heard, n)
  BY <1>1, <1>2, <1>3 DEF Idle, Pair
<1>4. CASE Offered(a, sa, b, sb, F, B, heard, n)
  BY <1>1, <1>2, <1>4 DEF Offered, Pair
<1>5. CASE Sending(a, sa, b, sb, F, B, heard, n)
  <2>1. Complete(a) /\ OneEnd(F, n) /\ NoData(F, n)
    BY <1>0, <1>5, OrderAtHead DEF Sending
  <2>2. b # None /\ b.file_size = a.file_size /\ b.position = a.position
    <3>1. a.position \in Nat /\ b.position \in Nat
      BY <1>5, InTransfer DEF Sending, Running, Agree
    <3>. QED  BY <1>5, <2>1, <3>1, ChainEmpty DEF Sending, Agree
  <2>3. OneReceipt(B, n)
    BY <1>5, <2>1, <2>2 DEF Sending, Complete
  <2>4. Ended(a, sa, None, "none", Tail(F), B, heard, n)
    BY <1>1, <1>5, <2>1, <2>3 DEF Sending, Ended
  <2>. QED  BY <2>1, <2>2, <2>4 DEF Pair, Complete
<1>6. ~Announced(a, sa, b, sb, F, B, heard, n) /\ ~Ended(a, sa, b, sb, F, B, heard, n)
  BY <1>0 DEF Announced, Ended
<1>. QED  BY <1>3, <1>4, <1>5, <1>6 DEF Pair

LEMMA AcceptArrives ==
  ASSUME NEW a \in Transfers \cup {None}, NEW b \in Transfers \cup {None}, NEW sa, NEW sb,
         NEW F \in Seq(Packets), NEW B \in Seq(Packets), NEW heard, NEW n \in Numbers,
         Pair(a, sa, b, sb, F, B, heard, n), B # <<>>, IsAccept(Head(B), n)
  PROVE  /\ a # None /\ sa = "offered" /\ ~a.event_pending
         /\ Pair([a EXCEPT !.state = "RUNNING"], "accepted", b, sb, F, Tail(B), heard, n)
<1> DEFINE t == [a EXCEPT !.state = "RUNNING"]
<1>1. Announced(a, sa, b, sb, F, B, heard, n) /\ OneAccept(B, n)
  <2>1. ~NoAccept(B, n)
    BY InTail DEF NoAccept
  <2>. QED  BY <2>1 DEF Pair, Idle, Offered, Announced, Sending, Ended
<1>2. sb = "accepted" /\ a.id \in heard
  <2>1. ~NoAccept(B, n)
    BY <1>1 DEF NoAccept, OneAccept
  <2>. QED  BY <1>1, <2>1 DEF Announced
<1>3. /\ t \in Transfers /\ t # None /\ t.state = "RUNNING" /\ t.id = a.id
      /\ t.position = a.position /\ t.file_size = a.file_size /\ t.file_size \in Nat
  <2>1. a \in Transfers /\ a.file_size \in Nat
    BY <1>1, InTransfer DEF Announced, Paused
  <2>2. t \in Transfers
    BY <2>1, TransferTypes
  <2>3. /\ t.state = "RUNNING" /\ t.id = a.id
        /\ t.position = a.position /\ t.file_size = a.file_size
    BY <2>1 DEF Transfers
  <2>. QED  BY <2>1, <2>2, <2>3, NoneAssumption
<1> HIDE DEF t
<1>4. /\ t.position = 0 /\ b.position = 0 /\ b.file_size = t.file_size
      /\ ~Complete(t) /\ ~Complete(b) /\ t.position <= t.file_size
  BY <1>1, <1>3 DEF Announced, Paused, Agree, Complete
<1>5. NoAccept(Tail(B), n) /\ NoReceipt(Tail(B), n)
  BY <1>1, NoneInTail, OneInTail DEF Announced
<1>6. Chain(F, n, t.id, b.position, t.position) /\ EndLast(F, n)
  <2>1. NoData(F, n)
    BY <1>1 DEF Announced
  <2>. QED  BY <1>4, <2>1, ChainEmpty DEF EndLast, NoData
<1>7. Sending(t, "accepted", b, sb, F, Tail(B), heard, n)
  BY <1>1, <1>2, <1>3, <1>4, <1>5, <1>6 DEF Announced, Sending, Running, Agree
<1>. QED  BY <1>1, <1>7 DEF Pair, Announced, Paused, t

\* The receiver has all of it, so everything was sent.
LEMMA ReceiptArrives ==
  ASSUME NEW a \in Transfers \cup {None}, NEW b \in Transfers \cup {None}, NEW sa, NEW sb,
         NEW F \in Seq(Packets), NEW B \in Seq(Packets), NEW heard, NEW n \in Numbers,
         Pair(a, sa, b, sb, F, B, heard, n), B # <<>>, IsReceipt(Head(B), n)
  PROVE  /\ a # None /\ a.position = a.file_size
         /\ Pair(None, "none", b, sb, F, Tail(B), heard, n)
<1>0. ~NoReceipt(B, n)
  BY InTail DEF NoReceipt
<1>1. /\ NoAccept(B, n) => NoAccept(Tail(B), n)
      /\ OneReceipt(B, n) => NoReceipt(Tail(B), n)
  BY NoneInTail, OneInTail
<1>2. CASE Sending(a, sa, b, sb, F, B, heard, n)
  <2>1. Complete(b) /\ OneReceipt(B, n)
    BY <1>0, <1>2 DEF Sending
  <2>2. /\ a.position \in Nat /\ b.position \in Nat /\ a.position <= a.file_size
        /\ a.file_size \in Nat /\ b.file_size = a.file_size
    BY <1>2, InTransfer DEF Sending, Running, Agree
  <2>3. a.position = b.position /\ Complete(a)
    BY <1>2, <2>1, <2>2 DEF Sending, Chain, Complete
  <2>4. NoData(F, n) /\ OneEnd(F, n)
    BY <1>2, <2>2, <2>3, ChainEmpty DEF Sending
  <2>5. Over(b, sb, F, heard, n)
    BY <1>2, <2>1, <2>4 DEF Sending, Running, Agree, Complete, Over
  <2>6. Idle(None, "none", b, sb, F, Tail(B), heard, n)
    BY <1>1, <1>2, <2>1, <2>4, <2>5 DEF Sending, Idle
  <2>. QED  BY <1>2, <2>3, <2>6 DEF Pair, Complete, Sending, Running
<1>3. CASE Ended(a, sa, b, sb, F, B, heard, n)
  <2>1. Idle(None, "none", b, sb, F, Tail(B), heard, n)
    BY <1>1, <1>3 DEF Ended, Idle, Over
  <2>. QED  BY <1>3, <2>1 DEF Pair, Ended, Running, Complete
<1>. QED  BY <1>0, <1>2, <1>3 DEF Pair, Idle, Offered, Announced

-----------------------------------------------------------------------------
(* How a pair goes on when one of the clients calls.                       *)

\* toxcore gives a new file a number that is free there.
LEMMA FileOffered ==
  ASSUME NEW a \in Transfers \cup {None}, NEW b \in Transfers \cup {None}, NEW sb,
         NEW F \in Seq(Packets), NEW B \in Seq(Packets), NEW heard, NEW n \in Numbers,
         Pair(a, "none", b, sb, F, B, heard, n),
         NEW id \in Ids, NEW size \in Sizes, NEW cause \in Garbage, id \notin heard
  PROVE  /\ a = None
         /\ Pair(Transfer(id, size, cause), "offered", b, sb, Append(F, Request(id, n, size)),
                 B, heard, n)
<1> DEFINE t == Transfer(id, size, cause)
           m == Request(id, n, size)
<1>1. Idle(a, "none", b, sb, F, B, heard, n)
  BY DEF Pair, Offered, Paused, Announced, Sending, Ended, Running
<1>2. /\ m \in Packets /\ IsRequest(m, n) /\ ~IsData(m, n) /\ ~IsEnd(m, n)
      /\ m.id = id /\ m.size = size
  BY DEF Request, Packets, IsRequest, IsData, IsEnd
<1>3. /\ t # None /\ t.id = id /\ t.file_size = size /\ t.state = "PAUSED"
      /\ t.position = 0 /\ ~t.event_pending
  <2>1. t \in Transfers
    BY TransferMade
  <2>. QED  BY <2>1, NoneAssumption DEF Transfer
<1> HIDE DEF t, m
<1>4. /\ OneRequest(Append(F, m), n, id, size) /\ EndFirst(Append(F, m), n)
      /\ NoData(Append(F, m), n)
  BY <1>1, <1>2, FirstInAppend, OrderInAppend, NoneInAppend DEF Idle
<1>5. Over(b, sb, Append(F, m), heard, n)
  <2>1. Over(b, sb, F, heard, n)
    BY <1>1 DEF Idle
  <2>. QED  BY <1>2, <2>1, NoneInAppend, OneInAppend DEF Over
<1>6. Offered(t, "offered", b, sb, Append(F, m), B, heard, n)
  BY <1>1, <1>3, <1>4, <1>5 DEF Idle, Offered, Paused
<1>. QED  BY <1>1, <1>6 DEF Pair, Idle, t, m

\* A transfer the client has not resumed yet was just offered.
LEMMA FileResumed ==
  ASSUME NEW a \in Transfers \cup {None}, NEW b \in Transfers \cup {None}, NEW sa, NEW sb,
         NEW F \in Seq(Packets), NEW B \in Seq(Packets), NEW heard, NEW n \in Numbers,
         Pair(a, sa, b, sb, F, B, heard, n), b # None, b.id \notin heard
  PROVE  /\ Announced(a, sa, b, sb, F, B, heard, n) /\ a # None /\ a.id = b.id
         /\ Pair(a, sa, b, "accepted", F, Append(B, Control(Incoming + n, "ACCEPT")),
                 heard \cup {b.id}, n)
<1> DEFINE m == Control(Incoming + n, "ACCEPT")
<1>1. Announced(a, sa, b, sb, F, B, heard, n)
  BY DEF Pair, Idle, Offered, Over, Sending, Ended, Running, Agree
<1>2. a # None /\ a.id = b.id /\ sb = "offered" /\ NoAccept(B, n) /\ NoReceipt(B, n)
  BY <1>1 DEF Announced, Paused, Agree
<1>3. IsAccept(m, n) /\ ~IsReceipt(m, n) /\ m \in Packets
  BY FileNumber, ControlTypes DEF IsReceipt, IsAccept, Control
<1> HIDE DEF m
<1>4. OneAccept(Append(B, m), n) /\ NoReceipt(Append(B, m), n)
  BY <1>2, <1>3, FirstInAppend, NoneInAppend
<1>5. Announced(a, sa, b, "accepted", F, Append(B, m), heard \cup {b.id}, n)
  BY <1>1, <1>2, <1>4 DEF Announced
<1>. QED  BY <1>1, <1>2, <1>5 DEF Pair, m

\* A running transfer that is not at the end is one both sides agree on.
LEMMA StillSending ==
  ASSUME NEW a \in Transfers \cup {None}, NEW b \in Transfers \cup {None}, NEW sa, NEW sb,
         NEW F \in Seq(Packets), NEW B \in Seq(Packets), NEW heard, NEW n \in Numbers,
         Pair(a, sa, b, sb, F, B, heard, n),
         a # None, a.state = "RUNNING", a.position # a.file_size
  PROVE  /\ Sending(a, sa, b, sb, F, B, heard, n) /\ a.position < a.file_size
         /\ NoEnd(F, n) /\ sa = "accepted"
         /\ \A t \in Transfers :
              /\ t.id = a.id /\ t.state = a.state /\ t.position = a.position
              /\ t.file_size = a.file_size
              => Pair(t, sa, b, sb, F, B, heard, n)
<1>1. Sending(a, sa, b, sb, F, B, heard, n)
  BY DEF Pair, Idle, Offered, Announced, Paused, Ended, Complete
<1>2. a.position < a.file_size /\ sa = "accepted"
  BY <1>1, InTransfer DEF Sending, Running
<1>3. NoEnd(F, n)
  BY <1>1, <1>2 DEF Sending, Complete
<1>4. ASSUME NEW t \in Transfers, t.id = a.id, t.state = a.state, t.position = a.position,
             t.file_size = a.file_size
      PROVE  Sending(t, sa, b, sb, F, B, heard, n)
  <2>1. t # None /\ Running(t, sa, heard) /\ Agree(t, b) /\ (Complete(t) <=> Complete(a))
    BY <1>1, <1>4, NoneAssumption DEF Sending, Running, Agree, Complete
  <2>2. Chain(F, n, t.id, b.position, t.position)
    BY <1>1, <1>4 DEF Sending
  <2>. QED  BY <1>1, <2>1, <2>2 DEF Sending
<1>. QED  BY <1>1, <1>2, <1>3, <1>4 DEF Pair

LEMMA ChunkSent ==
  ASSUME NEW a \in Transfers \cup {None}, NEW b \in Transfers \cup {None}, NEW sa, NEW sb,
         NEW F \in Seq(Packets), NEW B \in Seq(Packets), NEW heard, NEW n \in Numbers,
         Pair(a, sa, b, sb, F, B, heard, n),
         a # None, a.state = "RUNNING", a.position # a.file_size,
         NEW length \in Nat \ {0}, a.position + length <= a.file_size,
         NEW t \in Transfers,
         t.id = a.id, t.state = a.state, t.file_size = a.file_size,
         t.position = a.position + length,
         Data(a.id, n, a.position, length) \in Packets
  PROVE  Pair(t, sa, b, sb,
              IF t.position = t.file_size
              THEN Append(Append(F, Data(a.id, n, a.position, length)), Control(n, "FINISHED"))
              ELSE Append(F, Data(a.id, n, a.position, length)),
              B, heard, n)
<1> DEFINE m   == Data(a.id, n, a.position, length)
           fin == Control(n, "FINISHED")
           G   == Append(F, m)
<1>1. Sending(a, sa, b, sb, F, B, heard, n) /\ a.position < a.file_size /\ NoEnd(F, n)
  BY StillSending
<1>2. /\ a.position \in Nat /\ b.position \in Nat /\ a.file_size \in Nat
  BY <1>1, InTransfer DEF Sending, Agree
<1>3. /\ m \in Packets /\ IsData(m, n) /\ ~IsEnd(m, n) /\ ~IsRequest(m, n)
      /\ m.id = a.id /\ m.at = a.position /\ m.length = length
  BY DEF Data, IsData, IsEnd, IsRequest
<1>4. IsEnd(fin, n) /\ ~IsData(fin, n) /\ ~IsRequest(fin, n) /\ fin \in Packets
  BY FileNumber, ControlTypes DEF IsEnd, IsData, IsRequest, Control
<1>5. G \in Seq(Packets)
  BY <1>3, AppendProperties
<1>6. /\ t # None /\ Running(t, sa, heard) /\ Agree(t, b)
      /\ Complete(t) <=> t.position = t.file_size
  <2>1. t.file_size # 0
    BY <1>1, <1>2
  <2>. QED  BY <1>1, <1>2, <2>1, NoneAssumption DEF Sending, Running, Agree, Complete
<1> HIDE DEF m, fin
<1>7. /\ Chain(G, n, t.id, b.position, t.position) /\ EndLast(G, n)
      /\ NoEnd(G, n) /\ NoRequest(G, n)
  <2>1. Chain(G, n, a.id, b.position, a.position + length)
    BY <1>1, <1>2, <1>3, ChainAppend DEF Sending
  <2>. QED  BY <1>1, <1>3, <2>1, OrderInAppend, NoneInAppend DEF Sending
<1> HIDE DEF G
<1>8. CASE t.position = t.file_size
  <2>1. /\ Chain(Append(G, fin), n, t.id, b.position, t.position) /\ EndLast(Append(G, fin), n)
        /\ OneEnd(Append(G, fin), n) /\ NoRequest(Append(G, fin), n)
    <3>1. t.position \in Nat
      BY <1>2
    <3>. QED  BY <1>2, <1>4, <1>5, <1>7, <3>1, ChainAppend, OrderInAppend, FirstInAppend,
                 NoneInAppend
  <2>2. Sending(t, sa, b, sb, Append(G, fin), B, heard, n)
    BY <1>1, <1>6, <1>8, <2>1 DEF Sending
  <2>. QED  BY <1>8, <2>2 DEF Pair, G, m, fin
<1>9. CASE t.position # t.file_size
  <2>1. Sending(t, sa, b, sb, G, B, heard, n)
    BY <1>1, <1>6, <1>7, <1>9 DEF Sending
  <2>. QED  BY <1>9, <2>1 DEF Pair, G, m, fin
<1>. QED  BY <1>8, <1>9

-----------------------------------------------------------------------------
(* A step of a peer is about one of its file numbers.                      *)

LEMMA PairsOf ==
  ASSUME NEW p \in Peers
  PROVE  /\ PairInv <=> \A n \in Numbers : SentBy(p, n) /\ ReceivedBy(p, n)
         /\ PairInv' <=> \A n \in Numbers : SentBy(p, n)' /\ ReceivedBy(p, n)'
<1>1. Other(p) \in Peers /\ Other(Other(p)) = p /\ \A q \in Peers : q = p \/ q = Other(p)
  BY TwoPeers
<1>2. \A n \in Numbers : SentBy(Other(p), n) <=> ReceivedBy(p, n)
  BY <1>1 DEF SentBy, ReceivedBy
<1>3. \A n \in Numbers : SentBy(Other(p), n)' <=> ReceivedBy(p, n)'
  BY <1>1 DEF SentBy, ReceivedBy
<1>4. PairInv <=> \A n \in Numbers : SentBy(p, n) /\ SentBy(Other(p), n)
  BY <1>1 DEF PairInv
<1>5. PairInv' <=> \A n \in Numbers : SentBy(p, n)' /\ SentBy(Other(p), n)'
  BY <1>1 DEF PairInv
<1>. QED  BY <1>2, <1>3, <1>4, <1>5

\* A packet that arrives, and one that is sent, is about file number fn of the peer.
ArrivesFor(m, fn) ==
  \A n \in Numbers : (Onward(m, n) => Incoming + n = fn) /\ (Back(m, n) => n = fn)
SentFor(m, fn) ==
  \A n \in Numbers : (Onward(m, n) => n = fn) /\ (Back(m, n) => Incoming + n = fn)

LEMMA PacketsFor ==
  ASSUME NEW m \in Packets
  PROVE  /\ m.number \in Numbers
         /\ m.type \in {"request", "data", "control"}
         /\ m.type # "control" => ArrivesFor(m, Incoming + m.number) /\ SentFor(m, m.number)
         /\ m.type = "control" => /\ m.receive_send \in {0, 1}
                                  /\ m.control \in {"ACCEPT", "PAUSE", "FINISHED"}
                                  /\ ArrivesFor(m, NewFileNumber(m.receive_send, m.number))
<1>1. m.number \in Numbers /\ m.type \in {"request", "data", "control"}
  BY DEF Packets
<1>2. m.type = "control" => /\ m.receive_send \in {0, 1}
                            /\ m.control \in {"ACCEPT", "PAUSE", "FINISHED"}
  BY DEF Packets
<1>3. m.type # "control" => ArrivesFor(m, Incoming + m.number) /\ SentFor(m, m.number)
  BY DEF ArrivesFor, SentFor, Onward, Back, IsRequest, IsData, IsEnd, IsAccept, IsReceipt
<1>4. m.type = "control" => ArrivesFor(m, NewFileNumber(m.receive_send, m.number))
  BY <1>1, <1>2, FileNumber
     DEF ArrivesFor, Onward, Back, IsRequest, IsData, IsEnd, IsAccept, IsReceipt
<1>. QED  BY <1>1, <1>2, <1>3, <1>4

LEMMA ControlFor ==
  ASSUME NEW fn \in FileNumbers, NEW c \in {"ACCEPT", "PAUSE", "FINISHED"}
  PROVE  SentFor(Control(fn, c), fn)
<1>1. CASE fn < Incoming
  BY <1>1, FileNumberIs
     DEF SentFor, Onward, Back, IsRequest, IsData, IsEnd, IsAccept, IsReceipt, Control
<1>2. CASE ~(fn < Incoming)
  BY <1>2, FileNumberIs
     DEF SentFor, Onward, Back, IsRequest, IsData, IsEnd, IsAccept, IsReceipt, Control
<1>. QED  BY <1>1, <1>2

\* All other files are as they were.
LEMMA OtherPairs ==
  ASSUME TypeOK, TypeOK', PairInv, NEW p \in Peers, NEW fn \in FileNumbers,
         \A q \in Peers, k \in FileNumbers : q # p \/ k # fn =>
           transfers'[q][k] = transfers[q][k] /\ slots'[q][k] = slots[q][k],
         \/ net'[p] = net[p]
         \/ /\ net[p] # <<>> /\ net'[p] = Tail(net[p])
            /\ ArrivesFor(Head(net[p]), fn),
         \/ net'[Other(p)] = net[Other(p)]
         \/ \E m \in Packets : SentFor(m, fn) /\ net'[Other(p)] = Append(net[Other(p)], m)
         \/ \E m, k \in Packets : /\ SentFor(m, fn) /\ SentFor(k, fn)
                                  /\ net'[Other(p)] = Append(Append(net[Other(p)], m), k),
         resumed'[Other(p)] = resumed[Other(p)],
         \/ resumed'[p] = resumed[p]
         \/ \E id : /\ resumed'[p] = resumed[p] \cup {id}
                    /\ \A n \in Numbers :
                         Incoming + n # fn /\ transfers[Other(p)][n] # None =>
                           transfers[Other(p)][n].id # id
  PROVE  \A n \in Numbers : (n # fn => SentBy(p, n)') /\ (Incoming + n # fn => ReceivedBy(p, n)')
<1> DEFINE q == Other(p)
<1>1. q \in Peers /\ q # p
  BY TwoPeers
<1>2. net[p] \in Seq(Packets) /\ net[q] \in Seq(Packets)
  BY <1>1 DEF TypeOK
<1> TAKE n \in Numbers
<1>3. n \in FileNumbers /\ Incoming + n \in FileNumbers
  BY FileNumber
<1> DEFINE a == transfers[p][n]
           b == transfers[q][Incoming + n]
           c == transfers[q][n]
           d == transfers[p][Incoming + n]
<1>4. /\ a \in Transfers \cup {None} /\ b \in Transfers \cup {None}
      /\ c \in Transfers \cup {None} /\ d \in Transfers \cup {None}
  <2>1. transfers \in [Peers -> [FileNumbers -> Transfers \cup {None}]]
    BY DEF TypeOK
  <2>. QED  BY <1>1, <1>3, <2>1
<1>5. /\ Pair(a, slots[p][n], b, slots[q][Incoming + n], net[q], net[p], resumed[q], n)
      /\ Pair(c, slots[q][n], d, slots[p][Incoming + n], net[p], net[q], resumed[p], n)
  BY PairsOf DEF SentBy, ReceivedBy
<1>6. ASSUME n # fn  PROVE SentBy(p, n)'
  <2>1. /\ transfers'[p][n] = a /\ slots'[p][n] = slots[p][n]
        /\ transfers'[q][Incoming + n] = b /\ slots'[q][Incoming + n] = slots[q][Incoming + n]
    BY <1>1, <1>3, <1>6
  <2> HIDE DEF a, b, c, d
  <2>2. Pair(a, slots[p][n], b, slots[q][Incoming + n], net[q], net'[p], resumed[q], n)
    <3>1. CASE net'[p] = net[p]
      BY <1>5, <3>1
    <3>2. CASE net[p] # <<>> /\ net'[p] = Tail(net[p]) /\ ArrivesFor(Head(net[p]), fn)
      <4>1. ~Back(Head(net[p]), n)
        BY <1>6, <3>2 DEF ArrivesFor
      <4>. QED  BY <1>2, <1>4, <1>5, <3>2, <4>1, PairTail
    <3>. QED  BY <3>1, <3>2
  <2>3. net'[p] \in Seq(Packets)
    BY DEF TypeOK
  <2>4. \A m \in Packets : SentFor(m, fn) => ~Onward(m, n)
    BY <1>6 DEF SentFor
  <2>5. Pair(a, slots[p][n], b, slots[q][Incoming + n], net'[q], net'[p], resumed[q], n)
    <3>1. CASE net'[q] = net[q]
      BY <2>2, <3>1
    <3>2. CASE \E m \in Packets : SentFor(m, fn) /\ net'[q] = Append(net[q], m)
      BY <1>2, <1>4, <2>2, <2>3, <2>4, <3>2, PairAppend
    <3>3. CASE \E m, k \in Packets : /\ SentFor(m, fn) /\ SentFor(k, fn)
                                     /\ net'[q] = Append(Append(net[q], m), k)
      <4>1. PICK m \in Packets, k \in Packets :
              SentFor(m, fn) /\ SentFor(k, fn) /\ net'[q] = Append(Append(net[q], m), k)
        BY <3>3
      <4>2. Pair(a, slots[p][n], b, slots[q][Incoming + n], Append(net[q], m), net'[p],
                 resumed[q], n)
        BY <1>2, <1>4, <2>2, <2>3, <2>4, <4>1, PairAppend
      <4>3. Append(net[q], m) \in Seq(Packets)
        BY <1>2, AppendProperties
      <4>4. Pair(a, slots[p][n], b, slots[q][Incoming + n], Append(Append(net[q], m), k),
                 net'[p], resumed[q], n)
        <5>1. ~Onward(k, n)
          BY <2>4, <4>1
        <5>. QED  BY <1>4, <2>3, <4>2, <4>3, <5>1, PairAppend
      <4>. QED  BY <4>1, <4>4
    <3>. QED  BY <3>1, <3>2, <3>3
  <2>. QED  BY <2>1, <2>5 DEF SentBy
<1>7. ASSUME Incoming + n # fn  PROVE ReceivedBy(p, n)'
  <2>1. /\ transfers'[q][n] = c /\ slots'[q][n] = slots[q][n]
        /\ transfers'[p][Incoming + n] = d /\ slots'[p][Incoming + n] = slots[p][Incoming + n]
    BY <1>1, <1>3, <1>7
  <2>6. \/ resumed'[p] = resumed[p]
        \/ \E id : /\ resumed'[p] = resumed[p] \cup {id}
                   /\ c # None => c.id # id
    BY <1>7
  <2> HIDE DEF a, b, c, d
  <2>2. Pair(c, slots[q][n], d, slots[p][Incoming + n], net'[p], net[q], resumed[p], n)
    <3>1. CASE net'[p] = net[p]
      BY <1>5, <3>1
    <3>2. CASE net[p] # <<>> /\ net'[p] = Tail(net[p]) /\ ArrivesFor(Head(net[p]), fn)
      <4>1. ~Onward(Head(net[p]), n)
        BY <1>7, <3>2 DEF ArrivesFor
      <4>2. Pair(c, slots[q][n], d, slots[p][Incoming + n], Tail(net[p]), net[q], resumed[p], n)
        BY <1>2, <1>4, <1>5, <3>2, <4>1, PairTail
      <4>. QED  BY <3>2, <4>2
    <3>. QED  BY <3>1, <3>2
  <2>3. net'[p] \in Seq(Packets)
    BY DEF TypeOK
  <2>4. \A m \in Packets : SentFor(m, fn) => ~Back(m, n)
    BY <1>7 DEF SentFor
  <2>5. Pair(c, slots[q][n], d, slots[p][Incoming + n], net'[p], net'[q], resumed[p], n)
    <3>1. CASE net'[q] = net[q]
      BY <2>2, <3>1
    <3>2. CASE \E m \in Packets : SentFor(m, fn) /\ net'[q] = Append(net[q], m)
      BY <1>2, <1>4, <2>2, <2>3, <2>4, <3>2, PairAppend
    <3>3. CASE \E m, k \in Packets : /\ SentFor(m, fn) /\ SentFor(k, fn)
                                     /\ net'[q] = Append(Append(net[q], m), k)
      <4>1. PICK m \in Packets, k \in Packets :
              SentFor(m, fn) /\ SentFor(k, fn) /\ net'[q] = Append(Append(net[q], m), k)
        BY <3>3
      <4>2. Pair(c, slots[q][n], d, slots[p][Incoming + n], net'[p], Append(net[q], m),
                 resumed[p], n)
        BY <1>2, <1>4, <2>2, <2>3, <2>4, <4>1, PairAppend
      <4>3. Append(net[q], m) \in Seq(Packets)
        BY <1>2, AppendProperties
      <4>4. Pair(c, slots[q][n], d, slots[p][Incoming + n], net'[p],
                 Append(Append(net[q], m), k), resumed[p], n)
        <5>1. ~Back(k, n)
          BY <2>4, <4>1
        <5>. QED  BY <1>4, <2>3, <4>2, <4>3, <5>1, PairAppend
      <4>. QED  BY <4>1, <4>4
    <3>. QED  BY <3>1, <3>2, <3>3
  <2>7. Pair(c, slots[q][n], d, slots[p][Incoming + n], net'[p], net'[q], resumed'[p], n)
    <3>1. CASE resumed'[p] = resumed[p]
      BY <2>5, <3>1
    <3>2. CASE \E id : resumed'[p] = resumed[p] \cup {id} /\ (c # None => c.id # id)
      <4>1. PICK id : resumed'[p] = resumed[p] \cup {id} /\ (c # None => c.id # id)
        BY <3>2
      <4>2. Pair(c, slots[q][n], d, slots[p][Incoming + n], net'[p], net'[q],
                 resumed[p] \cup {id}, n)
        BY ONLY <2>5, <4>1, PairHeard
      <4>. QED  BY <4>1, <4>2
    <3>. QED  BY <2>6, <3>1, <3>2
  <2>. QED  BY <2>1, <2>7 DEF ReceivedBy
<1>. QED  BY <1>6, <1>7

-----------------------------------------------------------------------------
(* The other parts of the invariant, when one entry of a map changes.      *)

LEMMA Changed ==
  ASSUME NEW S, NEW f \in [Peers -> [FileNumbers -> S]], NEW p \in Peers,
         NEW fn \in FileNumbers, NEW x
  PROVE  LET g == [f EXCEPT ![p][fn] = x]
         IN /\ g[p][fn] = x
            /\ \A q \in Peers, k \in FileNumbers : q # p \/ k # fn => g[q][k] = f[q][k]
OBVIOUS

LEMMA PacketsAre ==
  ASSUME TypeOK, NEW p \in Peers
  PROVE  /\ net[p] \in Seq(Packets) /\ net[Other(p)] \in Seq(Packets)
         /\ Answer(p, <<>>) => net'[p] = Tail(net[p]) /\ net'[Other(p)] = net[Other(p)]
         /\ \A m \in Packets :
              /\ Answer(p, <<m>>) => /\ net'[p] = Tail(net[p])
                                     /\ net'[Other(p)] = Append(net[Other(p)], m)
              /\ Send(p, <<m>>) \/ Send(p, <<m>> \o <<>>) =>
                   net'[p] = net[p] /\ net'[Other(p)] = Append(net[Other(p)], m)
              /\ \A k \in Packets : Send(p, <<m>> \o <<k>>) =>
                   net'[p] = net[p] /\ net'[Other(p)] = Append(Append(net[Other(p)], m), k)
<1>1. Other(p) \in Peers /\ Other(p) # p
  BY TwoPeers
<1>2. net \in [Peers -> Seq(Packets)] /\ net[p] \in Seq(Packets) /\ net[Other(p)] \in Seq(Packets)
  BY <1>1 DEF TypeOK
<1>3. \A packets : Answer(p, packets) =>
        net'[p] = Tail(net[p]) /\ net'[Other(p)] = net[Other(p)] \o packets
  BY <1>1, <1>2 DEF Answer
<1>4. \A packets : Send(p, packets) =>
        net'[p] = net[p] /\ net'[Other(p)] = net[Other(p)] \o packets
  BY <1>1, <1>2 DEF Send
<1>5. Answer(p, <<>>) => net'[p] = Tail(net[p]) /\ net'[Other(p)] = net[Other(p)]
  BY <1>2, <1>3, Concat
<1>6. ASSUME NEW m \in Packets
      PROVE  /\ Answer(p, <<m>>) => /\ net'[p] = Tail(net[p])
                                    /\ net'[Other(p)] = Append(net[Other(p)], m)
             /\ Send(p, <<m>>) \/ Send(p, <<m>> \o <<>>) =>
                  net'[p] = net[p] /\ net'[Other(p)] = Append(net[Other(p)], m)
  <2>1. /\ net[Other(p)] \o <<m>> = Append(net[Other(p)], m)
        /\ net[Other(p)] \o (<<m>> \o <<>>) = Append(net[Other(p)], m)
    BY <1>2, Concat
  <2>. QED  BY <1>3, <1>4, <2>1
<1>7. ASSUME NEW m \in Packets, NEW k \in Packets, Send(p, <<m>> \o <<k>>)
      PROVE  net'[p] = net[p] /\ net'[Other(p)] = Append(Append(net[Other(p)], m), k)
  <2>1. net[Other(p)] \o (<<m>> \o <<k>>) = Append(Append(net[Other(p)], m), k)
    BY <1>2, Concat
  <2>. QED  BY <1>4, <1>7, <2>1
<1>. QED  BY <1>2, <1>5, <1>6, <1>7

LEMMA PeersKept ==
  ASSUME TypeOK, PeerInv, NEW p \in Peers, UNCHANGED isFriend,
         net'[p] = net[p] \/ (net[p] # <<>> /\ net'[p] = Tail(net[p])),
         \/ net'[Other(p)] = net[Other(p)]
         \/ \E m \in Packets : Usual(m) /\ net'[Other(p)] = Append(net[Other(p)], m)
         \/ \E m, k \in Packets : /\ Usual(m) /\ Usual(k)
                                  /\ net'[Other(p)] = Append(Append(net[Other(p)], m), k)
  PROVE  PeerInv'
<1> DEFINE q == Other(p)
<1>1. q \in Peers /\ \A r \in Peers : r = p \/ r = q
  BY TwoPeers
<1>2. /\ net[p] \in Seq(Packets) /\ net[q] \in Seq(Packets)
      /\ \A i \in DOMAIN net[p] : Usual(net[p][i])
      /\ \A i \in DOMAIN net[q] : Usual(net[q][i])
  BY <1>1 DEF TypeOK, PeerInv
<1>3. \A s \in Seq(Packets), m \in Packets :
        (\A i \in DOMAIN s : Usual(s[i])) /\ Usual(m) =>
          \A i \in DOMAIN Append(s, m) : Usual(Append(s, m)[i])
  BY InAppend
<1>4. \A i \in DOMAIN net'[p] : Usual(net'[p][i])
  <2>1. CASE net'[p] = net[p]
    BY <1>2, <2>1
  <2>2. CASE net[p] # <<>> /\ net'[p] = Tail(net[p])
    <3>1. \A i \in DOMAIN Tail(net[p]) : Usual(Tail(net[p])[i])
      BY <1>2, <2>2, InTail
    <3>. QED  BY <2>2, <3>1
  <2>. QED  BY <2>1, <2>2
<1>5. \A i \in DOMAIN net'[q] : Usual(net'[q][i])
  <2>1. CASE net'[q] = net[q]
    BY <1>2, <2>1
  <2>2. CASE \E m \in Packets : Usual(m) /\ net'[q] = Append(net[q], m)
    BY <1>2, <1>3, <2>2
  <2>3. CASE \E m, k \in Packets :
               Usual(m) /\ Usual(k) /\ net'[q] = Append(Append(net[q], m), k)
    <3>1. PICK m \in Packets, k \in Packets :
            Usual(m) /\ Usual(k) /\ net'[q] = Append(Append(net[q], m), k)
      BY <2>3
    <3>2. Append(net[q], m) \in Seq(Packets)
      BY <1>2, AppendProperties
    <3>3. \A i \in DOMAIN Append(net[q], m) : Usual(Append(net[q], m)[i])
      BY <1>2, <1>3, <3>1
    <3>. QED  BY <1>3, <3>1, <3>2, <3>3
  <2>. QED  BY <2>1, <2>2, <2>3
<1>. QED  BY <1>1, <1>4, <1>5 DEF PeerInv

\* The transfers that wait for an answer stay as they are.
LEMMA RequestsKept ==
  ASSUME TypeOK, RequestInv, asked' = asked,
         \A p \in Peers, fn \in FileNumbers :
           \/ transfers'[p][fn] = transfers[p][fn]
           \/ /\ transfers[p][fn] # None => ~transfers[p][fn].event_pending
              /\ transfers'[p][fn] # None => ~transfers'[p][fn].event_pending
  PROVE  RequestInv'
<1>1. ASSUME NEW p \in Peers, NEW i \in DOMAIN asked[p]
      PROVE  transfers'[p][asked[p][i].number] = transfers[p][asked[p][i].number]
  <2>1. asked[p][i].number \in FileNumbers
    <3>1. asked[p][i] \in Requests
      BY ElementOfSeq DEF TypeOK
    <3>. QED  BY <3>1 DEF Requests
  <2>2. /\ transfers[p][asked[p][i].number] # None
        /\ transfers[p][asked[p][i].number].event_pending
    BY DEF RequestInv, RequestsCurrent
  <2>. QED  BY <2>1, <2>2
<1>2. RequestsCurrent'
  BY <1>1 DEF RequestInv, RequestsCurrent
<1>3. DataOnlyOutgoing'
  BY DEF RequestInv, DataOnlyOutgoing
<1>4. \A p \in Peers : \A i \in DOMAIN asked'[p] :
        asked'[p][i].position + asked'[p][i].length
          <= transfers'[p][asked'[p][i].number].file_size
  BY <1>1 DEF RequestInv
<1>5. \A p \in Peers, n \in Numbers : transfers'[p][n] # None /\ transfers'[p][n].event_pending =>
        /\ transfers'[p][n].state = "RUNNING"
        /\ transfers'[p][n].position < transfers'[p][n].file_size
  BY FileNumber DEF RequestInv
<1>. QED  BY <1>2, <1>3, <1>4, <1>5 DEF RequestInv

LEMMA IdsKept ==
  ASSUME IdInv, UNCHANGED client,
         \A p \in Peers, n \in Numbers : transfers'[p][n] # None =>
           transfers[p][n] # None /\ transfers'[p][n].id = transfers[p][n].id
  PROVE  IdInv'
BY DEF IdInv, client

\* A packet about a file that it receives moves peer p.
LEMMA ReceiverMoves ==
  ASSUME TransferInv, TypeOK', NEW p \in Peers, NEW n \in Numbers,
         UNCHANGED <<asked, isFriend, client>>,
         \A q \in Peers, k \in FileNumbers : q # p \/ k # Incoming + n =>
           transfers'[q][k] = transfers[q][k] /\ slots'[q][k] = slots[q][k],
         net[p] # <<>>, net'[p] = Tail(net[p]), ArrivesFor(Head(net[p]), Incoming + n),
         \/ net'[Other(p)] = net[Other(p)]
         \/ net'[Other(p)] = Append(net[Other(p)], Control(Incoming + n, "FINISHED")),
         LET t == transfers'[p][Incoming + n]
         IN t # None => t.state = "PAUSED" /\ ~t.event_pending,
         ReceivedBy(p, n)'
  PROVE  TransferInv'
<1> USE DEF TransferInv
<1> DEFINE fin == Control(Incoming + n, "FINISHED")
<1>1. /\ fin \in Packets /\ SentFor(fin, Incoming + n) /\ Usual(fin)
      /\ Incoming + n \in FileNumbers
  BY FileNumber, ControlTypes, ControlFor DEF Usual, Control
<1>2. PairInv'
  <2>1. UNCHANGED resumed
    BY DEF client
  <2>2. /\ fin \in Packets /\ SentFor(fin, Incoming + n) /\ Incoming + n \in FileNumbers
        /\ \/ net'[Other(p)] = net[Other(p)]
           \/ net'[Other(p)] = Append(net[Other(p)], fin)
    BY <1>1
  <2> HIDE DEF fin
  <2>3. \A k \in Numbers :
          (k # Incoming + n => SentBy(p, k)') /\ (Incoming + k # Incoming + n => ReceivedBy(p, k)')
    BY <2>1, <2>2, OtherPairs
  <2>4. \A k \in Numbers : k # Incoming + n /\ (Incoming + k # Incoming + n \/ k = n)
    BY FileNumber DEF Incoming
  <2>. QED  BY <2>3, <2>4, PairsOf
<1>3. PeerInv'
  BY <1>1, PeersKept
<1>4. \A q \in Peers, k \in Numbers : transfers'[q][k] = transfers[q][k]
  BY FileNumber DEF Incoming
<1>5. ReceiverInv'
  <2>1. \A q \in Peers, k \in Numbers :
          (q = p /\ k = n) \/ transfers'[q][Incoming + k] = transfers[q][Incoming + k]
    BY FileNumber DEF Incoming
  <2>. QED  BY <2>1 DEF ReceiverInv
<1>6. IdInv'
  BY <1>4, IdsKept
<1>7. RequestInv'
  <2>1. transfers[p][Incoming + n] # None => ~transfers[p][Incoming + n].event_pending
    BY DEF ReceiverInv
  <2>. QED  BY <2>1, RequestsKept
<1>. QED  BY <1>2, <1>3, <1>5, <1>6, <1>7

\* A packet about a file that it sends moves peer p.
LEMMA SenderMoves ==
  ASSUME TransferInv, TypeOK', NEW p \in Peers, NEW n \in Numbers,
         UNCHANGED <<asked, isFriend, client>>,
         \A q \in Peers, k \in FileNumbers : q # p \/ k # n =>
           transfers'[q][k] = transfers[q][k] /\ slots'[q][k] = slots[q][k],
         net[p] # <<>>, net'[p] = Tail(net[p]), ArrivesFor(Head(net[p]), n),
         net'[Other(p)] = net[Other(p)],
         transfers[p][n] # None, ~transfers[p][n].event_pending,
         transfers'[p][n] # None =>
           ~transfers'[p][n].event_pending /\ transfers'[p][n].id = transfers[p][n].id,
         SentBy(p, n)'
  PROVE  TransferInv'
<1> USE DEF TransferInv
<1>1. n \in FileNumbers /\ \A k \in Numbers : Incoming + k # n
  BY FileNumber DEF Incoming
<1>2. PairInv'
  <2>1. UNCHANGED resumed
    BY DEF client
  <2>2. \A k \in Numbers :
          (k # n => SentBy(p, k)') /\ (Incoming + k # n => ReceivedBy(p, k)')
    BY <1>1, <2>1, OtherPairs
  <2>. QED  BY <1>1, <2>2, PairsOf
<1>3. PeerInv'
  BY PeersKept
<1>4. ReceiverInv'
  BY <1>1, FileNumber DEF ReceiverInv
<1>5. IdInv'
  BY FileNumber, IdsKept
<1>6. RequestInv'
  BY RequestsKept
<1>. QED  BY <1>2, <1>3, <1>4, <1>5, <1>6

\* No file moves.
LEMMA Unmoved ==
  ASSUME TransferInv, TypeOK', RequestInv', NEW p \in Peers,
         UNCHANGED <<transfers, slots, isFriend, client>>,
         \/ net'[p] = net[p]
         \/ net[p] # <<>> /\ IsPause(Head(net[p])) /\ net'[p] = Tail(net[p]),
         \/ net'[Other(p)] = net[Other(p)]
         \/ \E m \in Packets : IsPause(m) /\ net'[Other(p)] = Append(net[Other(p)], m)
  PROVE  TransferInv'
<1> USE DEF TransferInv
<1>1. \A m, fn : IsPause(m) => ArrivesFor(m, fn) /\ SentFor(m, fn) /\ Usual(m)
  BY DEF IsPause, Usual, ArrivesFor, SentFor, Onward, Back, IsRequest, IsData, IsEnd,
         IsAccept, IsReceipt
<1>2. PairInv'
  <2>1. ASSUME NEW fn \in FileNumbers
        PROVE  \A k \in Numbers :
                 (k # fn => SentBy(p, k)') /\ (Incoming + k # fn => ReceivedBy(p, k)')
    <3>1. /\ UNCHANGED <<transfers, slots, resumed>>
          /\ \/ net'[p] = net[p]
             \/ net[p] # <<>> /\ net'[p] = Tail(net[p]) /\ ArrivesFor(Head(net[p]), fn)
          /\ \/ net'[Other(p)] = net[Other(p)]
             \/ \E m \in Packets : SentFor(m, fn) /\ net'[Other(p)] = Append(net[Other(p)], m)
      BY <1>1 DEF client
    <3>. QED  BY <3>1, OtherPairs
  <2>2. \A k \in Numbers : k \in FileNumbers /\ Incoming + k \in FileNumbers /\ k # Incoming + k
    BY FileNumber DEF Incoming
  <2>3. \A k \in Numbers : SentBy(p, k)' /\ ReceivedBy(p, k)'
    BY <2>1, <2>2
  <2>. QED  BY <2>3, PairsOf
<1>3. PeerInv'
  BY <1>1, PeersKept
<1>4. ReceiverInv' /\ IdInv'
  BY IdsKept DEF ReceiverInv
<1>. QED  BY <1>2, <1>3, <1>4

LEMMA Stands ==
  ASSUME TransferInv, TypeOK',
         UNCHANGED <<transfers, slots, net, asked, isFriend, client>>
  PROVE  TransferInv'
<1>1. PeerInv' /\ PairInv' /\ ReceiverInv'
  BY DEF TransferInv, PeerInv, PairInv, SentBy, ReceiverInv, client
<1>2. IdInv'
  BY IdsKept DEF TransferInv
<1>3. RequestInv'
  BY RequestsKept DEF TransferInv
<1>. QED  BY <1>1, <1>2, <1>3 DEF TransferInv

-----------------------------------------------------------------------------
(* One step of a peer.                                                     *)

\* What a peer knows when a packet arrives.
LEMMA Arrived ==
  ASSUME TransferInv, NEW p \in Peers, net[p] # <<>>
  PROVE  LET m == Head(net[p])
         IN /\ m \in Packets /\ Usual(m) /\ m.number \in Numbers
            /\ SentBy(p, m.number) /\ ReceivedBy(p, m.number)
<1>1. net[p] \in Seq(Packets)
  BY DEF TransferInv, TypeOK
<1>2. Head(net[p]) \in Packets /\ 1 \in DOMAIN net[p] /\ net[p][1] = Head(net[p])
  BY <1>1
<1>3. Usual(Head(net[p]))
  BY <1>2 DEF TransferInv, PeerInv
<1>. QED  BY <1>2, <1>3, PacketsFor, PairsOf DEF TransferInv

\* The entries of p and of the other peer for file number n, with their types.
LEMMA Entries ==
  ASSUME TypeOK, NEW p \in Peers, NEW n \in Numbers
  PROVE  /\ transfers[p][n] \in Transfers \cup {None}
         /\ transfers[p][Incoming + n] \in Transfers \cup {None}
         /\ transfers[Other(p)][n] \in Transfers \cup {None}
         /\ transfers[Other(p)][Incoming + n] \in Transfers \cup {None}
         /\ net[p] \in Seq(Packets) /\ net[Other(p)] \in Seq(Packets)
         /\ n \in FileNumbers /\ Incoming + n \in FileNumbers
         /\ Other(p) \in Peers /\ Other(p) # p
         /\ n # Incoming + n
<1>1. /\ Other(p) \in Peers /\ Other(p) # p
      /\ n \in FileNumbers /\ Incoming + n \in FileNumbers /\ n # Incoming + n
  BY TwoPeers, FileNumber DEF Incoming
<1>. QED  BY <1>1 DEF TypeOK

LEMMA RequestStep ==
  ASSUME TransferInv, TypeOK', NEW p \in Peers, NEW cause \in Garbage,
         FileSendRequest(p, cause)
  PROVE  TransferInv'
<1>0. TypeOK /\ net[p] # <<>>
  BY DEF TransferInv, FileSendRequest, Arrives
<1>m. PICK m \in Packets : m = Head(net[p])
  BY <1>0, Arrived
<1> DEFINE n  == m.number
           fn == Incoming + n
           q  == Other(p)
           t  == Transfer(m.id, m.size, cause)
<1>1. m.type = "request" /\ UNCHANGED <<asked, isFriend, client>>
  BY <1>m DEF FileSendRequest, Arrives
<1>2. n \in Numbers /\ ReceivedBy(p, n) /\ IsRequest(m, n)
  BY <1>0, <1>1, <1>m, Arrived DEF IsRequest
<1>3. /\ transfers[p][fn] = None
      /\ Pair(transfers[q][n], slots[q][n], t, "offered", Tail(net[p]), net[q], resumed[p], n)
  <2> DEFINE F == net[p]
             B == net[q]
             a == transfers[q][n]
             b == transfers[p][fn]
             sa == slots[q][n]
             sb == slots[p][fn]
  <2>1. Pair(a, sa, b, sb, F, B, resumed[p], n)
    BY <1>2 DEF ReceivedBy
  <2>2. /\ a \in Transfers \cup {None} /\ b \in Transfers \cup {None}
        /\ F \in Seq(Packets) /\ B \in Seq(Packets)
        /\ F # <<>> /\ Head(F) = m /\ IsRequest(Head(F), n) /\ n \in Numbers
    BY <1>0, <1>2, <1>m, Entries
  <2> HIDE DEF F, B, a, b, sa, sb, n
  <2>3. b = None /\ Pair(a, sa, Transfer(Head(F).id, Head(F).size, cause), "offered",
                        Tail(F), B, resumed[p], n)
    BY ONLY <2>1, <2>2, cause \in Garbage, RequestArrives
  <2>. QED  BY <2>2, <2>3 DEF F, B, a, b, sa, sb
<1>4. /\ transfers' = [transfers EXCEPT ![p][fn] = t]
      /\ slots' = [slots EXCEPT ![p][fn] = "offered"]
      /\ Answer(p, <<>>) /\ UNCHANGED aborted
  BY <1>3, <1>m DEF FileSendRequest
<1>5. /\ transfers'[p][fn] = t /\ slots'[p][fn] = "offered"
      /\ \A r \in Peers, k \in FileNumbers : r # p \/ k # fn =>
           transfers'[r][k] = transfers[r][k] /\ slots'[r][k] = slots[r][k]
  <2>1. fn \in FileNumbers
    BY <1>2, FileNumber
  <2>2. /\ transfers \in [Peers -> [FileNumbers -> Transfers \cup {None}]]
        /\ slots \in [Peers -> [FileNumbers -> {"none", "offered", "accepted"}]]
    BY <1>0 DEF TypeOK
  <2> HIDE DEF fn, t
  <2>3. /\ transfers'[p][fn] = t
        /\ \A r \in Peers, k \in FileNumbers : r # p \/ k # fn =>
             transfers'[r][k] = transfers[r][k]
    BY ONLY <1>4, <2>1, <2>2, Changed, p \in Peers
  <2>4. /\ slots'[p][fn] = "offered"
        /\ \A r \in Peers, k \in FileNumbers : r # p \/ k # fn => slots'[r][k] = slots[r][k]
    BY ONLY <1>4, <2>1, <2>2, Changed, p \in Peers
  <2>. QED  BY <2>3, <2>4
<1>6. net'[p] = Tail(net[p]) /\ net'[q] = net[q]
  BY <1>0, <1>4, PacketsAre
<1>7. ReceivedBy(p, n)'
  <2>1. /\ transfers'[q][n] = transfers[q][n] /\ slots'[q][n] = slots[q][n]
        /\ resumed'[p] = resumed[p]
    BY <1>0, <1>1, <1>2, <1>5, Entries DEF client
  <2>. QED  BY <1>3, <1>5, <1>6, <2>1 DEF ReceivedBy
<1>8. ArrivesFor(m, fn)
  BY <1>1, <1>2, PacketsFor
<1>9. t.state = "PAUSED" /\ ~t.event_pending
  BY DEF Transfer
<1> HIDE DEF t, n
<1>. QED  BY <1>0, <1>1, <1>2, <1>4, <1>5, <1>6, <1>7, <1>8, <1>9, <1>m, ReceiverMoves

LEMMA DataStep ==
  ASSUME TransferInv, TypeOK', NEW p \in Peers, FileData(p)
  PROVE  TransferInv'
<1>0. TypeOK /\ net[p] # <<>>
  BY DEF TransferInv, FileData, Arrives
<1>m. PICK m \in Packets : m = Head(net[p])
  BY <1>0, Arrived
<1> DEFINE n   == m.number
           fn  == Incoming + n
           q   == Other(p)
           b   == transfers[p][fn]
           pos == b.position + m.length
           fin == Control(fn, "FINISHED")
           t   == [b EXCEPT !.position = pos]
<1>1. m.type = "data" /\ UNCHANGED <<asked, isFriend, client>>
  BY <1>m DEF FileData, Arrives
<1>2. n \in Numbers /\ ReceivedBy(p, n) /\ IsData(m, n)
  BY <1>0, <1>1, <1>m, Arrived DEF IsData
<1>3. /\ b # None /\ slots[p][fn] = "accepted"
      /\ pos \in Nat /\ pos <= b.file_size
      /\ \A u \in Transfers \cup {None} :
           u # None /\ u.id = b.id /\ u.file_size = b.file_size /\ u.position = pos =>
             Pair(transfers[q][n], slots[q][n], u, slots[p][fn], Tail(net[p]),
                  IF pos = b.file_size THEN Append(net[q], fin) ELSE net[q], resumed[p], n)
  <2> DEFINE F == net[p]
             B == net[q]
             a == transfers[q][n]
             sa == slots[q][n]
             sb == slots[p][fn]
             heard == resumed[p]
  <2>1. Pair(a, sa, b, sb, F, B, heard, n)
    BY <1>2 DEF ReceivedBy
  <2>2. /\ a \in Transfers \cup {None} /\ b \in Transfers \cup {None}
        /\ F \in Seq(Packets) /\ B \in Seq(Packets)
        /\ F # <<>> /\ Head(F) = m /\ IsData(Head(F), n) /\ n \in Numbers
    BY <1>0, <1>2, <1>m, Entries
  <2> HIDE DEF F, B, a, b, sa, sb, n, heard
  <2>3. Sending(a, sa, b, sb, F, B, heard, n) /\ b # None /\ Fits(b, Head(F))
    BY ONLY <2>1, <2>2, DataExpected
  <2>4. ASSUME NEW u \in Transfers \cup {None}, u # None, u.id = b.id,
               u.file_size = b.file_size, u.position = b.position + Head(F).length
        PROVE  Pair(a, sa, u, sb, Tail(F),
                    IF u.position = b.file_size
                    THEN Append(B, Control(Incoming + n, "FINISHED")) ELSE B,
                    heard, n)
    BY ONLY <2>1, <2>2, <2>4, DataArrives
  <2>5. sb = "accepted"
    BY <2>3 DEF Sending
  <2>. QED  BY <2>2, <2>3, <2>4, <2>5 DEF F, B, a, sa, sb, heard, Fits
<1>4. /\ b \in Transfers /\ b.file_size \in Sizes /\ fn \in FileNumbers
  BY <1>0, <1>2, <1>3, Entries, InTransfer
<1>5. (b.position + m.length) % WordSize = pos
  <2>1. b.file_size \in Nat /\ DataSize \in Nat /\ WordSize \in Nat \ {0} /\ b.file_size < WordSize
    BY <1>4, Widths
  <2> HIDE DEF b, pos
  <2>2. pos < WordSize
    BY <1>3, <2>1
  <2>. QED  BY <1>3, <2>1, <2>2, Modulo DEF pos
<1>6. /\ transfers' = [transfers EXCEPT ![p][fn] = t]
      /\ Answer(p, IF pos = b.file_size THEN <<fin>> ELSE <<>>)
      /\ UNCHANGED <<slots, aborted>>
  <2>1. /\ Received(p, fn, m.length)
        /\ Answer(p, Acknowledge(b, fn, (b.position + m.length) % WordSize))
        /\ UNCHANGED <<slots, aborted>>
    BY <1>3, <1>m DEF FileData
  <2>2. transfers' = [transfers EXCEPT ![p][fn] =
                        [b EXCEPT !.position = (b.position + m.length) % WordSize]]
    BY <1>0, <1>4, <2>1 DEF Received, TypeOK
  <2>. QED  BY <1>5, <2>1, <2>2 DEF Acknowledge
<1>7. /\ t \in Transfers /\ t # None
      /\ t.id = b.id /\ t.file_size = b.file_size /\ t.position = pos
      /\ t.state = b.state /\ t.event_pending = b.event_pending
  <2>1. m.length \in 0..DataSize
    <3>1. m.length \in 1..DataSize
      BY <1>2 DEF IsData, Packets
    <3>. QED  BY <3>1
  <2>2. t \in Transfers
    BY <1>4, <1>5, <2>1, TransferTypes
  <2>. QED  BY <1>4, <2>2, NoneAssumption DEF Transfers
<1>8. /\ transfers'[p][fn] = t
      /\ \A r \in Peers, k \in FileNumbers : r # p \/ k # fn =>
           transfers'[r][k] = transfers[r][k] /\ slots'[r][k] = slots[r][k]
  <2> HIDE DEF fn, t
  <2>. QED  BY <1>0, <1>4, <1>6, Changed DEF TypeOK
<1>9. /\ net'[p] = Tail(net[p])
      /\ net'[q] = IF pos = b.file_size THEN Append(net[q], fin) ELSE net[q]
  <2>1. fin \in Packets
    BY <1>4, ControlTypes
  <2> HIDE DEF fin, pos, b
  <2>. QED  BY <1>0, <1>6, <2>1, PacketsAre
<1>10. ReceivedBy(p, n)'
  <2>1. /\ transfers'[q][n] = transfers[q][n] /\ slots'[q][n] = slots[q][n]
        /\ resumed'[p] = resumed[p] /\ slots'[p][fn] = slots[p][fn]
    BY <1>0, <1>1, <1>2, <1>6, <1>8, Entries DEF client
  <2> HIDE DEF t, b, pos, fin
  <2>2. Pair(transfers[q][n], slots[q][n], t, slots[p][fn], Tail(net[p]),
             IF pos = b.file_size THEN Append(net[q], fin) ELSE net[q], resumed[p], n)
    BY <1>3, <1>7
  <2>. QED  BY <1>8, <1>9, <2>1, <2>2 DEF ReceivedBy
<1>11. ArrivesFor(m, fn)
  BY <1>1, <1>2, PacketsFor
<1>12. t.state = "PAUSED" /\ ~t.event_pending
  BY <1>2, <1>3, <1>7 DEF TransferInv, ReceiverInv
<1>13. net'[q] = net[q] \/ net'[q] = Append(net[q], fin)
  BY <1>9
<1> HIDE DEF t, b, pos, n
<1>. QED  BY <1>0, <1>1, <1>2, <1>6, <1>8, <1>9, <1>10, <1>11, <1>12, <1>13, <1>m, ReceiverMoves

LEMMA ControlStep ==
  ASSUME TransferInv, TypeOK', NEW p \in Peers, FileControlled(p)
  PROVE  TransferInv'
<1>0. TypeOK /\ net[p] # <<>>
  BY DEF TransferInv, FileControlled, Arrives
<1>m. PICK m \in Packets : m = Head(net[p])
  BY <1>0, Arrived
<1> DEFINE n  == m.number
           fn == NewFileNumber(m.receive_send, n)
           q  == Other(p)
<1>1. m.type = "control" /\ UNCHANGED <<asked, isFriend, client>>
  BY <1>m DEF FileControlled, Arrives
<1>2. n \in Numbers /\ Usual(m) /\ ReceivedBy(p, n) /\ SentBy(p, n)
  BY <1>0, <1>m, Arrived
<1>3. /\ m.receive_send \in {0, 1} /\ m.control \in {"ACCEPT", "PAUSE", "FINISHED"}
      /\ ArrivesFor(m, fn)
  BY <1>1, <1>2, PacketsFor
<1>4. n \in FileNumbers /\ Incoming + n \in FileNumbers /\ q \in Peers /\ q # p
  BY <1>0, <1>2, Entries
<1>8. CASE m.control = "PAUSE"
  <2>1. Abort(p) \/ Ignore(p)
    BY <1>8, <1>m DEF FileControlled
  <2>2. UNCHANGED <<transfers, slots>> /\ net'[p] = Tail(net[p]) /\ net'[q] = net[q]
    BY <1>0, <2>1, PacketsAre DEF Abort, Ignore
  <2>3. RequestInv'
    BY <1>0, <1>1, <2>2, RequestsKept DEF TransferInv
  <2>4. IsPause(Head(net[p]))
    BY <1>1, <1>8, <1>m DEF IsPause
  <2>. QED  BY <1>0, <1>1, <2>2, <2>3, <2>4, Unmoved
<1>5. CASE m.receive_send = 0 /\ m.control # "PAUSE"
  <2>1. m.control = "FINISHED" /\ IsEnd(m, n) /\ fn = Incoming + n
    BY <1>1, <1>2, <1>3, <1>5, FileNumber DEF Usual, IsEnd
  <2>2. /\ transfers[p][fn] # None
        /\ Pair(transfers[q][n], slots[q][n], None, "none", Tail(net[p]), net[q], resumed[p], n)
    <3> DEFINE F == net[p]
               B == net[q]
               a == transfers[q][n]
               b == transfers[p][fn]
               sa == slots[q][n]
               sb == slots[p][fn]
    <3>1. Pair(a, sa, b, sb, F, B, resumed[p], n)
      BY <1>2, <2>1 DEF ReceivedBy
    <3>2. /\ a \in Transfers \cup {None} /\ b \in Transfers \cup {None}
          /\ F \in Seq(Packets) /\ B \in Seq(Packets)
          /\ F # <<>> /\ IsEnd(Head(F), n) /\ n \in Numbers
      BY <1>0, <1>2, <1>m, <2>1, Entries
    <3> HIDE DEF F, B, a, b, sa, sb, n
    <3>3. b # None /\ Pair(a, sa, None, "none", Tail(F), B, resumed[p], n)
      BY ONLY <3>1, <3>2, EndArrives
    <3>. QED  BY <3>3 DEF F, B, a, b, sa
  <2>3. slots[p][fn] # "none"
    BY <1>2, <2>1, <2>2 DEF ReceivedBy, Pair, Idle, Offered, Over, Announced, Sending, Ended
  <2>4. /\ transfers' = [transfers EXCEPT ![p][fn] = None]
        /\ slots' = [slots EXCEPT ![p][fn] = "none"]
        /\ Answer(p, <<>>) /\ UNCHANGED aborted
    BY <1>m, <2>1, <2>2, <2>3 DEF FileControlled, Forget
  <2>5. /\ transfers'[p][fn] = None /\ slots'[p][fn] = "none"
        /\ \A r \in Peers, k \in FileNumbers : r # p \/ k # fn =>
             transfers'[r][k] = transfers[r][k] /\ slots'[r][k] = slots[r][k]
    <3>1. fn \in FileNumbers
      BY <1>4, <2>1
    <3> HIDE DEF fn
    <3>. QED  BY <1>0, <2>4, <3>1, Changed DEF TypeOK
  <2>6. net'[p] = Tail(net[p]) /\ net'[q] = net[q]
    BY <1>0, <2>4, PacketsAre
  <2>7. ReceivedBy(p, n)'
    <3>1. /\ transfers'[q][n] = transfers[q][n] /\ slots'[q][n] = slots[q][n]
          /\ resumed'[p] = resumed[p]
      BY <1>1, <1>4, <2>5 DEF client
    <3>. QED  BY <2>1, <2>2, <2>5, <2>6, <3>1 DEF ReceivedBy
  <2> HIDE DEF n, fn
  <2>. QED  BY <1>0, <1>1, <1>2, <1>3, <1>m, <2>1, <2>4, <2>5, <2>6, <2>7, ReceiverMoves
<1>6. CASE m.receive_send = 1 /\ m.control = "ACCEPT"
  <2> DEFINE a == transfers[p][n]
             t == [a EXCEPT !.state = "RUNNING"]
  <2>1. IsAccept(m, n) /\ fn = n
    BY <1>1, <1>2, <1>6, FileNumber DEF IsAccept
  <2>2. /\ a # None /\ slots[p][n] = "offered" /\ ~a.event_pending
        /\ Pair(t, "accepted", transfers[q][Incoming + n], slots[q][Incoming + n],
                net[q], Tail(net[p]), resumed[q], n)
    <3> DEFINE F == net[q]
               B == net[p]
               b == transfers[q][Incoming + n]
               sa == slots[p][n]
               sb == slots[q][Incoming + n]
    <3>1. Pair(a, sa, b, sb, F, B, resumed[q], n)
      BY <1>2 DEF SentBy
    <3>2. /\ a \in Transfers \cup {None} /\ b \in Transfers \cup {None}
          /\ F \in Seq(Packets) /\ B \in Seq(Packets)
          /\ B # <<>> /\ IsAccept(Head(B), n) /\ n \in Numbers
      BY <1>0, <1>2, <1>m, <2>1, Entries
    <3> HIDE DEF F, B, a, b, sa, sb, n
    <3>3. /\ a # None /\ sa = "offered" /\ ~a.event_pending
          /\ Pair(t, "accepted", b, sb, F, Tail(B), resumed[q], n)
      BY ONLY <3>1, <3>2, AcceptArrives
    <3>. QED  BY <3>3 DEF F, B, b, sa, sb
  <2>3. /\ transfers' = [transfers EXCEPT ![p][n] = t]
        /\ slots' = [slots EXCEPT ![p][n] = "accepted"]
        /\ Answer(p, <<>>) /\ UNCHANGED aborted
    <3>1. /\ transfers' = [transfers EXCEPT ![p][n].state = "RUNNING"]
          /\ slots' = [slots EXCEPT ![p][n] = IF m.receive_send = 1 THEN "accepted" ELSE @]
          /\ Answer(p, <<>>) /\ UNCHANGED aborted
      BY <1>6, <1>m, <2>1, <2>2 DEF FileControlled
    <3>2. transfers' = [transfers EXCEPT ![p][n] = t]
      BY <1>0, <1>4, <3>1 DEF TypeOK
    <3>. QED  BY <1>6, <3>1, <3>2
  <2>4. /\ a \in Transfers /\ t.event_pending = a.event_pending /\ t.id = a.id
    <3>1. a \in Transfers
      BY <1>0, <1>2, <2>2, Entries
    <3>. QED  BY <3>1 DEF Transfers
  <2>5. /\ transfers'[p][n] = t /\ slots'[p][n] = "accepted"
        /\ \A r \in Peers, k \in FileNumbers : r # p \/ k # n =>
             transfers'[r][k] = transfers[r][k] /\ slots'[r][k] = slots[r][k]
    <3> HIDE DEF t, n
    <3>1. /\ transfers \in [Peers -> [FileNumbers -> Transfers \cup {None}]]
          /\ slots \in [Peers -> [FileNumbers -> {"none", "offered", "accepted"}]]
      BY <1>0 DEF TypeOK
    <3>2. /\ transfers'[p][n] = t
          /\ \A r \in Peers, k \in FileNumbers : r # p \/ k # n =>
               transfers'[r][k] = transfers[r][k]
      BY ONLY <1>4, <2>3, <3>1, Changed
    <3>3. /\ slots'[p][n] = "accepted"
          /\ \A r \in Peers, k \in FileNumbers : r # p \/ k # n =>
               slots'[r][k] = slots[r][k]
      BY ONLY <1>4, <2>3, <3>1, Changed
    <3>. QED  BY <3>2, <3>3
  <2>6. net'[p] = Tail(net[p]) /\ net'[q] = net[q]
    BY <1>0, <2>3, PacketsAre
  <2>7. SentBy(p, n)'
    <3>1. /\ transfers'[q][Incoming + n] = transfers[q][Incoming + n]
          /\ slots'[q][Incoming + n] = slots[q][Incoming + n]
          /\ resumed'[q] = resumed[q]
      BY <1>1, <1>4, <2>5 DEF client
    <3> HIDE DEF t
    <3>. QED  BY <2>2, <2>5, <2>6, <3>1 DEF SentBy
  <2> HIDE DEF n, fn, t
  <2>. QED  BY <1>0, <1>1, <1>2, <1>3, <1>m, <2>1, <2>2, <2>3, <2>4, <2>5, <2>6, <2>7,
               SenderMoves
<1>7. CASE m.receive_send = 1 /\ m.control = "FINISHED"
  <2> DEFINE a == transfers[p][n]
  <2>1. IsReceipt(m, n) /\ fn = n
    BY <1>1, <1>2, <1>7, FileNumber DEF IsReceipt
  <2>2. /\ a # None /\ a.position = a.file_size
        /\ Pair(None, "none", transfers[q][Incoming + n], slots[q][Incoming + n],
                net[q], Tail(net[p]), resumed[q], n)
    <3> DEFINE F == net[q]
               B == net[p]
               b == transfers[q][Incoming + n]
               sa == slots[p][n]
               sb == slots[q][Incoming + n]
    <3>1. Pair(a, sa, b, sb, F, B, resumed[q], n)
      BY <1>2 DEF SentBy
    <3>2. /\ a \in Transfers \cup {None} /\ b \in Transfers \cup {None}
          /\ F \in Seq(Packets) /\ B \in Seq(Packets)
          /\ B # <<>> /\ IsReceipt(Head(B), n) /\ n \in Numbers
      BY <1>0, <1>2, <1>m, <2>1, Entries
    <3> HIDE DEF F, B, a, b, sa, sb, n
    <3>3. /\ a # None /\ a.position = a.file_size
          /\ Pair(None, "none", b, sb, F, Tail(B), resumed[q], n)
      BY ONLY <3>1, <3>2, ReceiptArrives
    <3>. QED  BY <3>3 DEF F, B, b, sb
  <2>3. slots[p][n] # "none" /\ ~a.event_pending
    <3>1. slots[p][n] # "none"
      BY <1>2, <2>2 DEF SentBy, Pair, Idle, Offered, Paused, Announced, Sending, Ended, Running
    <3>2. a.position \in Nat /\ a.event_pending \in BOOLEAN
      BY <1>0, <1>2, <2>2, Entries, InTransfer
    <3>3. a.event_pending => a.position < a.file_size
      BY <1>2, <2>2 DEF TransferInv, RequestInv
    <3>. QED  BY <2>2, <3>1, <3>2, <3>3
  <2>4. /\ transfers' = [transfers EXCEPT ![p][n] = None]
        /\ slots' = [slots EXCEPT ![p][n] = "none"]
        /\ Answer(p, <<>>) /\ UNCHANGED aborted
    BY <1>7, <1>m, <2>1, <2>2, <2>3 DEF FileControlled, Forget
  <2>5. /\ transfers'[p][n] = None /\ slots'[p][n] = "none"
        /\ \A r \in Peers, k \in FileNumbers : r # p \/ k # n =>
             transfers'[r][k] = transfers[r][k] /\ slots'[r][k] = slots[r][k]
    <3> HIDE DEF n
    <3>1. /\ transfers \in [Peers -> [FileNumbers -> Transfers \cup {None}]]
          /\ slots \in [Peers -> [FileNumbers -> {"none", "offered", "accepted"}]]
      BY <1>0 DEF TypeOK
    <3>2. /\ transfers'[p][n] = None
          /\ \A r \in Peers, k \in FileNumbers : r # p \/ k # n =>
               transfers'[r][k] = transfers[r][k]
      BY ONLY <1>4, <2>4, <3>1, Changed
    <3>3. /\ slots'[p][n] = "none"
          /\ \A r \in Peers, k \in FileNumbers : r # p \/ k # n =>
               slots'[r][k] = slots[r][k]
      BY ONLY <1>4, <2>4, <3>1, Changed
    <3>. QED  BY <3>2, <3>3
  <2>6. net'[p] = Tail(net[p]) /\ net'[q] = net[q]
    BY <1>0, <2>4, PacketsAre
  <2>7. SentBy(p, n)'
    <3>1. /\ transfers'[q][Incoming + n] = transfers[q][Incoming + n]
          /\ slots'[q][Incoming + n] = slots[q][Incoming + n]
          /\ resumed'[q] = resumed[q]
      BY <1>1, <1>4, <2>5 DEF client
    <3>. QED  BY <2>2, <2>5, <2>6, <3>1 DEF SentBy
  <2> HIDE DEF n, fn
  <2>. QED  BY <1>0, <1>1, <1>2, <1>3, <1>m, <2>1, <2>2, <2>3, <2>4, <2>5, <2>6, <2>7,
               SenderMoves
<1>. QED  BY <1>3, <1>5, <1>6, <1>7, <1>8


LEMMA RequestsAre ==
  ASSUME TypeOK, NEW p \in Peers, NEW i \in DOMAIN asked[p]
  PROVE  /\ asked[p] \in Seq(Requests) /\ asked[p][i] \in Requests
         /\ asked[p][i].number \in FileNumbers
         /\ asked[p][i].position \in Nat /\ asked[p][i].length \in Nat
         /\ asked[p][i].length \in 1..DataSize
<1>1. asked[p] \in Seq(Requests)
  BY DEF TypeOK
<1>2. asked[p][i] \in Requests
  BY <1>1, ElementOfSeq
<1>3. /\ asked[p][i].number \in FileNumbers /\ asked[p][i].length \in 1..DataSize
      /\ asked[p][i].position \in 0..(WordSize - 1)
  BY <1>2 DEF Requests
<1>. QED  BY <1>1, <1>2, <1>3

LEMMA AskStep ==
  ASSUME TransferInv, TypeOK', NEW p \in Peers, NEW fn \in FileNumbers, AskChunk(p, fn)
  PROVE  TransferInv'
<1> DEFINE t == transfers[p][fn]
           q == Other(p)
           r == ChunkRequest(t, fn)
<1>0. TypeOK /\ UNCHANGED <<slots, net, isFriend, client>>
  BY DEF TransferInv, AskChunk
<1>1. /\ t # None /\ t.position # t.file_size /\ t.state = "RUNNING" /\ ~t.event_pending
      /\ Wants(t)
  BY DEF AskChunk, Wants
<1>2. fn \in Numbers /\ fn < Incoming
  <2>1. CASE ~(fn < Incoming)
    <3>1. fn = Incoming + OldFileNumber(fn) /\ OldFileNumber(fn) \in Numbers
      BY <2>1, FileNumberIs
    <3>2. t.state = "PAUSED"
      BY <1>1, <3>1 DEF TransferInv, ReceiverInv
    <3>. QED  BY <1>1, <3>2
  <2>. QED  BY <2>1, FileNumberIs
<1>3. /\ t \in Transfers /\ t.position \in Nat /\ t.file_size \in Nat
      /\ Asked(t) \in Transfers /\ Asked(t) # None
      /\ Asked(t).id = t.id /\ Asked(t).state = t.state /\ Asked(t).position = t.position
      /\ Asked(t).file_size = t.file_size /\ Asked(t).event_pending
  <2>1. t \in Transfers /\ t.position \in Nat /\ t.file_size \in Nat
    BY <1>0, <1>1, <1>2, Entries, InTransfer
  <2>2. Asked(t) \in Transfers
    BY <2>1, TransferTypes DEF Asked
  <2>3. /\ Asked(t).id = t.id /\ Asked(t).state = t.state /\ Asked(t).position = t.position
        /\ Asked(t).file_size = t.file_size /\ Asked(t).event_pending
    BY <2>1 DEF Asked, Transfers
  <2>. QED  BY <2>1, <2>2, <2>3, NoneAssumption
<1>4. /\ transfers' = [transfers EXCEPT ![p][fn] = Asked(t)]
      /\ asked' = [asked EXCEPT ![p] = Append(asked[p], r)]
  BY DEF AskChunk
<1>5. /\ transfers'[p][fn] = Asked(t)
      /\ \A s \in Peers, k \in FileNumbers : s # p \/ k # fn =>
           transfers'[s][k] = transfers[s][k]
  BY <1>0, <1>4, Changed DEF TypeOK
<1>6. /\ q \in Peers /\ q # p /\ fn # Incoming + fn /\ \A k \in Numbers : Incoming + k # fn
  BY <1>0, <1>2, Entries, FileNumber DEF Incoming
<1> DEFINE F  == net[q]
           B  == net[p]
           b  == transfers[q][Incoming + fn]
           sa == slots[p][fn]
           sb == slots[q][Incoming + fn]
           heard == resumed[q]
<1>7. /\ Pair(t, sa, b, sb, F, B, heard, fn)
      /\ b \in Transfers \cup {None} /\ F \in Seq(Packets) /\ B \in Seq(Packets)
  <2>1. SentBy(p, fn)
    BY <1>2, PairsOf DEF TransferInv
  <2>. QED  BY <1>0, <1>2, <2>1, Entries DEF SentBy
<1>8. Pair(Asked(t), sa, b, sb, F, B, heard, fn) /\ t.position < t.file_size
  <2> HIDE DEF t, b, F, B, sa, sb, heard
  <2>. QED  BY <1>1, <1>2, <1>3, <1>7, StillSending
<1>9. PairInv'
  <2>1. \A k \in Numbers : (k # fn => SentBy(p, k)') /\ (Incoming + k # fn => ReceivedBy(p, k)')
    <3>1. net' = net /\ slots' = slots /\ resumed' = resumed
      BY <1>0 DEF client
    <3> HIDE DEF t, b, F, B, sa, sb, heard
    <3>. QED  BY <1>0, <1>5, <3>1, OtherPairs DEF TransferInv
  <2>2. SentBy(p, fn)'
    <3>1. /\ net' = net /\ slots' = slots /\ resumed' = resumed
          /\ transfers'[q][Incoming + fn] = b
      BY <1>0, <1>2, <1>5, <1>6, FileNumber DEF client
    <3>. QED  BY <1>5, <1>8, <3>1 DEF SentBy
  <2>. QED  BY <1>2, <1>6, <2>1, <2>2, PairsOf
<1>10. PeerInv' /\ ReceiverInv'
  <2>1. ReceiverInv'
    BY <1>5, <1>6, FileNumber DEF TransferInv, ReceiverInv
  <2>. QED  BY <1>0, <2>1 DEF TransferInv, PeerInv
<1>11. IdInv'
  BY <1>0, <1>1, <1>3, <1>5, FileNumber, IdsKept DEF TransferInv
<1>12. /\ asked[p] \in Seq(Requests) /\ r \in Requests
       /\ r.number = fn /\ r.id = t.id /\ r.position = t.position
       /\ r.position + r.length <= t.file_size
  <2>1. asked[p] \in Seq(Requests)
    BY <1>0 DEF TypeOK
  <2>2. r \in Requests /\ Remaining(t) = t.file_size - t.position
    BY <1>1, <1>3, <1>8, RequestTypes
  <2>3. r.number = fn /\ r.id = t.id /\ r.position = t.position
    BY DEF ChunkRequest
  <2>4. r.length <= t.file_size - t.position
    <3>1. DataSize \in Nat
      BY TransfersAssumption
    <3>2. r.length = IF DataSize < Remaining(t) THEN DataSize ELSE Remaining(t)
      BY DEF ChunkRequest
    <3>. QED  BY <1>3, <2>2, <3>1, <3>2
  <2>5. r.length \in Nat
    <3>1. r.length \in 1..DataSize
      BY <2>2 DEF Requests
    <3>. QED  BY <3>1
  <2>. QED  BY <1>3, <2>1, <2>2, <2>3, <2>4, <2>5
<1> HIDE DEF r, F, B, b, sa, sb, heard
<1>13. /\ \A i \in DOMAIN asked'[p] :
            (i \in DOMAIN asked[p] /\ asked'[p][i] = asked[p][i])
            \/ (i = Len(asked[p]) + 1 /\ i \notin DOMAIN asked[p] /\ asked'[p][i] = r)
       /\ asked'[q] = asked[q]
       /\ \A i \in DOMAIN asked[p] : asked[p][i].number # fn
  <2>1. asked'[p] = Append(asked[p], r) /\ asked'[q] = asked[q]
    BY <1>0, <1>4, <1>6 DEF TypeOK
  <2>2. \A i \in DOMAIN asked[p] : asked[p][i].number # fn
    BY <1>1 DEF TransferInv, RequestInv, RequestsCurrent
  <2>. QED  BY <1>12, <2>1, <2>2
<1>14. ASSUME NEW s \in Peers, NEW i \in DOMAIN asked[s], s = p => asked[s][i].number # fn
       PROVE  transfers'[s][asked[s][i].number] = transfers[s][asked[s][i].number]
  BY <1>0, <1>5, <1>14, RequestsAre
<1>15. ASSUME NEW s \in Peers
       PROVE  /\ \A i \in DOMAIN asked'[s] :
                   /\ transfers'[s][asked'[s][i].number] # None
                   /\ transfers'[s][asked'[s][i].number].id = asked'[s][i].id
                   /\ transfers'[s][asked'[s][i].number].position = asked'[s][i].position
                   /\ transfers'[s][asked'[s][i].number].event_pending
                   /\ asked'[s][i].number < Incoming
                   /\ asked'[s][i].position + asked'[s][i].length
                        <= transfers'[s][asked'[s][i].number].file_size
              /\ \A i, j \in DOMAIN asked'[s] : asked'[s][i].number = asked'[s][j].number => i = j
  <2>1. \A i \in DOMAIN asked[s] :
          /\ transfers[s][asked[s][i].number] # None
          /\ transfers[s][asked[s][i].number].id = asked[s][i].id
          /\ transfers[s][asked[s][i].number].position = asked[s][i].position
          /\ transfers[s][asked[s][i].number].event_pending
          /\ asked[s][i].number < Incoming
          /\ asked[s][i].position + asked[s][i].length
               <= transfers[s][asked[s][i].number].file_size
    BY DEF TransferInv, RequestInv, RequestsCurrent, DataOnlyOutgoing
  <2>2. \A i, j \in DOMAIN asked[s] : asked[s][i].number = asked[s][j].number => i = j
    BY DEF TransferInv, RequestInv, RequestsCurrent
  <2>3. CASE s = p
    <3>1. ASSUME NEW i \in DOMAIN asked'[s]
          PROVE  /\ transfers'[s][asked'[s][i].number] # None
                 /\ transfers'[s][asked'[s][i].number].id = asked'[s][i].id
                 /\ transfers'[s][asked'[s][i].number].position = asked'[s][i].position
                 /\ transfers'[s][asked'[s][i].number].event_pending
                 /\ asked'[s][i].number < Incoming
                 /\ asked'[s][i].position + asked'[s][i].length
                      <= transfers'[s][asked'[s][i].number].file_size
      <4>1. CASE i \in DOMAIN asked[p] /\ asked'[p][i] = asked[p][i]
        BY <1>13, <1>14, <2>1, <2>3, <4>1
      <4>2. CASE asked'[p][i] = r
        BY <1>2, <1>3, <1>5, <1>12, <2>3, <4>2
      <4>. QED  BY <1>13, <2>3, <4>1, <4>2
    <3>2. ASSUME NEW i \in DOMAIN asked'[s], NEW j \in DOMAIN asked'[s],
                 asked'[s][i].number = asked'[s][j].number
          PROVE  i = j
      BY <1>12, <1>13, <2>2, <2>3, <3>2
    <3>. QED  BY <3>1, <3>2
  <2>4. CASE s = q
    BY <1>6, <1>13, <1>14, <2>1, <2>2, <2>4
  <2>. QED  BY <2>3, <2>4, TwoPeers
<1>16. \A s \in Peers, n \in Numbers : transfers'[s][n] # None /\ transfers'[s][n].event_pending =>
         /\ transfers'[s][n].state = "RUNNING"
         /\ transfers'[s][n].position < transfers'[s][n].file_size
  BY <1>1, <1>3, <1>5, <1>8, FileNumber DEF TransferInv, RequestInv
<1>17. RequestInv'
  BY <1>15, <1>16 DEF RequestInv, RequestsCurrent, DataOnlyOutgoing
<1>. QED  BY <1>9, <1>10, <1>11, <1>17 DEF TransferInv

LEMMA SendStep ==
  ASSUME TransferInv, TypeOK', Allowed \subseteq Tolerated, NEW p \in Peers,
         NEW i \in DOMAIN asked[p], NEW length \in ChunkLengths(asked[p][i]),
         SendChunk(p, i, length), ~UNCHANGED <<transfers, net>>
  PROVE  TransferInv'
<1>0. TypeOK /\ UNCHANGED <<slots, isFriend, client>> /\ length > 0
  BY DEF TransferInv, SendChunk
<1>n. PICK n \in FileNumbers : n = asked[p][i].number
  BY <1>0, RequestsAre
<1> DEFINE r == asked[p][i]
           t == transfers[p][n]
           q == Other(p)
           pos == t.position + length
           u == [t EXCEPT !.position = pos, !.event_pending = FALSE]
           m == Data(t.id, n, t.position, length)
           fin == Control(n, "FINISHED")
<1>1. /\ t # None /\ t.id = r.id /\ t.position = r.position /\ t.event_pending
      /\ r.position + r.length <= t.file_size /\ n < Incoming
  BY <1>n DEF TransferInv, RequestInv, RequestsCurrent, DataOnlyOutgoing
<1>2. n \in Numbers /\ OldFileNumber(n) = n
  BY <1>1, FileNumberIs
<1>3. /\ t \in Transfers /\ t.id \in Ids /\ t.file_size \in Sizes
      /\ t.position \in Nat /\ t.file_size \in Nat
  BY <1>0, <1>1, <1>2, Entries, InTransfer
<1>4. /\ t.state = "RUNNING" /\ t.position < t.file_size /\ t.position # t.file_size
  BY <1>1, <1>2, <1>3 DEF TransferInv, RequestInv
<1>5. /\ length \in Nat \ {0} /\ length > 0 /\ length \in 1..DataSize
      /\ pos \in Nat /\ pos <= t.file_size
  <2>1. length \in 1..r.length
    BY <1>0 DEF ChunkLengths, Tolerated
  <2>2. r.length \in 1..DataSize /\ DataSize \in Nat
    BY <1>0, RequestsAre, TransfersAssumption
  <2>. QED  BY <1>1, <1>3, <2>1, <2>2
<1>6. (t.position + length) % WordSize = pos
  <2>1. WordSize \in Nat \ {0} /\ t.file_size < WordSize
    <3>1. DataSize \in Nat /\ WordSize \in Nat \ {0} /\ t.file_size + DataSize < WordSize
      BY <1>3, Widths
    <3>. QED  BY <1>3, <3>1
  <2>2. pos < WordSize
    BY <1>3, <1>5, <2>1
  <2>. QED  BY <1>5, <2>1, <2>2, Modulo
<1>7. q \in Peers /\ q # p /\ n # Incoming + n /\ \A k \in Numbers : Incoming + k # n
  BY <1>0, <1>2, Entries, FileNumber DEF Incoming
<1>8. /\ u \in Transfers /\ u # None /\ u.id = t.id /\ u.state = t.state
      /\ u.file_size = t.file_size /\ u.position = pos /\ ~u.event_pending
  <2>1. length \in 0..DataSize
    BY <1>5
  <2>2. [t EXCEPT !.position = (t.position + length) % WordSize, !.event_pending = FALSE]
          \in Transfers
    BY <1>3, <2>1, TransferTypes
  <2>3. u \in Transfers
    BY <1>6, <2>2
  <2>4. /\ u.id = t.id /\ u.state = t.state /\ u.file_size = t.file_size
        /\ u.position = pos /\ ~u.event_pending
    BY <1>3 DEF Transfers
  <2>. QED  BY <2>3, <2>4, NoneAssumption
<1>9. m \in Packets /\ fin \in Packets
  <2>1. t.position \in 0..(WordSize - 1)
    BY <1>3 DEF Transfers
  <2>2. m \in Packets
    BY <1>2, <1>3, <1>5, <2>1 DEF Data, Packets
  <2>. QED  BY <2>2, ControlTypes
<1> DEFINE F  == net[q]
           B  == net[p]
           b  == transfers[q][Incoming + n]
           sa == slots[p][n]
           sb == slots[q][Incoming + n]
           heard == resumed[q]
           G  == IF u.position = u.file_size THEN Append(Append(F, m), fin) ELSE Append(F, m)
<1>10. /\ Pair(t, sa, b, sb, F, B, heard, n)
       /\ b \in Transfers \cup {None} /\ F \in Seq(Packets) /\ B \in Seq(Packets)
  <2>1. SentBy(p, n)
    BY <1>2, PairsOf DEF TransferInv
  <2>. QED  BY <1>0, <1>2, <2>1, Entries DEF SentBy
<1>11. Sending(t, sa, b, sb, F, B, heard, n) /\ Pair(u, sa, b, sb, G, B, heard, n)
  <2> HIDE DEF t, b, F, B, sa, sb, heard
  <2>1. Sending(t, sa, b, sb, F, B, heard, n)
    BY <1>1, <1>2, <1>3, <1>4, <1>10, StillSending
  <2>2. /\ t \in Transfers \cup {None} /\ t # None /\ t.state = "RUNNING"
        /\ t.position # t.file_size
    BY <1>1, <1>3, <1>4
  <2>3. Data(t.id, n, t.position, length) \in Packets /\ t.position + length <= t.file_size
    BY <1>5, <1>9
  <2>4. u.position = t.position + length
    BY <1>8
  <2> HIDE DEF u, pos
  <2>5. Pair(u, sa, b, sb,
             IF u.position = u.file_size
             THEN Append(Append(F, Data(t.id, n, t.position, length)), Control(n, "FINISHED"))
             ELSE Append(F, Data(t.id, n, t.position, length)),
             B, heard, n)
    BY <1>2, <1>5, <1>8, <1>10, <2>2, <2>3, <2>4, ChunkSent
  <2>. QED  BY <2>1, <2>5
<1>12. slots[p][n] = "accepted"
  BY <1>11 DEF Sending, Running
<1>13. /\ transfers' = [transfers EXCEPT ![p][n].position = pos, ![p][n].event_pending = FALSE]
       /\ Send(p, <<m>> \o IF pos = t.file_size THEN <<fin>> ELSE <<>>)
       /\ asked' = [asked EXCEPT ![p] = RemoveAt(asked[p], i)]
  <2>2. SendControl(p, n, "FINISHED") = <<fin>>
    BY <1>12 DEF SendControl
  <2> HIDE DEF fin
  <2>. QED  BY <1>1, <1>2, <1>6, <1>12, <1>n, <2>2 DEF SendChunk
<1>15. /\ transfers'[p][n] = u
       /\ \A s \in Peers, k \in FileNumbers : s # p \/ k # n =>
            transfers'[s][k] = transfers[s][k]
  <2>1. transfers' = [transfers EXCEPT ![p][n] = u]
    <3>1. n \in DOMAIN transfers[p] /\ p \in DOMAIN transfers
      BY ONLY <1>0, <1>n DEF TypeOK
    <3>. QED  BY ONLY <1>13, <3>1
  <2> HIDE DEF u
  <2>. QED  BY <1>0, <2>1, Changed DEF TypeOK
<1>16. net'[p] = B /\ net'[q] = G
  <2> HIDE DEF m, fin, u, pos
  <2>. QED  BY <1>0, <1>8, <1>9, <1>13, PacketsAre
<1>17. PairInv'
  <2>1. \A k \in Numbers : (k # n => SentBy(p, k)') /\ (Incoming + k # n => ReceivedBy(p, k)')
    <3>1. SentFor(m, n) /\ SentFor(fin, n)
      <4>1. SentFor(m, n)
        BY <1>9, PacketsFor DEF Data
      <4>. QED  BY <4>1, ControlFor
    <3>2. \/ \E k \in Packets : SentFor(k, n) /\ net'[q] = Append(net[q], k)
          \/ \E k, l \in Packets : /\ SentFor(k, n) /\ SentFor(l, n)
                                   /\ net'[q] = Append(Append(net[q], k), l)
      <4> HIDE DEF m, fin, u
      <4>. QED  BY <1>9, <1>16, <3>1
    <3>3. net'[p] = net[p] /\ slots' = slots /\ resumed' = resumed
      BY <1>0, <1>16 DEF client
    <3> HIDE DEF t, b, F, B, G, sa, sb, heard, m, fin, u
    <3>. QED  BY <1>0, <1>15, <3>2, <3>3, OtherPairs DEF TransferInv
  <2>2. SentBy(p, n)'
    <3>1. /\ slots' = slots /\ resumed' = resumed /\ transfers'[q][Incoming + n] = b
      BY <1>0, <1>2, <1>7, <1>15, FileNumber DEF client
    <3> HIDE DEF G, u
    <3>. QED  BY <1>11, <1>15, <1>16, <3>1 DEF SentBy
  <2>. QED  BY <1>2, <1>7, <2>1, <2>2, PairsOf
<1>18. PeerInv'
  <2>1. Usual(m) /\ Usual(fin)
    BY <1>2, FileNumber DEF Usual, Data, Control
  <2>2. \/ \E k \in Packets : Usual(k) /\ net'[q] = Append(net[q], k)
        \/ \E k, l \in Packets : /\ Usual(k) /\ Usual(l)
                                 /\ net'[q] = Append(Append(net[q], k), l)
    <3> HIDE DEF m, fin, u
    <3>. QED  BY <1>9, <1>16, <2>1
  <2> HIDE DEF G
  <2>. QED  BY <1>0, <1>16, <2>2, PeersKept DEF TransferInv
<1>19. ReceiverInv'
  BY <1>7, <1>15, FileNumber DEF TransferInv, ReceiverInv
<1>20. IdInv'
  <2> HIDE DEF u
  <2>. QED  BY <1>0, <1>1, <1>8, <1>15, FileNumber, IdsKept DEF TransferInv
<1> HIDE DEF u, m, fin, F, B, G, b, sa, sb, heard
\* The requests that are left are for other transfers.
<1>21. /\ \A j \in DOMAIN asked'[p] :
            /\ (IF j < i THEN j ELSE j + 1) \in DOMAIN asked[p]
            /\ asked'[p][j] = asked[p][IF j < i THEN j ELSE j + 1]
            /\ asked'[p][j].number # n
       /\ asked'[q] = asked[q]
       /\ i \in Nat /\ DOMAIN asked'[p] \subseteq Nat
  <2>1. asked[p] \in Seq(Requests) /\ i \in 1..Len(asked[p]) /\ Len(asked[p]) \in Nat
    <3>1. asked[p] \in Seq(Requests)
      BY <1>0, RequestsAre
    <3>2. Len(asked[p]) \in Nat /\ DOMAIN asked[p] = 1..Len(asked[p])
      BY ONLY <3>1
    <3>. QED  BY <3>1, <3>2
  <2>2. asked'[p] = RemoveAt(asked[p], i) /\ asked'[q] = asked[q]
    <3>1. DOMAIN asked = Peers
      BY <1>0 DEF TypeOK
    <3>. QED  BY <1>7, <1>13, <3>1
  <2>3. /\ asked'[p] \in Seq(Requests) /\ Len(asked'[p]) = Len(asked[p]) - 1
        /\ \A j \in DOMAIN asked'[p] : asked'[p][j] = asked[p][IF j < i THEN j ELSE j + 1]
    BY <2>1, <2>2, Removed
  <2>4. ASSUME NEW j \in DOMAIN asked'[p]
        PROVE  /\ (IF j < i THEN j ELSE j + 1) \in DOMAIN asked[p]
               /\ (IF j < i THEN j ELSE j + 1) # i
    BY <2>1, <2>3
  <2>5. \A j \in DOMAIN asked[p] : asked[p][j].number = n => j = i
    BY <1>n DEF TransferInv, RequestInv, RequestsCurrent
  <2>. QED  BY <2>1, <2>2, <2>3, <2>4, <2>5
<1>22. ASSUME NEW s \in Peers, NEW j \in DOMAIN asked'[s]
       PROVE  \E k \in DOMAIN asked[s] :
                /\ asked'[s][j] = asked[s][k]
                /\ transfers'[s][asked[s][k].number] = transfers[s][asked[s][k].number]
  <2>1. CASE s = p
    <3>1. PICK k \in DOMAIN asked[p] : asked'[p][j] = asked[p][k] /\ asked[p][k].number # n
      BY <1>21, <1>22, <2>1
    <3>2. asked[p][k].number \in FileNumbers
      BY <1>0, RequestsAre
    <3>3. transfers'[p][asked[p][k].number] = transfers[p][asked[p][k].number]
      BY <1>15, <3>1, <3>2
    <3>. QED  BY ONLY <2>1, <3>1, <3>3
  <2>2. CASE s = q
    <3>1. j \in DOMAIN asked[q] /\ asked'[s][j] = asked[q][j]
      BY <1>21, <1>22, <2>2
    <3>2. asked[q][j].number \in FileNumbers
      BY <1>0, <1>7, <3>1, RequestsAre
    <3>3. transfers'[q][asked[q][j].number] = transfers[q][asked[q][j].number]
      BY <1>7, <1>15, <3>2
    <3>. QED  BY ONLY <2>2, <3>1, <3>3
  <2>. QED  BY <2>1, <2>2, TwoPeers
<1>23. ASSUME NEW s \in Peers, NEW j \in DOMAIN asked'[s], NEW k \in DOMAIN asked'[s],
              asked'[s][j].number = asked'[s][k].number
       PROVE  j = k
  <2>1. \A x, y \in DOMAIN asked[s] : asked[s][x].number = asked[s][y].number => x = y
    BY DEF TransferInv, RequestInv, RequestsCurrent
  <2>2. CASE s = p
    <3>1. (IF j < i THEN j ELSE j + 1) = (IF k < i THEN k ELSE k + 1)
      BY <1>21, <1>23, <2>1, <2>2
    <3>. QED  BY <1>21, <2>2, <3>1
  <2>3. CASE s = q
    BY <1>21, <1>23, <2>1, <2>3
  <2>. QED  BY <2>2, <2>3, TwoPeers
<1>24. \A s \in Peers, k \in Numbers : transfers'[s][k] # None /\ transfers'[s][k].event_pending =>
         /\ transfers'[s][k].state = "RUNNING"
         /\ transfers'[s][k].position < transfers'[s][k].file_size
  BY <1>8, <1>15, FileNumber DEF TransferInv, RequestInv
<1>25. \A s \in Peers : \A j \in DOMAIN asked'[s] :
         /\ transfers'[s][asked'[s][j].number] # None
         /\ transfers'[s][asked'[s][j].number].id = asked'[s][j].id
         /\ transfers'[s][asked'[s][j].number].position = asked'[s][j].position
         /\ transfers'[s][asked'[s][j].number].event_pending
         /\ asked'[s][j].number < Incoming
         /\ asked'[s][j].position + asked'[s][j].length
              <= transfers'[s][asked'[s][j].number].file_size
  <2>1. \A s \in Peers : \A j \in DOMAIN asked[s] :
          /\ transfers[s][asked[s][j].number] # None
          /\ transfers[s][asked[s][j].number].id = asked[s][j].id
          /\ transfers[s][asked[s][j].number].position = asked[s][j].position
          /\ transfers[s][asked[s][j].number].event_pending
          /\ asked[s][j].number < Incoming
          /\ asked[s][j].position + asked[s][j].length
               <= transfers[s][asked[s][j].number].file_size
    BY DEF TransferInv, RequestInv, RequestsCurrent, DataOnlyOutgoing
  <2>. QED  BY <1>22, <2>1
<1>26. RequestInv'
  BY <1>23, <1>24, <1>25 DEF RequestInv, RequestsCurrent, DataOnlyOutgoing
<1>. QED  BY <1>17, <1>18, <1>19, <1>20, <1>26 DEF TransferInv

LEMMA OfferStep ==
  ASSUME TransferInv, TypeOK', NEW p \in Peers, NEW n \in Numbers, NEW size \in Sizes,
         NEW cause \in Garbage, FileSend(p, n, size, cause)
  PROVE  TransferInv'
<1>0. /\ TypeOK /\ UNCHANGED <<asked, isFriend, resumed>> /\ slots[p][n] = "none"
      /\ slots' = [slots EXCEPT ![p][n] = "offered"]
      /\ sends' = [sends EXCEPT ![p] = @ + 1]
  BY DEF TransferInv, FileSend
<1>x. PICK x \in Nat : x = sends[p] /\ x < MaxSends[p]
  BY <1>0 DEF FileSend, TypeOK
<1> DEFINE q  == Other(p)
           id == <<p, x + 1>>
           t  == Transfer(id, size, cause)
           m  == Request(id, n, size)
<1>1. /\ q \in Peers /\ q # p /\ n \in FileNumbers /\ n # Incoming + n
      /\ \A k \in Numbers : Incoming + k # n
      /\ p = Other(q) /\ \A s \in Peers : s = p \/ s = q
  BY <1>0, Entries, FileNumber, TwoPeers DEF Incoming
<1>2. /\ id \in Ids /\ id \notin GivenIds(p, x) /\ id \in GivenIds(p, x + 1)
      /\ GivenIds(p, x) \subseteq GivenIds(p, x + 1)
  <2>1. id \in Ids
    BY <1>0, <1>x, NewId DEF TypeOK
  <2>2. id \notin GivenIds(p, x)
    <3>1. ASSUME NEW i \in 1..x  PROVE id # <<p, i>>
      OBVIOUS
    <3>. QED  BY <3>1 DEF GivenIds
  <2>3. x + 1 \in 1..(x + 1) /\ 1..x \subseteq 1..(x + 1)
    OBVIOUS
  <2>. QED  BY <2>1, <2>2, <2>3 DEF GivenIds
<1>3. /\ t \in Transfers /\ t # None /\ t.id = id /\ t.state = "PAUSED" /\ ~t.event_pending
  BY <1>2, TransferMade, NoneAssumption DEF Transfer
<1>4. m \in Packets /\ SentFor(m, n) /\ Usual(m)
  <2>1. m \in Packets
    BY <1>2 DEF Request, Packets
  <2>2. m.type # "control" /\ m.number = n
    BY DEF Request
  <2>. QED  BY <2>1, <2>2, PacketsFor DEF Usual
<1> DEFINE F  == net[q]
           B  == net[p]
           a  == transfers[p][n]
           b  == transfers[q][Incoming + n]
           sb == slots[q][Incoming + n]
           heard == resumed[q]
<1>5. /\ Pair(a, "none", b, sb, F, B, heard, n) /\ a \in Transfers \cup {None}
      /\ b \in Transfers \cup {None} /\ F \in Seq(Packets) /\ B \in Seq(Packets)
  <2>1. SentBy(p, n)
    BY PairsOf DEF TransferInv
  <2>. QED  BY <1>0, <2>1, Entries DEF SentBy
<1>6. id \notin heard
  <2>1. heard \subseteq GivenIds(p, x)
    BY <1>1, <1>x DEF TransferInv, IdInv
  <2>. QED  BY <1>2, <2>1
<1>7. a = None /\ Pair(t, "offered", b, sb, Append(F, m), B, heard, n)
  <2> HIDE DEF F, B, a, b, sb, heard, id
  <2>. QED  BY <1>2, <1>5, <1>6, FileOffered
<1>8. transfers' = [transfers EXCEPT ![p][n] = t] /\ Send(p, <<m>>)
  BY <1>7, <1>x DEF FileSend
<1> HIDE DEF t, m, id
<1>9. /\ transfers'[p][n] = t /\ slots'[p][n] = "offered"
      /\ \A s \in Peers, k \in FileNumbers : s # p \/ k # n =>
           transfers'[s][k] = transfers[s][k] /\ slots'[s][k] = slots[s][k]
  <2>1. /\ transfers \in [Peers -> [FileNumbers -> Transfers \cup {None}]]
        /\ slots \in [Peers -> [FileNumbers -> {"none", "offered", "accepted"}]]
    BY <1>0 DEF TypeOK
  <2>2. /\ transfers'[p][n] = t
        /\ \A s \in Peers, k \in FileNumbers : s # p \/ k # n =>
             transfers'[s][k] = transfers[s][k]
    BY ONLY <1>1, <1>8, <2>1, Changed
  <2>3. /\ slots'[p][n] = "offered"
        /\ \A s \in Peers, k \in FileNumbers : s # p \/ k # n => slots'[s][k] = slots[s][k]
    BY ONLY <1>0, <1>1, <2>1, Changed
  <2>. QED  BY <2>2, <2>3
<1>10. net'[p] = B /\ net'[q] = Append(F, m)
  BY <1>0, <1>4, <1>8, PacketsAre
<1>11. PairInv'
  <2>1. \A k \in Numbers : (k # n => SentBy(p, k)') /\ (Incoming + k # n => ReceivedBy(p, k)')
    BY <1>0, <1>1, <1>4, <1>9, <1>10, OtherPairs DEF TransferInv
  <2>2. SentBy(p, n)'
    <3>1. /\ resumed' = resumed /\ transfers'[q][Incoming + n] = b
          /\ slots'[q][Incoming + n] = sb
      BY <1>0, <1>1, <1>9, FileNumber
    <3>. QED  BY <1>7, <1>9, <1>10, <3>1 DEF SentBy
  <2>. QED  BY <1>1, <2>1, <2>2, PairsOf
<1>12. PeerInv'
  BY <1>0, <1>4, <1>8, <1>10, PeersKept DEF TransferInv
<1>13. ReceiverInv'
  BY <1>1, <1>9, FileNumber DEF TransferInv, ReceiverInv
<1>14. RequestInv'
  BY <1>0, <1>3, <1>7, <1>9, RequestsKept DEF TransferInv
<1>15. IdInv'
  <2>1. sends'[p] = x + 1 /\ sends'[q] = sends[q]
    BY <1>0, <1>1, <1>x DEF TypeOK
  <2>2. \A k \in Numbers : /\ transfers[p][k] # None => transfers[p][k].id \in GivenIds(p, x)
                           /\ k = n \/ transfers'[p][k] = transfers[p][k]
    BY <1>9, <1>x, FileNumber DEF TransferInv, IdInv
  <2>3. \A k \in Numbers : transfers'[p][k] # None => transfers'[p][k].id \in GivenIds(p, x + 1)
    BY <1>2, <1>3, <1>9, <2>2
  <2>4. \A k, l \in Numbers :
             transfers'[p][k] # None /\ transfers'[p][l] # None /\
             transfers'[p][k].id = transfers'[p][l].id => k = l
    <3>1. \A k, l \in Numbers : transfers[p][k] # None /\ transfers[p][l] # None /\
            transfers[p][k].id = transfers[p][l].id => k = l
      BY DEF TransferInv, IdInv
    <3>2. \A k \in Numbers : k = n \/
            (transfers'[p][k] = transfers[p][k]
             /\ (transfers'[p][k] # None => transfers'[p][k].id # id))
      BY <1>2, <2>2
    <3>3. transfers'[p][n].id = id
      BY <1>3, <1>9
    <3>4. ASSUME NEW k \in Numbers, NEW l \in Numbers,
                 transfers'[p][k] # None, transfers'[p][l] # None,
                 transfers'[p][k].id = transfers'[p][l].id
          PROVE  k = l
      <4>1. CASE k = n
        BY <3>2, <3>3, <3>4, <4>1
      <4>2. CASE l = n
        BY <3>2, <3>3, <3>4, <4>2
      <4>3. CASE k # n /\ l # n
        <5>1. transfers'[p][k] = transfers[p][k] /\ transfers'[p][l] = transfers[p][l]
          BY <3>2, <4>3
        <5>. QED  BY ONLY <3>1, <3>4, <5>1
      <4>. QED  BY <4>1, <4>2, <4>3
    <3>. QED  BY <3>4
  <2>5. resumed'[q] \subseteq GivenIds(p, x + 1)
    BY <1>0, <1>1, <1>2, <1>x DEF TransferInv, IdInv
  <2>6. /\ \A k \in Numbers : transfers'[p][k] # None =>
             transfers'[p][k].id \in GivenIds(p, sends'[p])
        /\ \A k, l \in Numbers :
             transfers'[p][k] # None /\ transfers'[p][l] # None /\
             transfers'[p][k].id = transfers'[p][l].id => k = l
        /\ resumed'[Other(p)] \subseteq GivenIds(p, sends'[p])
    BY <2>1, <2>3, <2>4, <2>5
  <2>7. \A k \in Numbers : transfers'[q][k] = transfers[q][k]
    BY <1>1, <1>9, FileNumber
  <2>8. /\ \A k \in Numbers : transfers'[q][k] # None =>
             transfers'[q][k].id \in GivenIds(q, sends'[q])
        /\ \A k, l \in Numbers :
             transfers'[q][k] # None /\ transfers'[q][l] # None /\
             transfers'[q][k].id = transfers'[q][l].id => k = l
        /\ resumed'[Other(q)] \subseteq GivenIds(q, sends'[q])
    <3>1. /\ \A k \in Numbers : transfers[q][k] # None =>
               transfers[q][k].id \in GivenIds(q, sends[q])
          /\ \A k, l \in Numbers : transfers[q][k] # None /\ transfers[q][l] # None /\
               transfers[q][k].id = transfers[q][l].id => k = l
          /\ resumed[Other(q)] \subseteq GivenIds(q, sends[q])
      BY <1>1 DEF TransferInv, IdInv
    <3> HIDE DEF q
    <3>. QED  BY <1>0, <2>1, <2>7, <3>1
  <2>. QED  BY <1>1, <2>6, <2>8 DEF IdInv
<1>. QED  BY <1>11, <1>12, <1>13, <1>14, <1>15 DEF TransferInv

LEMMA ResumeStep ==
  ASSUME TransferInv, TypeOK', Allowed \subseteq Tolerated, NEW p \in Peers,
         NEW fn \in FileNumbers, Resume(p, fn)
  PROVE  TransferInv'
<1>0. /\ TypeOK /\ UNCHANGED <<transfers, asked, isFriend, sends>>
      /\ transfers[p][fn] # None /\ ~(fn < Incoming)
      /\ transfers[p][fn].id \notin resumed[p]
  <2>1. MayResume(p, fn) /\ transfers[p][fn] # None
    BY DEF Resume, Controls
  <2>2. ~(fn < Incoming) /\ transfers[p][fn].id \notin resumed[p]
    BY <2>1, FileNumberIs DEF MayResume, Incoming, Tolerated
  <2>. QED  BY <2>1, <2>2 DEF TransferInv, Resume
<1>n. PICK n \in Numbers : fn = Incoming + n
  BY <1>0, FileNumberIs
<1>b. PICK b \in Transfers : b = transfers[p][fn] /\ b # None
  BY <1>0, <1>n, Entries
<1> DEFINE q  == Other(p)
           m  == Control(fn, "ACCEPT")
           F  == net[p]
           B  == net[q]
           a  == transfers[q][n]
           sa == slots[q][n]
           sb == slots[p][fn]
           heard == resumed[p]
<1>1. /\ q \in Peers /\ q # p /\ n \in FileNumbers /\ fn \in FileNumbers
      /\ \A k \in Numbers : k # fn /\ (Incoming + k = fn => k = n)
      /\ p = Other(q) /\ \A s \in Peers : s = p \/ s = q
  BY <1>0, <1>n, Entries, FileNumber, TwoPeers DEF Incoming
<1>2. m \in Packets /\ SentFor(m, fn) /\ Usual(m)
  <2>1. m \in Packets /\ SentFor(m, fn)
    BY ControlTypes, ControlFor
  <2>2. SendReceive(fn) = 1
    BY <1>n, FileNumber
  <2>. QED  BY <2>1, <2>2 DEF Usual, Control
<1>3. /\ Pair(a, sa, b, sb, F, B, heard, n) /\ a \in Transfers \cup {None}
      /\ b \in Transfers \cup {None} /\ F \in Seq(Packets) /\ B \in Seq(Packets)
  <2>1. ReceivedBy(p, n)
    BY PairsOf DEF TransferInv
  <2>. QED  BY <1>0, <1>n, <1>b, <2>1, Entries DEF ReceivedBy
<1>4. /\ a # None /\ a.id = b.id /\ sb = "offered"
      /\ Pair(a, sa, b, "accepted", F, Append(B, m), heard \cup {b.id}, n)
  <2>1. b # None /\ b.id \notin heard
    BY <1>0, <1>b
  <2> HIDE DEF F, B, a, sa, sb, heard
  <2>2. /\ Announced(a, sa, b, sb, F, B, heard, n) /\ a # None /\ a.id = b.id
        /\ Pair(a, sa, b, "accepted", F, Append(B, Control(Incoming + n, "ACCEPT")),
                heard \cup {b.id}, n)
    BY <1>3, <2>1, FileResumed
  <2>3. sb = "offered"
    BY <2>1, <2>2 DEF Announced
  <2>. QED  BY <1>n, <2>2, <2>3
<1>5. /\ Send(p, <<m>>) /\ slots' = [slots EXCEPT ![p][fn] = "accepted"]
      /\ resumed' = [resumed EXCEPT ![p] = @ \cup {b.id}]
  <2>1. SendControl(p, fn, "ACCEPT") = <<m>>
    BY <1>4 DEF SendControl
  <2>2. slots' = [slots EXCEPT ![p][fn] = IF @ = "offered" /\ fn >= Incoming THEN "accepted" ELSE @]
    BY DEF Resume
  <2>3. fn >= Incoming
    BY <1>0, FileNumberIs DEF Incoming
  <2>4. slots' = [slots EXCEPT ![p][fn] = "accepted"]
    BY <1>0, <1>1, <1>4, <2>2, <2>3 DEF TypeOK
  <2>. QED  BY <1>b, <2>1, <2>4 DEF Resume
<1> HIDE DEF m
<1>6. /\ slots'[p][fn] = "accepted"
      /\ \A s \in Peers, k \in FileNumbers : s # p \/ k # fn => slots'[s][k] = slots[s][k]
      /\ resumed'[p] = heard \cup {b.id} /\ resumed'[q] = resumed[q]
  <2>1. slots \in [Peers -> [FileNumbers -> {"none", "offered", "accepted"}]]
    BY <1>0 DEF TypeOK
  <2>2. /\ slots'[p][fn] = "accepted"
        /\ \A s \in Peers, k \in FileNumbers : s # p \/ k # fn => slots'[s][k] = slots[s][k]
    BY ONLY <1>1, <1>5, <2>1, Changed
  <2>. QED  BY <1>0, <1>1, <1>5, <2>2 DEF TypeOK
<1>7. net'[p] = F /\ net'[q] = Append(B, m)
  BY <1>0, <1>2, <1>5, PacketsAre
<1>8. PairInv'
  <2>1. \A k \in Numbers : (k # fn => SentBy(p, k)') /\ (Incoming + k # fn => ReceivedBy(p, k)')
    <3>1. \A k \in Numbers : Incoming + k # fn /\ transfers[q][k] # None =>
            transfers[q][k].id # b.id
      BY <1>1, <1>4, <1>n DEF TransferInv, IdInv
    <3>2. \E k \in Packets : SentFor(k, fn) /\ net'[q] = Append(net[q], k)
      BY <1>2, <1>7
    <3>3. \E id : /\ resumed'[p] = resumed[p] \cup {id}
                  /\ \A k \in Numbers : Incoming + k # fn /\ transfers[q][k] # None =>
                       transfers[q][k].id # id
      BY <1>6, <3>1
    <3>4. \A s \in Peers, k \in FileNumbers : s # p \/ k # fn =>
            transfers'[s][k] = transfers[s][k] /\ slots'[s][k] = slots[s][k]
      BY <1>0, <1>6
    <3>5. net'[p] = net[p] /\ resumed'[q] = resumed[q] /\ TypeOK /\ PairInv
      BY <1>0, <1>6, <1>7 DEF TransferInv
    <3> HIDE DEF F, B, a, sa, sb, heard
    <3>. QED  BY <3>2, <3>3, <3>4, <3>5, OtherPairs
  <2>2. ReceivedBy(p, n)'
    <3>1. /\ transfers' = transfers /\ slots'[q][n] = sa
      BY <1>0, <1>1, <1>6
    <3>. QED  BY <1>4, <1>6, <1>7, <1>b, <1>n, <3>1 DEF ReceivedBy
  <2>. QED  BY <1>1, <1>n, <2>1, <2>2, PairsOf
<1>9. PeerInv'
  BY <1>0, <1>2, <1>7, PeersKept DEF TransferInv
<1>10. ReceiverInv' /\ RequestInv'
  BY <1>0, RequestsKept DEF TransferInv, ReceiverInv
<1>11. IdInv'
  <2>1. /\ \A s \in Peers, k \in Numbers : transfers[s][k] # None =>
             transfers[s][k].id \in GivenIds(s, sends[s])
        /\ \A s \in Peers : resumed[Other(s)] \subseteq GivenIds(s, sends[s])
    BY DEF TransferInv, IdInv
  <2>2. b.id \in GivenIds(q, sends[q])
    BY <1>1, <1>4, <2>1
  <2>3. /\ resumed'[Other(q)] \subseteq GivenIds(q, sends[q])
        /\ resumed'[Other(p)] \subseteq GivenIds(p, sends[p])
    BY <1>1, <1>6, <2>1, <2>2
  <2>4. \A s \in Peers : resumed'[Other(s)] \subseteq GivenIds(s, sends[s])
    BY <1>1, <2>3
  <2>. QED  BY <1>0, <2>4 DEF TransferInv, IdInv
<1>. QED  BY <1>8, <1>9, <1>10, <1>11, <1>0 DEF TransferInv

\* Requests are dropped when sending fails.
LEMMA SendFailsStep ==
  ASSUME TransferInv, TypeOK', NEW p \in Peers, NEW i \in DOMAIN asked[p], NEW length,
         SendChunk(p, i, length), UNCHANGED <<transfers, net>>
  PROVE  TransferInv'
<1>0. /\ TypeOK /\ UNCHANGED <<slots, isFriend, client>>
      /\ asked' = [asked EXCEPT ![p] = RemoveAt(asked[p], i)]
  BY DEF TransferInv, SendChunk
<1>1. /\ \A j \in DOMAIN asked'[p] :
           /\ (IF j < i THEN j ELSE j + 1) \in DOMAIN asked[p]
           /\ asked'[p][j] = asked[p][IF j < i THEN j ELSE j + 1]
      /\ i \in Nat /\ DOMAIN asked'[p] \subseteq Nat
  <2>1. asked[p] \in Seq(Requests) /\ i \in 1..Len(asked[p]) /\ Len(asked[p]) \in Nat
    <3>1. asked[p] \in Seq(Requests)
      BY <1>0, RequestsAre
    <3>2. Len(asked[p]) \in Nat /\ DOMAIN asked[p] = 1..Len(asked[p])
      BY ONLY <3>1
    <3>. QED  BY <3>1, <3>2
  <2>2. asked'[p] = RemoveAt(asked[p], i)
    BY <1>0 DEF TypeOK
  <2>3. /\ asked'[p] \in Seq(Requests) /\ Len(asked'[p]) = Len(asked[p]) - 1
        /\ \A j \in DOMAIN asked'[p] : asked'[p][j] = asked[p][IF j < i THEN j ELSE j + 1]
    BY <2>1, <2>2, Removed
  <2>4. \A j \in DOMAIN asked'[p] : (IF j < i THEN j ELSE j + 1) \in DOMAIN asked[p]
    BY <2>1, <2>3
  <2>. QED  BY <2>1, <2>3, <2>4
<1>2. \A q \in Peers : q # p => asked'[q] = asked[q]
  BY <1>0 DEF TypeOK
<1>3. \A q \in Peers : \A j \in DOMAIN asked'[q] :
        \E k \in DOMAIN asked[q] : asked'[q][j] = asked[q][k]
  BY <1>1, <1>2
<1>4. ASSUME NEW q \in Peers, NEW j \in DOMAIN asked'[q], NEW k \in DOMAIN asked'[q],
             asked'[q][j].number = asked'[q][k].number
      PROVE  j = k
  <2>1. \A x, y \in DOMAIN asked[q] : asked[q][x].number = asked[q][y].number => x = y
    BY DEF TransferInv, RequestInv, RequestsCurrent
  <2>2. CASE q = p
    <3>1. (IF j < i THEN j ELSE j + 1) = (IF k < i THEN k ELSE k + 1)
      BY <1>1, <1>4, <2>1, <2>2
    <3>. QED  BY <1>1, <2>2, <3>1
  <2>3. CASE q # p
    BY <1>2, <1>4, <2>1, <2>3
  <2>. QED  BY <2>2, <2>3
<1>5. RequestInv'
  <2>1. \A q \in Peers : \A j \in DOMAIN asked[q] :
          /\ transfers[q][asked[q][j].number] # None
          /\ transfers[q][asked[q][j].number].id = asked[q][j].id
          /\ transfers[q][asked[q][j].number].position = asked[q][j].position
          /\ transfers[q][asked[q][j].number].event_pending
          /\ asked[q][j].number < Incoming
          /\ asked[q][j].position + asked[q][j].length
               <= transfers[q][asked[q][j].number].file_size
    BY DEF TransferInv, RequestInv, RequestsCurrent, DataOnlyOutgoing
  <2>2. \A q \in Peers : \A j \in DOMAIN asked'[q] :
          /\ transfers'[q][asked'[q][j].number] # None
          /\ transfers'[q][asked'[q][j].number].id = asked'[q][j].id
          /\ transfers'[q][asked'[q][j].number].position = asked'[q][j].position
          /\ transfers'[q][asked'[q][j].number].event_pending
          /\ asked'[q][j].number < Incoming
          /\ asked'[q][j].position + asked'[q][j].length
               <= transfers'[q][asked'[q][j].number].file_size
    BY <1>3, <2>1
  <2>3. \A q \in Peers, n \in Numbers : transfers'[q][n] # None /\ transfers'[q][n].event_pending =>
          /\ transfers'[q][n].state = "RUNNING"
          /\ transfers'[q][n].position < transfers'[q][n].file_size
    BY DEF TransferInv, RequestInv
  <2>. QED  BY <1>4, <2>2, <2>3 DEF RequestInv, RequestsCurrent, DataOnlyOutgoing
<1>. QED  BY <1>0, <1>5, Unmoved

LEMMA PauseStep ==
  ASSUME TransferInv, TypeOK', NEW p \in Peers, NEW fn \in FileNumbers, Pause(p, fn)
  PROVE  TransferInv'
<1>0. TypeOK /\ UNCHANGED <<transfers, slots, asked, isFriend, client>>
  BY DEF TransferInv, Pause
<1>1. Control(fn, "PAUSE") \in Packets /\ IsPause(Control(fn, "PAUSE"))
  BY ControlTypes DEF IsPause, Control
<1>2. net'[p] = net[p] /\ net'[Other(p)] = net[Other(p)] \o SendControl(p, fn, "PAUSE")
  BY <1>0, TwoPeers DEF Pause, Send, TypeOK
<1>3. \/ net'[Other(p)] = net[Other(p)]
      \/ net'[Other(p)] = Append(net[Other(p)], Control(fn, "PAUSE"))
  <2>1. net[Other(p)] \in Seq(Packets)
    BY <1>0, TwoPeers DEF TypeOK
  <2>2. SendControl(p, fn, "PAUSE") \in {<<>>, <<Control(fn, "PAUSE")>>}
    BY DEF SendControl
  <2>. QED  BY <1>1, <1>2, <2>1, <2>2, Concat
<1>4. RequestInv'
  BY <1>0, RequestsKept DEF TransferInv
<1>. QED  BY <1>0, <1>1, <1>2, <1>3, <1>4, Unmoved

-----------------------------------------------------------------------------
(* Every step, and what follows.                                           *)

LEMMA TransferStep ==
  ASSUME Allowed \subseteq Tolerated, TransferInv, [Next]_vars
  PROVE  TransferInv'
<1>1. TypeOK'
  BY TypeStep DEF TransferInv
<1>2. CASE UNCHANGED vars
  BY <1>1, <1>2, Stands DEF vars
<1>3. ASSUME NEW p \in Peers, Receives(p)  PROVE TransferInv'
  BY <1>1, <1>3, RequestStep, DataStep, ControlStep DEF Receives
<1>4. ASSUME NEW p \in Peers, Asks(p)  PROVE TransferInv'
  <2>1. CASE IterationReturns(p)
    BY <1>1, <2>1, Stands DEF IterationReturns
  <2>2. CASE \E fn \in FileNumbers : AskChunk(p, fn)
    BY <1>1, <2>2, AskStep
  <2>. QED  BY <1>4, <2>1, <2>2 DEF Asks
<1>5. ASSUME NEW p \in Peers, Answers(p)  PROVE TransferInv'
  BY <1>1, <1>5, SendStep, SendFailsStep DEF Answers
<1>6. ASSUME NEW p \in Peers, Offers(p)  PROVE TransferInv'
  BY <1>1, <1>6, OfferStep DEF Offers
<1>7. ASSUME NEW p \in Peers, NEW fn \in FileNumbers, Calls(p, fn)  PROVE TransferInv'
  BY <1>1, <1>7, ResumeStep, PauseStep DEF Calls
<1>8. ASSUME NEW p \in Peers, FriendDelete(p) \/ FriendAdd(p)  PROVE FALSE
  BY <1>8 DEF FriendDelete, FriendAdd, TransferInv, PeerInv, Tolerated
<1>. QED  BY <1>2, <1>3, <1>4, <1>5, <1>6, <1>7, <1>8 DEF Next

LEMMA TransferStarts == Init => TransferInv
<1> SUFFICES ASSUME Init  PROVE TransferInv
  OBVIOUS
<1>1. TypeOK
  BY TypeStarts
<1>2. \A p \in Peers : Other(p) \in Peers
  BY TwoPeers
<1>3. \A p \in Peers : net[p] = <<>> /\ DOMAIN net[p] = {} /\ asked[p] = <<>> /\ DOMAIN asked[p] = {}
  BY DEF Init
<1>4. ASSUME NEW p \in Peers, NEW n \in Numbers  PROVE SentBy(p, n)
  <2>1. /\ transfers[p][n] = None /\ slots[p][n] = "none"
        /\ transfers[Other(p)][Incoming + n] = None /\ slots[Other(p)][Incoming + n] = "none"
    BY <1>2, FileNumber DEF Init
  <2>2. /\ NoRequest(net[Other(p)], n) /\ NoData(net[Other(p)], n) /\ NoEnd(net[Other(p)], n)
        /\ NoAccept(net[p], n) /\ NoReceipt(net[p], n)
    BY <1>2, <1>3 DEF NoRequest, NoData, NoEnd, NoAccept, NoReceipt
  <2>. QED  BY <2>1, <2>2 DEF SentBy, Pair, Idle, Over
<1>5. PeerInv /\ ReceiverInv
  BY <1>3, FileNumber DEF Init, PeerInv, ReceiverInv
<1>6. IdInv
  BY <1>2, FileNumber DEF Init, IdInv
<1>7. RequestInv
  BY <1>3, FileNumber DEF Init, RequestInv, RequestsCurrent, DataOnlyOutgoing
<1>. QED  BY <1>1, <1>4, <1>5, <1>6, <1>7 DEF TransferInv, PairInv

LEMMA TransfersAgree ==
  ASSUME Allowed \subseteq Tolerated
  PROVE  Spec => []TransferInv
<1>1. TransferInv /\ [Next]_vars => TransferInv'
  BY TransferStep
<1>. QED  BY <1>1, TransferStarts, PTL DEF Spec

\* What is known of an entry.
LEMMA EntryKnown ==
  ASSUME TransferInv, NEW p \in Peers, NEW fn \in FileNumbers
  PROVE  /\ transfers[p][fn] # None <=> slots[p][fn] # "none"
         /\ transfers[p][fn] # None => transfers[p][fn].position <= transfers[p][fn].file_size
         /\ fn < Incoming /\ transfers[p][fn] # None /\ transfers[p][fn].state = "RUNNING" =>
              transfers[p][fn].id \in resumed[Other(p)]
<1>0. TypeOK
  BY DEF TransferInv
<1> DEFINE t == transfers[p][fn]
<1>1. CASE fn < Incoming
  <2>1. fn \in Numbers /\ SentBy(p, fn)
    BY <1>1, FileNumberIs, PairsOf DEF TransferInv
  <2>2. t # None <=> slots[p][fn] # "none"
    BY <2>1 DEF SentBy, Pair, Idle, Offered, Paused, Announced, Sending, Ended, Running
  <2>3. t # None => t.file_size \in Nat
    BY <1>0, <2>1, Entries, InTransfer
  <2>4. t # None => t.position <= t.file_size
    BY <2>1, <2>3 DEF SentBy, Pair, Idle, Offered, Paused, Announced, Sending, Ended, Running
  <2>5. t # None /\ t.state = "RUNNING" => t.id \in resumed[Other(p)]
    BY <2>1 DEF SentBy, Pair, Idle, Offered, Paused, Announced, Sending, Ended, Running
  <2>. QED  BY <2>2, <2>4, <2>5
<1>2. CASE ~(fn < Incoming)
  <2>1. PICK n \in Numbers : fn = Incoming + n /\ ReceivedBy(p, n)
    BY <1>2, FileNumberIs, PairsOf DEF TransferInv
  <2>2. t # None <=> slots[p][fn] # "none"
    BY <2>1 DEF ReceivedBy, Pair, Idle, Offered, Over, Announced, Agree, Sending, Ended
  <2>3. /\ t # None => t.file_size \in Nat /\ t.position \in Nat
        /\ transfers[Other(p)][n] # None =>
             transfers[Other(p)][n].position \in Nat /\ transfers[Other(p)][n].file_size \in Nat
    BY <1>0, <2>1, Entries, InTransfer
  <2>4. ASSUME t # None  PROVE t.position <= t.file_size
    <3> DEFINE a == transfers[Other(p)][n]
    <3>1. \/ t.position = t.file_size \/ t.position = 0
          \/ /\ a # None /\ t.file_size = a.file_size
             /\ t.position <= a.position /\ a.position <= a.file_size
      BY <2>1, <2>4 DEF ReceivedBy, Pair, Idle, Offered, Over, Announced, Agree, Sending,
                        Running, Chain, Ended
    <3> HIDE DEF t, a
    <3>2. t.file_size \in Nat /\ t.position \in Nat
      BY <2>3, <2>4
    <3>3. a # None => a.position \in Nat /\ a.file_size \in Nat
      BY <2>3 DEF a
    <3>. QED  BY ONLY <3>1, <3>2, <3>3
  <2>. QED  BY <1>2, <2>2, <2>4
<1>. QED  BY <1>1, <1>2

-----------------------------------------------------------------------------
(* Whatever else the clients do: which packets there are, what the map has *)
(* an entry for, and whom chunks are asked of.                             *)

\* Only clients that do so send a pause, or accept what they send themselves.
Made(m) ==
  m.type = "control" =>
    /\ m.control = "PAUSE" => "pause" \in Allowed
    /\ m.control = "ACCEPT" /\ m.receive_send = 0 => "resume-any" \in Allowed

PacketInv == \A p \in Peers : \A i \in DOMAIN net[p] : Made(net[p][i])

LEMMA PacketsSent ==
  ASSUME TypeOK, PacketInv, NEW p \in Peers, NEW packets \in Seq(Packets),
         \A i \in DOMAIN packets : Made(packets[i]),
         Send(p, packets) \/ (net[p] # <<>> /\ Answer(p, packets))
  PROVE  PacketInv'
<1> DEFINE q == Other(p)
<1>1. q \in Peers /\ q # p /\ \A r \in Peers : r = p \/ r = q
  BY TwoPeers
<1>2. net[p] \in Seq(Packets) /\ net[q] \in Seq(Packets)
  BY <1>1 DEF TypeOK
<1>3. /\ net'[q] = net[q] \o packets
      /\ net'[p] = net[p] \/ (net[p] # <<>> /\ net'[p] = Tail(net[p]))
  BY <1>1 DEF TypeOK, Send, Answer
<1>4. \A i \in DOMAIN net'[p] : Made(net'[p][i])
  <2>1. CASE net'[p] = net[p]
    BY <2>1 DEF PacketInv
  <2>2. CASE net[p] # <<>> /\ net'[p] = Tail(net[p])
    BY <1>2, <2>2, InTail DEF PacketInv
  <2>. QED  BY <1>3, <2>1, <2>2
<1>5. \A i \in DOMAIN net'[q] : Made(net'[q][i])
  <2>1. \A i \in DOMAIN net[q] : Made(net[q][i])
    BY <1>1 DEF PacketInv
  <2> HIDE DEF q
  <2>2. ASSUME NEW i \in DOMAIN (net[q] \o packets)
        PROVE  \/ i \in DOMAIN net[q] /\ (net[q] \o packets)[i] = net[q][i]
               \/ \E k \in DOMAIN packets : (net[q] \o packets)[i] = packets[k]
    <3>1. /\ Len(net[q] \o packets) = Len(net[q]) + Len(packets)
          /\ net[q] \o packets \in Seq(Packets)
          /\ \A k \in 1..(Len(net[q]) + Len(packets)) :
               (net[q] \o packets)[k]
                 = IF k <= Len(net[q]) THEN net[q][k] ELSE packets[k - Len(net[q])]
      BY <1>2, ConcatProperties
    <3>2. Len(net[q]) \in Nat /\ Len(packets) \in Nat /\ i \in 1..(Len(net[q]) + Len(packets))
      BY <1>2, <2>2, <3>1
    <3>3. CASE i <= Len(net[q])
      <4>1. i \in DOMAIN net[q]
        BY <1>2, <3>2, <3>3
      <4>. QED  BY <3>1, <3>2, <3>3, <4>1
    <3>4. CASE ~(i <= Len(net[q]))
      <4>1. i - Len(net[q]) \in DOMAIN packets
        BY <3>2, <3>4
      <4>. QED  BY <3>1, <3>2, <3>4, <4>1
    <3>. QED  BY <3>3, <3>4
  <2>. QED  BY <1>3, <2>1, <2>2
<1>. QED  BY <1>1, <1>4, <1>5 DEF PacketInv

LEMMA PacketStep ==
  ASSUME TypeOK, PacketInv, [Next]_vars
  PROVE  PacketInv'
<1>0. /\ <<>> \in Seq(Packets) /\ DOMAIN <<>> = {}
      /\ \A m \in Packets : <<m>> \in Seq(Packets) /\ DOMAIN <<m>> = {1} /\ <<m>>[1] = m
  OBVIOUS
<1>1. ASSUME UNCHANGED net  PROVE PacketInv'
  BY <1>1 DEF PacketInv
<1>2. ASSUME NEW p \in Peers, NEW packets \in Seq(Packets),
             \A i \in DOMAIN packets : Made(packets[i]),
             Send(p, packets) \/ (net[p] # <<>> /\ Answer(p, packets))
      PROVE  PacketInv'
  BY <1>2, PacketsSent
<1>13. ASSUME NEW p \in Peers, NEW m \in Packets, Made(m), Send(p, <<m>>)  PROVE PacketInv'
  BY <1>0, <1>2, <1>13
<1>14. ASSUME NEW p \in Peers, Send(p, <<>>)  PROVE PacketInv'
  BY <1>0, <1>2, <1>14
<1>3. \A fn \in FileNumbers : Control(fn, "FINISHED") \in Packets /\ Made(Control(fn, "FINISHED"))
  BY ControlTypes DEF Made, Control
<1>4. ASSUME NEW p \in Peers, net[p] # <<>>, Answer(p, <<>>)  PROVE PacketInv'
  BY <1>0, <1>2, <1>4
<1>5. ASSUME NEW p \in Peers, Receives(p)  PROVE PacketInv'
  <2>1. ASSUME NEW cause \in Garbage, FileSendRequest(p, cause)  PROVE PacketInv'
    BY <1>4, <2>1 DEF FileSendRequest, Arrives, Abort
  <2>2. ASSUME FileControlled(p)  PROVE PacketInv'
    BY <1>4, <2>2 DEF FileControlled, Arrives, Abort, Ignore
  <2>3. ASSUME FileData(p)  PROVE PacketInv'
    <3>1. PICK packets : /\ Answer(p, packets) /\ net[p] # <<>>
                         /\ \/ packets = <<>>
                            \/ packets = <<Control(Incoming + Head(net[p]).number, "FINISHED")>>
      BY <2>3 DEF FileData, Arrives, Abort, Ignore, Acknowledge
    <3>2. Incoming + Head(net[p]).number \in FileNumbers
      <4>1. Head(net[p]) \in Packets
        BY <3>1 DEF TypeOK
      <4>. QED  BY <4>1, PacketsFor, FileNumber
    <3>3. packets \in Seq(Packets) /\ \A i \in DOMAIN packets : Made(packets[i])
      BY <1>0, <1>3, <3>1, <3>2
    <3>. QED  BY <1>2, <3>1, <3>3
  <2>. QED  BY <1>5, <2>1, <2>2, <2>3 DEF Receives
<1>6. ASSUME NEW p \in Peers, Asks(p)  PROVE PacketInv'
  BY <1>1, <1>6 DEF Asks, IterationReturns, AskChunk
<1>7. ASSUME NEW p \in Peers, NEW i \in DOMAIN asked[p],
             NEW length \in ChunkLengths(asked[p][i]), SendChunk(p, i, length)
      PROVE  PacketInv'
  <2> DEFINE r == asked[p][i]
             t == transfers[p][r.number]
             m == Data(t.id, OldFileNumber(r.number), r.position, length)
  <2>1. CASE UNCHANGED net
    BY <1>1, <2>1
  <2>2. CASE ~UNCHANGED net
    <3>1. /\ t # None /\ length > 0
          /\ \/ Send(p, <<m>> \o SendControl(p, r.number, "FINISHED"))
             \/ Send(p, <<m>> \o <<>>)
      BY <1>7, <2>2 DEF SendChunk
    <3>2. /\ r.number \in FileNumbers /\ r.position \in 0..(WordSize - 1)
          /\ r.length \in 1..DataSize
      <4>1. r \in Requests
        BY RequestsAre
      <4>. QED  BY <4>1 DEF Requests
    <3>3. m \in Packets
      <4>1. t \in Transfers
        BY <3>1, <3>2 DEF TypeOK
      <4>2. length \in 1..DataSize
        <5>1. length \in 0..DataSize
          BY <3>2, TransfersAssumption DEF ChunkLengths
        <5>. QED  BY <3>1, <5>1, TransfersAssumption
      <4>3. OldFileNumber(r.number) \in Numbers /\ t.id \in Ids
        BY <3>2, <4>1, FileNumberIs DEF Transfers
      <4>. QED  BY <3>2, <4>2, <4>3 DEF Data, Packets
    <3>4. Made(m)
      BY DEF Made, Data
    <3>5. PICK fin \in Packets : fin = Control(r.number, "FINISHED") /\ Made(fin)
      BY <1>3, <3>2
    <3>6. /\ SendControl(p, r.number, "FINISHED") = <<>>
             \/ SendControl(p, r.number, "FINISHED") = <<fin>>
      BY <3>5 DEF SendControl
    <3> HIDE DEF m
    <3>7. Send(p, <<m>> \o <<>>) \/ Send(p, <<m>> \o <<fin>>)
      BY <3>1, <3>6
    <3>8. <<m>> \o <<>> = <<m>> /\ <<m>> \o <<fin>> = Append(<<m>>, fin)
      BY <1>0, <3>3, <3>5, Concat
    <3>9. /\ Append(<<m>>, fin) \in Seq(Packets)
          /\ \A k \in DOMAIN Append(<<m>>, fin) : Made(Append(<<m>>, fin)[k])
      BY <3>3, <3>4, <3>5
    <3>10. <<m>> \in Seq(Packets) /\ \A k \in DOMAIN <<m>> : Made(<<m>>[k])
      BY <1>0, <3>3, <3>4
    <3>. QED  BY <1>2, <3>7, <3>8, <3>9, <3>10
  <2>. QED  BY <2>1, <2>2
<1>8. ASSUME NEW p \in Peers, NEW n \in Numbers, NEW size \in Sizes, NEW cause \in Garbage,
             FileSend(p, n, size, cause)
      PROVE  PacketInv'
  <2>1. PICK m : m = Request(<<p, sends[p] + 1>>, n, size) /\ Send(p, <<m>>)
    BY <1>8 DEF FileSend
  <2>2. m \in Packets
    <3>1. <<p, sends[p] + 1>> \in Ids
      BY <1>8, NewId DEF FileSend, TypeOK
    <3>. QED  BY <2>1, <3>1 DEF Request, Packets
  <2>3. Made(m)
    BY <2>1 DEF Made, Request
  <2>. QED  BY <1>13, <2>1, <2>2, <2>3
<1>9. ASSUME NEW p \in Peers, NEW fn \in FileNumbers, Calls(p, fn)  PROVE PacketInv'
  <2>1. PICK c \in {"ACCEPT", "PAUSE"} :
          /\ Send(p, SendControl(p, fn, c))
          /\ c = "PAUSE" => "pause" \in Allowed
          /\ c = "ACCEPT" => "resume-any" \in Allowed \/ ~(fn < Incoming)
    <3>1. fn >= Incoming => ~(fn < Incoming)
      BY FileNumberIs DEF Incoming
    <3>. QED  BY <1>9, <3>1 DEF Calls, Resume, MayResume, Pause
  <2>2. PICK m \in Packets : m = Control(fn, c)
    BY ControlTypes
  <2>3. Made(m)
    BY <2>1, <2>2, FileNumberIs DEF Made, Control
  <2>4. SendControl(p, fn, c) = <<>> \/ SendControl(p, fn, c) = <<m>>
    BY <2>2 DEF SendControl
  <2>5. CASE SendControl(p, fn, c) = <<>>
    BY <1>14, <2>1, <2>5
  <2>6. CASE SendControl(p, fn, c) = <<m>>
    BY <1>13, <2>1, <2>3, <2>6
  <2>. QED  BY <2>4, <2>5, <2>6
<1>10. ASSUME NEW p \in Peers, FriendDelete(p)  PROVE PacketInv'
  BY <1>1, <1>10 DEF FriendDelete
<1>11. ASSUME NEW p \in Peers, FriendAdd(p)  PROVE PacketInv'
  <2>1. \A q \in Peers : net'[q] = net[q] \/ net'[q] = <<>>
    BY <1>11 DEF FriendAdd, TypeOK
  <2>. QED  BY <1>0, <2>1 DEF PacketInv
<1>12. CASE UNCHANGED vars
  BY <1>1, <1>12 DEF vars
<1>. QED  BY <1>5, <1>6, <1>7, <1>8, <1>9, <1>10, <1>11, <1>12 DEF Next, Answers, Offers

LEMMA PacketsStart == Init => PacketInv
BY DEF Init, PacketInv

\* A packet fails no assertion, unless it asks for a pause.
LEMMA NoAssertion ==
  ASSUME TransferInv, NEW p \in Peers
  PROVE  /\ \A cause \in Garbage : FileSendRequest(p, cause) => UNCHANGED aborted
         /\ FileData(p) => UNCHANGED aborted
         /\ FileControlled(p) /\ ~IsPause(Head(net[p])) => UNCHANGED aborted
<1>0. TypeOK /\ \A fn \in FileNumbers : transfers[p][fn] # None <=> slots[p][fn] # "none"
  BY EntryKnown DEF TransferInv
<1>m. PICK m : m = Head(net[p])
  OBVIOUS
<1>1. net[p] # <<>> => /\ m \in Packets /\ m.number \in Numbers
                       /\ ReceivedBy(p, m.number)
  BY <1>m, Arrived
<1>2. ASSUME NEW cause \in Garbage, FileSendRequest(p, cause)  PROVE UNCHANGED aborted
  <2>1. IsRequest(m, m.number) /\ net[p] # <<>>
    BY <1>2, <1>m DEF FileSendRequest, Arrives, IsRequest
  <2>a. PICK a, b, sa, sb, F, B, heard :
          /\ a = transfers[Other(p)][m.number] /\ b = transfers[p][Incoming + m.number]
          /\ sa = slots[Other(p)][m.number] /\ sb = slots[p][Incoming + m.number]
          /\ F = net[p] /\ B = net[Other(p)] /\ heard = resumed[p]
    OBVIOUS
  <2>2. Pair(a, sa, b, sb, F, B, heard, m.number)
    BY <1>1, <2>1, <2>a DEF ReceivedBy
  <2>3. /\ a \in Transfers \cup {None} /\ b \in Transfers \cup {None}
        /\ F \in Seq(Packets) /\ B \in Seq(Packets) /\ F # <<>> /\ Head(F) = m
    BY <1>0, <1>1, <1>m, <2>1, <2>a, Entries
  <2>4. b = None
    BY <1>1, <1>2, <2>1, <2>2, <2>3, RequestArrives
  <2>. QED  BY <1>2, <1>m, <2>4, <2>a DEF FileSendRequest
<1>3. ASSUME FileData(p)  PROVE UNCHANGED aborted
  <2>1. net[p] # <<>>
    BY <1>3 DEF FileData, Arrives
  <2>2. ~(slots[p][Incoming + m.number] = "accepted" /\ transfers[p][Incoming + m.number] = None)
    BY <1>0, <1>1, <2>1, FileNumber
  <2>. QED  BY <1>3, <1>m, <2>2 DEF FileData, Ignore
<1>4. ASSUME FileControlled(p), ~IsPause(Head(net[p]))  PROVE UNCHANGED aborted
  <2>1. m.type = "control" /\ m.control # "PAUSE" /\ net[p] # <<>>
    BY <1>4, <1>m DEF FileControlled, Arrives, IsPause
  <2>2. NewFileNumber(m.receive_send, m.number) \in FileNumbers
    BY <1>1, <2>1, FileNumber DEF NewFileNumber
  <2>3. ~(/\ slots[p][NewFileNumber(m.receive_send, m.number)] # "none"
          /\ transfers[p][NewFileNumber(m.receive_send, m.number)] = None)
    BY <1>0, <2>2
  <2>. QED  BY <1>4, <1>m, <2>1, <2>3 DEF FileControlled, Ignore
<1>. QED  BY <1>2, <1>3, <1>4

\* No step fails an assertion.
LEMMA AliveStep ==
  ASSUME Allowed = {}, TransferInv, PacketInv, NoAbort, [Next]_vars
  PROVE  NoAbort'
<1>0. TypeOK /\ \A p \in Peers, fn \in FileNumbers : transfers[p][fn] # None <=> slots[p][fn] # "none"
  BY EntryKnown DEF TransferInv
<1>1. ASSUME UNCHANGED aborted  PROVE NoAbort'
  BY <1>1 DEF NoAbort, Alive
<1>2. ASSUME NEW p \in Peers, Receives(p)  PROVE NoAbort'
  <2>1. ~IsPause(Head(net[p]))
    <3>1. net[p] # <<>>
      BY <1>2 DEF Receives, FileSendRequest, FileData, FileControlled, Arrives
    <3>2. 1 \in DOMAIN net[p] /\ net[p][1] = Head(net[p])
      BY <1>0, <3>1 DEF TypeOK
    <3>. QED  BY <3>2 DEF PacketInv, Made, IsPause
  <2>. QED  BY <1>1, <1>2, <2>1, NoAssertion DEF Receives
<1>3. ASSUME NEW p \in Peers, Asks(p)  PROVE NoAbort'
  BY <1>1, <1>3 DEF Asks, IterationReturns, AskChunk
<1>4. ASSUME NEW p \in Peers, NEW i \in DOMAIN asked[p],
             NEW length \in ChunkLengths(asked[p][i]), SendChunk(p, i, length)
      PROVE  NoAbort'
  <2>n. PICK n \in FileNumbers : n = asked[p][i].number
    BY <1>0, RequestsAre
  <2>t. PICK t : t = transfers[p][n]
    OBVIOUS
  <2>1. t # None /\ t.event_pending /\ n < Incoming /\ n \in Numbers /\ OldFileNumber(n) = n
    BY <2>n, <2>t, FileNumberIs DEF TransferInv, RequestInv, RequestsCurrent, DataOnlyOutgoing
  <2>2. length > 0
    <3>1. length \in 1..asked[p][i].length
      BY DEF ChunkLengths
    <3>2. asked[p][i].length \in Nat
      BY <1>0, RequestsAre
    <3>. QED  BY <3>1, <3>2
  <2>3. slots[p][n] = "accepted"
    <3>1. SentBy(p, n) /\ t.state = "RUNNING"
      BY <2>1, <2>t, PairsOf DEF TransferInv, RequestInv
    <3>. QED  BY <2>1, <2>t, <3>1
             DEF SentBy, Pair, Idle, Offered, Paused, Announced, Sending, Ended, Running
  <2>4. ~SendFails(p, asked[p][i], length)
    BY <1>0, <2>1, <2>2, <2>3, <2>n, RequestsAre DEF SendFails
  <2>5. aborted' = aborted \/ aborted' = [aborted EXCEPT ![p] = FALSE]
    BY <1>4, <2>1, <2>3, <2>4, <2>n, <2>t DEF SendChunk
  <2>. QED  BY <1>0, <2>5 DEF NoAbort, Alive, TypeOK
<1>5. ASSUME NEW p \in Peers, NEW n \in Numbers, NEW size \in Sizes, NEW cause \in Garbage,
             FileSend(p, n, size, cause)
      PROVE  NoAbort'
  <2>1. transfers[p][n] = None
    BY <1>0, <1>5, FileNumber DEF FileSend
  <2>. QED  BY <1>1, <1>5, <2>1 DEF FileSend
<1>6. ASSUME NEW p \in Peers, NEW fn \in FileNumbers, Calls(p, fn)  PROVE NoAbort'
  BY <1>1, <1>6 DEF Calls, Resume, Pause
<1>7. ASSUME NEW p \in Peers, FriendDelete(p) \/ FriendAdd(p)  PROVE NoAbort'
  BY <1>1, <1>7 DEF FriendDelete, FriendAdd
<1>8. CASE UNCHANGED vars
  BY <1>1, <1>8 DEF vars
<1>. QED  BY <1>2, <1>3, <1>4, <1>5, <1>6, <1>7, <1>8 DEF Next, Answers, Offers

\* No assertion of the wrapper fails: callbacks find the transfer they are about, new
\* transfers find their number free, although numbers are reused, and toxcore accepts
\* every chunk.  This takes clients that do nothing beyond the usual, and a queue of
\* toxcore's that is never full.
THEOREM FilesNoAbort ==
  ASSUME Allowed = {}
  PROVE  Spec => []NoAbort
<1> DEFINE I == TransferInv /\ PacketInv /\ NoAbort
<1>1. Init => I
  <2>1. Init => NoAbort
    BY DEF Init, NoAbort, Alive
  <2>. QED  BY <2>1, TransferStarts, PacketsStart
<1>2. I /\ [Next]_vars => I'
  BY TransferStep, PacketStep, AliveStep DEF TransferInv
<1>. QED  BY <1>1, <1>2, PTL DEF Spec

\* One entry, and what toxcore knows of that number, become these.
LEMMA MirrorKept ==
  ASSUME TypeOK, MapMirrors, NEW p \in Peers, Alive(p), NEW fn \in FileNumbers, NEW t, NEW x,
         transfers' = [transfers EXCEPT ![p][fn] = t], slots' = [slots EXCEPT ![p][fn] = x],
         \/ t = None /\ x = "none"
         \/ t # None /\ x # "none",
         \A q \in Peers : q # p => aborted'[q] = aborted[q]
  PROVE  MapMirrors'
<1>1. /\ transfers \in [Peers -> [FileNumbers -> Transfers \cup {None}]]
      /\ slots \in [Peers -> [FileNumbers -> {"none", "offered", "accepted"}]]
  BY DEF TypeOK
<1>2. /\ transfers'[p][fn] = t
      /\ \A q \in Peers, k \in FileNumbers : q # p \/ k # fn => transfers'[q][k] = transfers[q][k]
  BY ONLY <1>1, Changed, p \in Peers, fn \in FileNumbers,
          transfers' = [transfers EXCEPT ![p][fn] = t]
<1>3. /\ slots'[p][fn] = x
      /\ \A q \in Peers, k \in FileNumbers : q # p \/ k # fn => slots'[q][k] = slots[q][k]
  BY ONLY <1>1, Changed, p \in Peers, fn \in FileNumbers, slots' = [slots EXCEPT ![p][fn] = x]
<1>. QED  BY <1>2, <1>3 DEF MapMirrors, Alive

LEMMA MirrorStep ==
  ASSUME "delete" \notin Allowed, TypeOK, MapMirrors, [Next]_vars
  PROVE  MapMirrors'
<1>0. /\ transfers \in [Peers -> [FileNumbers -> Transfers \cup {None}]]
      /\ slots \in [Peers -> [FileNumbers -> {"none", "offered", "accepted"}]]
      /\ aborted \in [Peers -> BOOLEAN] /\ net \in [Peers -> Seq(Packets)]
  BY DEF TypeOK
<1>1. ASSUME NEW p \in Peers, Alive(p), UNCHANGED <<transfers, slots>>,
             \A q \in Peers : q # p => aborted'[q] = aborted[q]
      PROVE  MapMirrors'
  BY <1>1 DEF MapMirrors, Alive
<1>2. ASSUME NEW p \in Peers, NEW fn \in FileNumbers, NEW t, NEW x,
             Alive(p), transfers' = [transfers EXCEPT ![p][fn] = t],
             slots' = [slots EXCEPT ![p][fn] = x],
             \/ t = None /\ x = "none"
             \/ t # None /\ x # "none",
             \A q \in Peers : q # p => aborted'[q] = aborted[q]
      PROVE  MapMirrors'
  BY <1>2, MirrorKept
<1>3. \A t : t \in Transfers => t # None
  BY NoneAssumption
<1>4. ASSUME NEW p \in Peers, NEW cause \in Garbage, FileSendRequest(p, cause)
      PROVE  MapMirrors'
  <2>m. PICK m : m = Head(net[p])
    OBVIOUS
  <2>1. Alive(p) /\ m \in Packets /\ m.type = "request"
    BY <1>0, <1>4, <2>m DEF FileSendRequest, Arrives
  <2>2. Incoming + m.number \in FileNumbers /\ Transfer(m.id, m.size, cause) # None
    <3>1. m.number \in Numbers /\ m.id \in Ids /\ m.size \in Sizes
      BY <2>1 DEF Packets
    <3>. QED  BY <1>3, <3>1, FileNumber, TransferMade
  <2>3. CASE Abort(p)
    BY <1>0, <1>1, <2>1, <2>3 DEF Abort
  <2>4. CASE ~Abort(p)
    <3>n. PICK fn \in FileNumbers : fn = Incoming + m.number
      BY <2>2
    <3>1. /\ transfers' = [transfers EXCEPT ![p][fn] = Transfer(m.id, m.size, cause)]
          /\ slots' = [slots EXCEPT ![p][fn] = "offered"] /\ UNCHANGED aborted
      BY <1>4, <2>4, <2>m, <3>n DEF FileSendRequest
    <3>2. "offered" # "none"
      OBVIOUS
    <3>. QED  BY <1>2, <2>1, <2>2, <3>1, <3>2
  <2>. QED  BY <2>3, <2>4
<1>5. ASSUME NEW p \in Peers, FileData(p)  PROVE MapMirrors'
  <2>m. PICK m : m = Head(net[p])
    OBVIOUS
  <2>f. PICK fn : fn = Incoming + m.number
    OBVIOUS
  <2>1. Alive(p) /\ m \in Packets
    BY <1>0, <1>5, <2>m DEF FileData, Arrives
  <2>2. fn \in FileNumbers
    BY <2>1, <2>f, PacketsFor, FileNumber
  <2>3. CASE Abort(p) \/ Ignore(p)
    BY <1>0, <1>1, <2>1, <2>3 DEF Abort, Ignore
  <2>4. CASE ~(Abort(p) \/ Ignore(p))
    <3>1. /\ transfers[p][fn] # None /\ Received(p, fn, m.length)
          /\ slots[p][fn] = "accepted" /\ UNCHANGED <<slots, aborted>>
      BY <1>5, <2>4, <2>f, <2>m DEF FileData
    <3>2. \A q \in Peers, k \in FileNumbers : transfers'[q][k] # None <=> transfers[q][k] # None
      <4>t. PICK t \in Transfers : t = transfers[p][fn]
        BY <1>0, <2>2, <3>1
      <4>u. PICK u : u = [t EXCEPT !.position = (@ + m.length) % WordSize]
        OBVIOUS
      <4>1. u # None
        <5>1. m.length \in 0..DataSize
          BY <1>5, <2>1, <2>m, TransfersAssumption DEF FileData, Arrives, Packets
        <5>. QED  BY <1>3, <4>u, <5>1, TransferTypes
      <4>2. transfers' = [transfers EXCEPT ![p][fn] = u]
        BY <3>1, <4>t, <4>u DEF Received
      <4>. QED  BY <1>0, <2>2, <3>1, <4>1, <4>2, Changed
    <3>. QED  BY <3>1, <3>2 DEF MapMirrors, Alive
  <2>. QED  BY <2>3, <2>4
<1>6. ASSUME NEW p \in Peers, FileControlled(p)  PROVE MapMirrors'
  <2>m. PICK m : m = Head(net[p])
    OBVIOUS
  <2>f. PICK fn : fn = NewFileNumber(m.receive_send, m.number)
    OBVIOUS
  <2>1. Alive(p) /\ m \in Packets
    BY <1>0, <1>6, <2>m DEF FileControlled, Arrives
  <2>2. fn \in FileNumbers
    BY <2>1, <2>f, PacketsFor, FileNumber DEF NewFileNumber
  <2>3. CASE Abort(p) \/ Ignore(p)
    BY <1>0, <1>1, <2>1, <2>3 DEF Abort, Ignore
  <2>4. CASE Forget(p, fn) /\ UNCHANGED aborted
    BY <1>2, <2>1, <2>2, <2>4 DEF Forget
  <2>5. ASSUME slots[p][fn] # "none", transfers[p][fn] # None, UNCHANGED aborted,
               transfers' = [transfers EXCEPT ![p][fn].state = "RUNNING"],
               slots' = [slots EXCEPT ![p][fn] = IF m.receive_send = 1 THEN "accepted" ELSE @]
        PROVE  MapMirrors'
    <3>t. PICK t \in Transfers : t = transfers[p][fn]
      BY <1>0, <2>2, <2>5
    <3>u. PICK u : u = [t EXCEPT !.state = "RUNNING"]
      OBVIOUS
    <3>x. PICK x : x = IF m.receive_send = 1 THEN "accepted" ELSE slots[p][fn]
      OBVIOUS
    <3>1. u # None /\ x # "none"
      BY <1>3, <2>5, <3>u, <3>x, TransferTypes
    <3>2. transfers' = [transfers EXCEPT ![p][fn] = u]
      BY <2>5, <3>t, <3>u
    <3>3. slots' = [slots EXCEPT ![p][fn] = x]
      BY <1>0, <2>2, <2>5, <3>x
    <3>4. \A q \in Peers : q # p => aborted'[q] = aborted[q]
      BY <2>5
    <3>. QED  BY <1>2, <2>1, <2>2, <3>1, <3>2, <3>3, <3>4
  <2>. QED  BY <1>6, <2>3, <2>4, <2>5, <2>f, <2>m DEF FileControlled
<1>7. ASSUME NEW p \in Peers, NEW fn \in FileNumbers, AskChunk(p, fn)  PROVE MapMirrors'
  <2>t. PICK t \in Transfers : t = transfers[p][fn]
    BY <1>0, <1>7 DEF AskChunk, Wants
  <2>1. Asked(t) # None
    BY <1>3, TransferTypes DEF Asked
  <2>2. transfers' = [transfers EXCEPT ![p][fn] = Asked(t)] /\ UNCHANGED <<slots, aborted>>
    BY <1>7, <2>t DEF AskChunk
  <2>3. transfers[p][fn] # None
    BY <1>3, <2>t
  <2>4. \A q \in Peers, k \in FileNumbers : transfers'[q][k] # None <=> transfers[q][k] # None
    BY <1>0, <2>1, <2>2, <2>3, Changed
  <2>. QED  BY <2>2, <2>4 DEF MapMirrors, Alive
<1>8. ASSUME NEW p \in Peers, NEW i \in DOMAIN asked[p],
             NEW length \in ChunkLengths(asked[p][i]), SendChunk(p, i, length)
      PROVE  MapMirrors'
  <2>0. /\ Alive(p) /\ UNCHANGED slots
        /\ \/ aborted' = aborted \/ \E y : aborted' = [aborted EXCEPT ![p] = y]
    BY <1>8 DEF SendChunk, AtRest
  <2>1. \A q \in Peers : q # p => aborted'[q] = aborted[q]
    BY <1>0, <2>0
  <2>2. CASE UNCHANGED transfers
    BY <1>1, <2>0, <2>1, <2>2
  <2>3. CASE ~UNCHANGED transfers
    <3>r. PICK r \in Requests : r = asked[p][i]
      BY RequestsAre
    <3>f. PICK fn \in FileNumbers : fn = r.number
      BY DEF Requests
    <3>1. /\ transfers[p][fn] # None
          /\ transfers' = [transfers EXCEPT
               ![p][fn].position = (transfers[p][fn].position + length) % WordSize,
               ![p][fn].event_pending = FALSE]
      BY <1>8, <2>3, <3>f, <3>r DEF SendChunk
    <3>t. PICK t \in Transfers : t = transfers[p][fn]
      BY <1>0, <3>1
    <3>u. PICK u : u = [t EXCEPT !.position = (t.position + length) % WordSize,
                                 !.event_pending = FALSE]
      OBVIOUS
    <3>2. u # None
      <4>1. r.length \in 1..DataSize /\ DataSize \in Nat
        BY TransfersAssumption DEF Requests
      <4>2. length \in 0..DataSize
        BY <3>r, <4>1 DEF ChunkLengths
      <4>. QED  BY <1>3, <3>u, <4>2, TransferTypes
    <3>3. transfers' = [transfers EXCEPT ![p][fn] = u]
      BY <1>0, <3>1, <3>t, <3>u
    <3>4. \A q \in Peers, k \in FileNumbers : transfers'[q][k] # None <=> transfers[q][k] # None
      <4>1. /\ transfers'[p][fn] = u
            /\ \A q \in Peers, k \in FileNumbers : q # p \/ k # fn =>
                 transfers'[q][k] = transfers[q][k]
        BY ONLY <1>0, <3>3, Changed, p \in Peers, fn \in FileNumbers
      <4>. QED  BY <3>1, <3>2, <4>1
    <3>. QED  BY <2>0, <2>1, <3>4 DEF MapMirrors, Alive
  <2>. QED  BY <2>2, <2>3
<1>9. ASSUME NEW p \in Peers, NEW n \in Numbers, NEW size \in Sizes, NEW cause \in Garbage,
             FileSend(p, n, size, cause)
      PROVE  MapMirrors'
  <2>1. Alive(p) /\ n \in FileNumbers /\ transfers[p][n] = None
    BY <1>9, FileNumber DEF FileSend, AtRest, MapMirrors
  <2>t. PICK t : t = Transfer(<<p, sends[p] + 1>>, size, cause)
    OBVIOUS
  <2>2. t # None
    <3>1. <<p, sends[p] + 1>> \in Ids
      BY <1>9, NewId DEF FileSend, TypeOK
    <3>. QED  BY <1>3, <2>t, <3>1, TransferMade
  <2>3. /\ transfers' = [transfers EXCEPT ![p][n] = t] /\ UNCHANGED aborted
        /\ slots' = [slots EXCEPT ![p][n] = "offered"]
    BY <1>9, <2>1, <2>t DEF FileSend
  <2>. QED  BY <1>2, <2>1, <2>2, <2>3
<1>10. ASSUME NEW p \in Peers, NEW fn \in FileNumbers, Resume(p, fn)  PROVE MapMirrors'
  <2>x. PICK x : x = IF slots[p][fn] = "offered" /\ fn >= Incoming THEN "accepted" ELSE slots[p][fn]
    OBVIOUS
  <2>1. /\ Alive(p) /\ transfers[p][fn] # None /\ UNCHANGED <<transfers, aborted>>
        /\ slots' = [slots EXCEPT ![p][fn] = IF @ = "offered" /\ fn >= Incoming THEN "accepted" ELSE @]
    BY <1>10 DEF Resume, Controls, AtRest
  <2>2. transfers' = [transfers EXCEPT ![p][fn] = transfers[p][fn]]
    BY <1>0, <2>1
  <2>3. slots' = [slots EXCEPT ![p][fn] = x]
    BY <1>0, <2>1, <2>x
  <2>4. x # "none"
    BY <2>1, <2>x DEF MapMirrors
  <2>. QED  BY <1>2, <2>1, <2>2, <2>3, <2>4
<1>11. ASSUME NEW p \in Peers, NEW fn \in FileNumbers, Pause(p, fn)  PROVE MapMirrors'
  BY <1>0, <1>1, <1>11 DEF Pause, Controls, AtRest
<1>12. ASSUME NEW p \in Peers, FriendAdd(p)  PROVE MapMirrors'
  BY <1>1, <1>12 DEF FriendAdd, AtRest
<1>13. ASSUME NEW p \in Peers, IterationReturns(p)  PROVE MapMirrors'
  BY <1>1, <1>13 DEF IterationReturns
<1>14. CASE UNCHANGED vars
  BY <1>14 DEF vars, MapMirrors, Alive
<1>15. \A p \in Peers : ~FriendDelete(p)
  BY DEF FriendDelete
<1>. QED  BY <1>4, <1>5, <1>6, <1>7, <1>8, <1>9, <1>10, <1>11, <1>12, <1>13, <1>14, <1>15
          DEF Next, Receives, Asks, Answers, Offers, Calls

\* The wrapper's map of transfers and toxcore's files never part, as long as no friend
\* is deleted: every other thing clients may do is allowed.
THEOREM FilesMapMirrors ==
  ASSUME "delete" \notin Allowed
  PROVE  Spec => []MapMirrors
<1> DEFINE I == TypeOK /\ MapMirrors
<1>1. Init => I
  <2>1. Init => MapMirrors
    BY DEF Init, MapMirrors
  <2>. QED  BY <2>1, TypeStarts
<1>2. I /\ [Next]_vars => I'
  BY TypeStep, MirrorStep
<1>. QED  BY <1>1, <1>2, PTL DEF Spec

\* Neither side goes past the end of a file, so that position = file_size, the only test
\* for the end, does hold at last, and file_size - position never wraps around.
THEOREM FilesNoOverrun ==
  ASSUME Allowed \subseteq Tolerated
  PROVE  Spec => []NoOverrun
<1>1. TransferInv => NoOverrun
  BY EntryKnown DEF NoOverrun
<1>. QED  BY <1>1, TransfersAgree, PTL

\* The client is told of every chunk where in the file it belongs, and of which file.
THEOREM FilesInOrder ==
  ASSUME Allowed \subseteq Tolerated
  PROVE  Spec => []InOrder
<1>1. ASSUME TransferInv, NEW p \in Peers, net[p] # <<>>, Head(net[p]).type = "data"
      PROVE  LET m == Head(net[p])
                 t == transfers[p][Incoming + m.number]
             IN t # None /\ t.id = m.id /\ t.position = m.at
  <2>0. TypeOK
    BY <1>1 DEF TransferInv
  <2> DEFINE F == net[p]
             B == net[Other(p)]
             n == Head(F).number
             a == transfers[Other(p)][n]
             b == transfers[p][Incoming + n]
             sa == slots[Other(p)][n]
             sb == slots[p][Incoming + n]
             heard == resumed[p]
  <2>1. Pair(a, sa, b, sb, F, B, heard, n) /\ n \in Numbers
    BY <1>1, Arrived DEF ReceivedBy
  <2>2. /\ a \in Transfers \cup {None} /\ b \in Transfers \cup {None}
        /\ F \in Seq(Packets) /\ B \in Seq(Packets) /\ F # <<>> /\ IsData(Head(F), n)
    BY <1>1, <2>0, <2>1, Entries DEF IsData
  <2> HIDE DEF F, B, n, a, b, sa, sb, heard
  <2>3. b # None /\ Fits(b, Head(F))
    BY <2>1, <2>2, DataExpected
  <2>. QED  BY <2>3 DEF F, n, b, Fits
<1>2. TransferInv => InOrder
  BY <1>1 DEF InOrder
<1>. QED  BY <1>2, TransfersAgree, PTL

\* The wrapper never has a receiving side run.
LEMMA OutgoingStep ==
  ASSUME "resume-any" \notin Allowed, TypeOK, PacketInv, ReceiverInv, DataOnlyOutgoing,
         [Next]_vars
  PROVE  ReceiverInv' /\ DataOnlyOutgoing'
<1>0. /\ transfers \in [Peers -> [FileNumbers -> Transfers \cup {None}]]
      /\ net \in [Peers -> Seq(Packets)] /\ asked \in [Peers -> Seq(Requests)]
  BY DEF TypeOK
<1>1. ASSUME UNCHANGED asked  PROVE DataOnlyOutgoing'
  BY <1>1 DEF DataOnlyOutgoing
<1>2. ASSUME UNCHANGED transfers  PROVE ReceiverInv'
  BY <1>2 DEF ReceiverInv
<1>3. ASSUME NEW p \in Peers, NEW fn \in FileNumbers, NEW t,
             transfers' = [transfers EXCEPT ![p][fn] = t],
             \/ fn < Incoming \/ t = None
             \/ t.state = "PAUSED" /\ ~t.event_pending
      PROVE  ReceiverInv'
  <2>1. /\ transfers'[p][fn] = t
        /\ \A q \in Peers, k \in FileNumbers : q # p \/ k # fn => transfers'[q][k] = transfers[q][k]
    BY ONLY <1>0, <1>3, Changed
  <2>. QED  BY <1>3, <2>1, FileNumber DEF ReceiverInv
<1>4. ASSUME NEW p \in Peers, NEW cause \in Garbage, FileSendRequest(p, cause)
      PROVE  ReceiverInv' /\ UNCHANGED asked
  <2>m. PICK m : m = Head(net[p])
    OBVIOUS
  <2>1. m \in Packets /\ UNCHANGED asked
    BY <1>0, <1>4, <2>m DEF FileSendRequest, Arrives
  <2>2. Incoming + m.number \in FileNumbers
    BY <2>1, PacketsFor, FileNumber
  <2>t. PICK t : t = Transfer(m.id, m.size, cause)
    OBVIOUS
  <2>3. t.state = "PAUSED" /\ ~t.event_pending
    BY <2>t DEF Transfer
  <2>4. UNCHANGED transfers \/ transfers' = [transfers EXCEPT ![p][Incoming + m.number] = t]
    BY <1>4, <2>m, <2>t DEF FileSendRequest, Abort
  <2>. QED  BY <1>2, <1>3, <2>1, <2>2, <2>3, <2>4
<1>5. ASSUME NEW p \in Peers, FileData(p)  PROVE ReceiverInv' /\ UNCHANGED asked
  <2>m. PICK m : m = Head(net[p])
    OBVIOUS
  <2>1. m \in Packets /\ UNCHANGED asked
    BY <1>0, <1>5, <2>m DEF FileData, Arrives
  <2>2. m.number \in Numbers /\ Incoming + m.number \in FileNumbers
    BY <2>1, PacketsFor, FileNumber
  <2>3. CASE UNCHANGED transfers
    BY <1>2, <2>1, <2>3
  <2>4. CASE ~UNCHANGED transfers
    <3>1. /\ transfers[p][Incoming + m.number] # None
          /\ Received(p, Incoming + m.number, m.length)
      BY <1>5, <2>4, <2>m DEF FileData, Abort, Ignore
    <3>t. PICK t \in Transfers : t = transfers[p][Incoming + m.number]
      BY <1>0, <2>2, <3>1
    <3>u. PICK u : u = [t EXCEPT !.position = (@ + m.length) % WordSize]
      OBVIOUS
    <3>2. t.state = "PAUSED" /\ ~t.event_pending
      BY <2>2, <3>1, <3>t DEF ReceiverInv
    <3>3. u.state = "PAUSED" /\ ~u.event_pending
      BY <3>2, <3>u DEF Transfers
    <3>4. transfers' = [transfers EXCEPT ![p][Incoming + m.number] = u]
      BY <3>1, <3>t, <3>u DEF Received
    <3>. QED  BY <1>3, <2>1, <2>2, <3>3, <3>4
  <2>. QED  BY <2>3, <2>4
<1>6. ASSUME NEW p \in Peers, FileControlled(p)  PROVE ReceiverInv' /\ UNCHANGED asked
  <2>m. PICK m : m = Head(net[p])
    OBVIOUS
  <2>f. PICK fn : fn = NewFileNumber(m.receive_send, m.number)
    OBVIOUS
  <2>1. m \in Packets /\ m.type = "control" /\ Made(m) /\ UNCHANGED asked
    <3>1. m \in Packets /\ m.type = "control" /\ UNCHANGED asked /\ net[p] # <<>>
      BY <1>0, <1>6, <2>m DEF FileControlled, Arrives
    <3>2. 1 \in DOMAIN net[p] /\ net[p][1] = m
      BY <1>0, <2>m, <3>1
    <3>. QED  BY <3>1, <3>2 DEF PacketInv
  <2>2. m.number \in Numbers /\ fn \in FileNumbers /\ m.receive_send \in {0, 1}
    BY <2>1, <2>f, PacketsFor, FileNumber DEF NewFileNumber
  <2>3. CASE UNCHANGED transfers
    BY <1>2, <2>1, <2>3
  <2>4. CASE transfers' = [transfers EXCEPT ![p][fn] = None]
    BY <1>3, <2>1, <2>2, <2>4
  <2>5. ASSUME m.control = "ACCEPT", transfers' = [transfers EXCEPT ![p][fn].state = "RUNNING"]
        PROVE  ReceiverInv'
    <3>1. fn < Incoming
      BY <2>1, <2>2, <2>5, <2>f, FileNumber DEF Made
    <3>u. PICK u : u = [transfers[p][fn] EXCEPT !.state = "RUNNING"]
      OBVIOUS
    <3>2. transfers' = [transfers EXCEPT ![p][fn] = u]
      BY <1>0, <2>2, <2>5, <3>u
    <3>. QED  BY <1>3, <2>2, <3>1, <3>2
  <2>. QED  BY <1>6, <2>1, <2>3, <2>4, <2>5, <2>f, <2>m
           DEF FileControlled, Abort, Ignore, Forget
<1>7. ASSUME NEW p \in Peers, NEW fn \in FileNumbers, AskChunk(p, fn)
      PROVE  ReceiverInv' /\ DataOnlyOutgoing'
  <2>1. fn < Incoming
    <3>1. CASE ~(fn < Incoming)
      <4>1. fn = Incoming + OldFileNumber(fn) /\ OldFileNumber(fn) \in Numbers
        BY <3>1, FileNumberIs
      <4>2. transfers[p][fn] # None => transfers[p][fn].state = "PAUSED"
        BY <4>1 DEF ReceiverInv
      <4>. QED  BY <1>7, <4>2 DEF AskChunk, Wants
    <3>. QED  BY <3>1
  <2>u. PICK u : u = Asked(transfers[p][fn])
    OBVIOUS
  <2>2. transfers' = [transfers EXCEPT ![p][fn] = u]
    BY <1>7, <2>u DEF AskChunk
  <2>3. ReceiverInv'
    BY <1>3, <2>1, <2>2
  <2>r. PICK r : r = ChunkRequest(transfers[p][fn], fn)
    OBVIOUS
  <2>4. /\ asked' = [asked EXCEPT ![p] = Append(asked[p], r)] /\ r.number = fn /\ r \in Requests
    <3>1. transfers[p][fn] \in Transfers /\ Wants(transfers[p][fn])
      BY <1>0, <1>7 DEF AskChunk, Wants
    <3>. QED  BY <1>7, <2>r, <3>1, RequestTypes DEF AskChunk, ChunkRequest
  <2>5. \A i \in DOMAIN Append(asked[p], r) : Append(asked[p], r)[i].number < Incoming
    BY <1>0, <2>1, <2>4 DEF DataOnlyOutgoing
  <2>6. asked'[p] = Append(asked[p], r) /\ \A q \in Peers : q # p => asked'[q] = asked[q]
    BY <1>0, <2>4
  <2>7. DataOnlyOutgoing'
    BY <2>5, <2>6 DEF DataOnlyOutgoing
  <2>. QED  BY <2>3, <2>7
<1>8. ASSUME NEW p \in Peers, NEW i \in DOMAIN asked[p],
             NEW length \in ChunkLengths(asked[p][i]), SendChunk(p, i, length)
      PROVE  ReceiverInv' /\ DataOnlyOutgoing'
  <2>f. PICK fn \in FileNumbers : fn = asked[p][i].number
    BY RequestsAre
  <2>1. fn < Incoming
    BY <2>f DEF DataOnlyOutgoing
  <2>2. ReceiverInv'
    <3>1. CASE UNCHANGED transfers
      BY <1>2, <3>1
    <3>2. CASE ~UNCHANGED transfers
      <4>u. PICK u : u = [transfers[p][fn] EXCEPT
                            !.position = (transfers[p][fn].position + length) % WordSize,
                            !.event_pending = FALSE]
        OBVIOUS
      <4>1. transfers' = [transfers EXCEPT ![p][fn] = u]
        <5>1. transfers' = [transfers EXCEPT
                ![p][fn].position = (transfers[p][fn].position + length) % WordSize,
                ![p][fn].event_pending = FALSE]
          BY <1>8, <2>f, <3>2 DEF SendChunk
        <5>. QED  BY <1>0, <4>u, <5>1
      <4>. QED  BY <1>3, <2>1, <4>1
    <3>. QED  BY <3>1, <3>2
  <2>3. asked' = [asked EXCEPT ![p] = RemoveAt(asked[p], i)]
    BY <1>8 DEF SendChunk
  <2>4. asked[p] \in Seq(Requests) /\ i \in 1..Len(asked[p]) /\ Len(asked[p]) \in Nat
    BY <1>0
  <2>5. /\ asked'[p] \in Seq(Requests) /\ Len(asked'[p]) = Len(asked[p]) - 1
        /\ \A j \in DOMAIN asked'[p] : asked'[p][j] = asked[p][IF j < i THEN j ELSE j + 1]
    BY <1>0, <2>3, <2>4, Removed
  <2>6. \A j \in DOMAIN asked'[p] : (IF j < i THEN j ELSE j + 1) \in DOMAIN asked[p]
    BY <2>4, <2>5
  <2>7. \A q \in Peers : q # p => asked'[q] = asked[q]
    BY <1>0, <2>3
  <2>8. DataOnlyOutgoing'
    BY <2>5, <2>6, <2>7 DEF DataOnlyOutgoing
  <2>. QED  BY <2>2, <2>8
<1>9. ASSUME NEW p \in Peers, NEW n \in Numbers, NEW size \in Sizes, NEW cause \in Garbage,
             FileSend(p, n, size, cause)
      PROVE  ReceiverInv' /\ UNCHANGED asked
  <2>1. n \in FileNumbers /\ n < Incoming
    BY FileNumber
  <2>2. /\ UNCHANGED asked
        /\ UNCHANGED transfers \/ \E t : transfers' = [transfers EXCEPT ![p][n] = t]
    BY <1>9 DEF FileSend
  <2>. QED  BY <1>2, <1>3, <2>1, <2>2
<1>10. ASSUME NEW p \in Peers,
              \/ IterationReturns(p) \/ FriendDelete(p) \/ FriendAdd(p)
              \/ \E fn \in FileNumbers : Calls(p, fn)
       PROVE  UNCHANGED <<transfers, asked>>
  BY <1>10 DEF IterationReturns, FriendDelete, FriendAdd, Calls, Resume, Pause
<1>11. CASE UNCHANGED vars
  BY <1>1, <1>2, <1>11 DEF vars
<1>12. ASSUME NEW p \in Peers, Receives(p)  PROVE ReceiverInv' /\ DataOnlyOutgoing'
  BY <1>1, <1>4, <1>5, <1>6, <1>12 DEF Receives
<1>13. ASSUME NEW p \in Peers,
              Asks(p) \/ Answers(p) \/ Offers(p) \/ FriendDelete(p) \/ FriendAdd(p)
                \/ \E fn \in FileNumbers : Calls(p, fn)
       PROVE  ReceiverInv' /\ DataOnlyOutgoing'
  BY <1>1, <1>2, <1>7, <1>8, <1>9, <1>10, <1>13 DEF Asks, Answers, Offers
<1>. QED  BY <1>11, <1>12, <1>13 DEF Next

\* Data is only asked of the client that sends the file, as long as clients resume only
\* what is offered to them: every other thing they may do is allowed.
THEOREM FilesDataOnlyOutgoing ==
  ASSUME "resume-any" \notin Allowed
  PROVE  Spec => []DataOnlyOutgoing
<1> DEFINE I == TypeOK /\ PacketInv /\ ReceiverInv /\ DataOnlyOutgoing
<1>1. Init => I
  <2>1. Init => ReceiverInv /\ DataOnlyOutgoing
    BY FileNumber DEF Init, ReceiverInv, DataOnlyOutgoing
  <2>. QED  BY <2>1, TypeStarts, PacketsStart
<1>2. I /\ [Next]_vars => I'
  BY TypeStep, PacketStep, OutgoingStep
<1>. QED  BY <1>1, <1>2, PTL DEF Spec

-----------------------------------------------------------------------------
(* A transfer that was accepted goes on.                                   *)

\* What is marked as asked for is asked for, unless the process that was to answer ended.
PendingInv ==
  \A p \in Peers, fn \in FileNumbers :
    Alive(p) /\ transfers[p][fn] # None /\ transfers[p][fn].event_pending =>
      \E i \in DOMAIN asked[p] : asked[p][i].number = fn

\* One entry of a map becomes u, which waits for nothing that was not asked for.
LEMMA PendingKept ==
  ASSUME TypeOK, PendingInv, UNCHANGED asked, \A q \in Peers : aborted[q] => aborted'[q],
         NEW p \in Peers, NEW fn \in FileNumbers, NEW u,
         transfers' = [transfers EXCEPT ![p][fn] = u],
         \/ u = None \/ ~u.event_pending
         \/ transfers[p][fn] # None /\ transfers[p][fn].event_pending
  PROVE  PendingInv'
<1>1. transfers \in [Peers -> [FileNumbers -> Transfers \cup {None}]]
  BY DEF TypeOK
<1>2. /\ transfers'[p][fn] = u
      /\ \A q \in Peers, k \in FileNumbers : q # p \/ k # fn => transfers'[q][k] = transfers[q][k]
  BY ONLY <1>1, Changed, p \in Peers, fn \in FileNumbers,
          transfers' = [transfers EXCEPT ![p][fn] = u]
<1>. QED  BY <1>2 DEF PendingInv, Alive

\* The i-th request is answered: those for other transfers are left.
LEMMA PendingAnswered ==
  ASSUME TypeOK, PendingInv, NEW p \in Peers, NEW i \in DOMAIN asked[p],
         asked' = [asked EXCEPT ![p] = RemoveAt(asked[p], i)],
         \A q \in Peers : aborted[q] => aborted'[q],
         \A q \in Peers, k \in FileNumbers :
           q # p \/ (Alive(p)' /\ k # asked[p][i].number) => transfers'[q][k] = transfers[q][k],
         LET t == transfers'[p][asked[p][i].number]
         IN Alive(p)' => t = None \/ ~t.event_pending
  PROVE  PendingInv'
<1>1. asked[p] \in Seq(Requests)
  BY RequestsAre
<1>2. i \in 1..Len(asked[p]) /\ Len(asked[p]) \in Nat /\ DOMAIN asked[p] = 1..Len(asked[p])
  BY ONLY <1>1, i \in DOMAIN asked[p]
<1>3. DOMAIN asked = Peers
  BY DEF TypeOK
<1>4. asked'[p] = RemoveAt(asked[p], i) /\ \A q \in Peers : q # p => asked'[q] = asked[q]
  BY <1>3
<1>5. /\ asked'[p] \in Seq(Requests) /\ Len(asked'[p]) = Len(asked[p]) - 1
      /\ \A j \in DOMAIN asked'[p] : asked'[p][j] = asked[p][IF j < i THEN j ELSE j + 1]
  BY <1>1, <1>4, Removed
<1>6. DOMAIN asked'[p] = 1..(Len(asked[p]) - 1)
  BY ONLY <1>2, <1>5
<1>7. ASSUME NEW k \in DOMAIN asked[p], k # i
      PROVE  \E j \in DOMAIN asked'[p] : asked'[p][j] = asked[p][k]
  <2>1. CASE k < i
    <3>1. k \in DOMAIN asked'[p]
      BY ONLY <1>2, <1>6, <2>1, k \in DOMAIN asked[p]
    <3>. QED  BY <1>5, <2>1, <3>1
  <2>2. CASE ~(k < i)
    <3>1. k - 1 \in DOMAIN asked'[p] /\ ~(k - 1 < i) /\ k - 1 + 1 = k
      BY ONLY <1>2, <1>6, <1>7, <2>2
    <3>. QED  BY <1>5, <3>1
  <2>. QED  BY <2>1, <2>2
<1>8. ASSUME NEW q \in Peers, NEW k \in FileNumbers, Alive(q)',
             transfers'[q][k] # None, transfers'[q][k].event_pending
      PROVE  \E j \in DOMAIN asked'[q] : asked'[q][j].number = k
  <2>1. q # p \/ k # asked[p][i].number
    BY <1>8
  <2>2. transfers'[q][k] = transfers[q][k] /\ Alive(q)
    BY <1>8, <2>1 DEF Alive
  <2>3. PICK x \in DOMAIN asked[q] : asked[q][x].number = k
    BY <1>8, <2>2 DEF PendingInv
  <2>4. CASE q # p
    BY <1>4, <2>3, <2>4
  <2>5. CASE q = p
    <3>1. x # i
      BY <2>1, <2>3, <2>5
    <3>. QED  BY <1>7, <2>3, <2>5, <3>1
  <2>. QED  BY <2>4, <2>5
<1>. QED  BY <1>8 DEF PendingInv

LEMMA PendingStep ==
  ASSUME TypeOK, PendingInv, [Next]_vars
  PROVE  PendingInv'
<1>0. /\ transfers \in [Peers -> [FileNumbers -> Transfers \cup {None}]]
      /\ net \in [Peers -> Seq(Packets)] /\ asked \in [Peers -> Seq(Requests)]
      /\ aborted \in [Peers -> BOOLEAN]
  BY DEF TypeOK
<1>1. ASSUME UNCHANGED <<transfers, asked>>, \A q \in Peers : aborted[q] => aborted'[q]
      PROVE  PendingInv'
  BY <1>1 DEF PendingInv, Alive
<1>2. ASSUME NEW p \in Peers, NEW fn \in FileNumbers, NEW u,
             transfers' = [transfers EXCEPT ![p][fn] = u],
             \/ u = None \/ ~u.event_pending
             \/ transfers[p][fn] # None /\ transfers[p][fn].event_pending,
             UNCHANGED asked, \A q \in Peers : aborted[q] => aborted'[q]
      PROVE  PendingInv'
  BY <1>2, PendingKept
<1>3. ASSUME NEW p \in Peers, Receives(p)
      PROVE  UNCHANGED asked /\ \A q \in Peers : aborted[q] => aborted'[q]
  BY <1>0, <1>3 DEF Receives, FileSendRequest, FileData, FileControlled, Arrives, Abort, Ignore
<1>4. ASSUME NEW p \in Peers, NEW cause \in Garbage, FileSendRequest(p, cause)
      PROVE  PendingInv'
  <2>m. PICK m : m = Head(net[p])
    OBVIOUS
  <2>1. m \in Packets
    BY <1>0, <1>4, <2>m DEF FileSendRequest, Arrives
  <2>2. Incoming + m.number \in FileNumbers
    BY <2>1, PacketsFor, FileNumber
  <2>t. PICK t : t = Transfer(m.id, m.size, cause)
    OBVIOUS
  <2>3. ~t.event_pending
    BY <2>t DEF Transfer
  <2>4. UNCHANGED transfers \/ transfers' = [transfers EXCEPT ![p][Incoming + m.number] = t]
    BY <1>4, <2>m, <2>t DEF FileSendRequest, Abort
  <2>5. UNCHANGED asked /\ \A q \in Peers : aborted[q] => aborted'[q]
    BY <1>3, <1>4 DEF Receives
  <2>. QED  BY <1>1, <1>2, <2>2, <2>3, <2>4, <2>5
<1>5. ASSUME NEW p \in Peers, FileData(p)  PROVE PendingInv'
  <2>m. PICK m : m = Head(net[p])
    OBVIOUS
  <2>1. m \in Packets
    BY <1>0, <1>5, <2>m DEF FileData, Arrives
  <2>2. Incoming + m.number \in FileNumbers
    BY <2>1, PacketsFor, FileNumber
  <2>3. UNCHANGED asked /\ \A q \in Peers : aborted[q] => aborted'[q]
    BY <1>3, <1>5 DEF Receives
  <2>4. CASE UNCHANGED transfers
    BY <1>1, <2>3, <2>4
  <2>5. CASE ~UNCHANGED transfers
    <3>1. /\ transfers[p][Incoming + m.number] # None
          /\ Received(p, Incoming + m.number, m.length)
      BY <1>5, <2>5, <2>m DEF FileData, Abort, Ignore
    <3>t. PICK t \in Transfers : t = transfers[p][Incoming + m.number]
      BY <1>0, <2>2, <3>1
    <3>u. PICK u : u = [t EXCEPT !.position = (@ + m.length) % WordSize]
      OBVIOUS
    <3>2. u.event_pending = t.event_pending
      BY <3>u DEF Transfers
    <3>3. transfers' = [transfers EXCEPT ![p][Incoming + m.number] = u]
      BY <3>1, <3>t, <3>u DEF Received
    <3>. QED  BY <1>2, <2>2, <2>3, <3>1, <3>2, <3>3, <3>t
  <2>. QED  BY <2>4, <2>5
<1>6. ASSUME NEW p \in Peers, FileControlled(p)  PROVE PendingInv'
  <2>m. PICK m : m = Head(net[p])
    OBVIOUS
  <2>f. PICK fn : fn = NewFileNumber(m.receive_send, m.number)
    OBVIOUS
  <2>1. m \in Packets /\ m.type = "control"
    BY <1>0, <1>6, <2>m DEF FileControlled, Arrives
  <2>2. fn \in FileNumbers
    BY <2>1, <2>f, PacketsFor, FileNumber DEF NewFileNumber
  <2>3. UNCHANGED asked /\ \A q \in Peers : aborted[q] => aborted'[q]
    BY <1>3, <1>6 DEF Receives
  <2>4. CASE UNCHANGED transfers
    BY <1>1, <2>3, <2>4
  <2>5. CASE transfers' = [transfers EXCEPT ![p][fn] = None]
    BY <1>2, <2>2, <2>3, <2>5
  <2>6. ASSUME transfers[p][fn] # None, transfers' = [transfers EXCEPT ![p][fn].state = "RUNNING"]
        PROVE  PendingInv'
    <3>t. PICK t \in Transfers : t = transfers[p][fn]
      BY <1>0, <2>2, <2>6
    <3>u. PICK u : u = [t EXCEPT !.state = "RUNNING"]
      OBVIOUS
    <3>1. u.event_pending = t.event_pending
      BY <3>u DEF Transfers
    <3>2. transfers' = [transfers EXCEPT ![p][fn] = u]
      BY <1>0, <2>2, <2>6, <3>t, <3>u
    <3>3. ~u.event_pending \/ (transfers[p][fn] # None /\ transfers[p][fn].event_pending)
      BY ONLY <2>6, <3>1, <3>t
    <3>. QED  BY ONLY <1>2, <2>2, <2>3, <3>2, <3>3, p \in Peers
  <2>. QED  BY <1>6, <2>4, <2>5, <2>6, <2>f, <2>m DEF FileControlled, Abort, Ignore, Forget
<1>7. ASSUME NEW p \in Peers, NEW fn \in FileNumbers, AskChunk(p, fn)  PROVE PendingInv'
  <2>r. PICK r : r = ChunkRequest(transfers[p][fn], fn)
    OBVIOUS
  <2>u. PICK u : u = Asked(transfers[p][fn])
    OBVIOUS
  <2>1. /\ asked' = [asked EXCEPT ![p] = Append(asked[p], r)]
        /\ transfers' = [transfers EXCEPT ![p][fn] = u] /\ UNCHANGED aborted
    BY <1>7, <2>r, <2>u DEF AskChunk
  <2>2. r.number = fn /\ r \in Requests
    <3>1. transfers[p][fn] \in Transfers /\ Wants(transfers[p][fn])
      BY <1>0, <1>7 DEF AskChunk, Wants
    <3>. QED  BY <1>7, <2>r, <3>1, RequestTypes DEF AskChunk, ChunkRequest
  <2>3. /\ asked'[p] = Append(asked[p], r) /\ \A q \in Peers : q # p => asked'[q] = asked[q]
        /\ asked[p] \in Seq(Requests)
    BY <1>0, <2>1
  <2>4. /\ \A i \in DOMAIN asked[p] : i \in DOMAIN asked'[p] /\ asked'[p][i] = asked[p][i]
        /\ \E i \in DOMAIN asked'[p] : asked'[p][i].number = fn
    <3>1. /\ DOMAIN Append(asked[p], r) = 1..(Len(asked[p]) + 1) /\ Len(asked[p]) \in Nat
          /\ DOMAIN asked[p] = 1..Len(asked[p])
          /\ Append(asked[p], r)[Len(asked[p]) + 1] = r
          /\ \A i \in 1..Len(asked[p]) : Append(asked[p], r)[i] = asked[p][i]
      BY ONLY <2>2, <2>3
    <3>2. \A i \in DOMAIN asked[p] : i \in DOMAIN asked'[p] /\ asked'[p][i] = asked[p][i]
      BY <2>3, <3>1
    <3>3. Len(asked[p]) + 1 \in DOMAIN asked'[p] /\ asked'[p][Len(asked[p]) + 1] = r
      BY <2>3, <3>1
    <3>. QED  BY <2>2, <3>2, <3>3
  <2>5. \A q \in Peers, k \in FileNumbers : q # p \/ k # fn => transfers'[q][k] = transfers[q][k]
    BY ONLY <1>0, <2>1, Changed, p \in Peers, fn \in FileNumbers
  <2>6. ASSUME NEW q \in Peers, NEW k \in FileNumbers, Alive(q)',
               transfers'[q][k] # None, transfers'[q][k].event_pending
        PROVE  \E i \in DOMAIN asked'[q] : asked'[q][i].number = k
    <3>1. CASE q = p /\ k = fn
      BY <2>4, <3>1
    <3>2. CASE q # p \/ k # fn
      <4>1. transfers'[q][k] = transfers[q][k] /\ Alive(q)
        BY <2>1, <2>5, <2>6, <3>2 DEF Alive
      <4>2. PICK i \in DOMAIN asked[q] : asked[q][i].number = k
        BY <2>6, <4>1 DEF PendingInv
      <4>. QED  BY <2>3, <2>4, <4>2
    <3>. QED  BY <3>1, <3>2
  <2>. QED  BY <2>6 DEF PendingInv
<1>8. ASSUME NEW p \in Peers, NEW i \in DOMAIN asked[p],
             NEW length \in ChunkLengths(asked[p][i]), SendChunk(p, i, length)
      PROVE  PendingInv'
  <2>f. PICK fn \in FileNumbers : fn = asked[p][i].number
    BY RequestsAre
  <2>1. asked' = [asked EXCEPT ![p] = RemoveAt(asked[p], i)]
    BY <1>8 DEF SendChunk
  <2>2. Alive(p) /\ \A q \in Peers : aborted[q] => aborted'[q]
    BY <1>0, <1>8 DEF SendChunk, AtRest, Alive
  <2>3. CASE aborted' = [aborted EXCEPT ![p] = TRUE] /\ UNCHANGED transfers
    <3>1. ~Alive(p)'
      BY <1>0, <2>3 DEF Alive
    <3>. QED  BY <2>1, <2>2, <2>3, <3>1, PendingAnswered
  <2>4. CASE transfers[p][fn] = None /\ UNCHANGED transfers
    BY <2>1, <2>2, <2>4, <2>f, PendingAnswered
  <2>5. ASSUME transfers[p][fn] # None,
               transfers' = [transfers EXCEPT
                 ![p][fn].position = (transfers[p][fn].position + length) % WordSize,
                 ![p][fn].event_pending = FALSE]
        PROVE  PendingInv'
    <3>t. PICK t \in Transfers : t = transfers[p][fn]
      BY <1>0, <2>5
    <3>u. PICK u : u = [t EXCEPT !.position = (t.position + length) % WordSize,
                                 !.event_pending = FALSE]
      OBVIOUS
    <3>1. ~u.event_pending
      BY <3>u DEF Transfers
    <3>2. transfers' = [transfers EXCEPT ![p][fn] = u]
      BY <1>0, <2>5, <3>t, <3>u
    <3>3. /\ transfers'[p][fn] = u
          /\ \A q \in Peers, k \in FileNumbers : q # p \/ k # fn =>
               transfers'[q][k] = transfers[q][k]
      BY ONLY <1>0, <3>2, Changed, p \in Peers, fn \in FileNumbers
    <3>4. \A q \in Peers, k \in FileNumbers :
            q # p \/ (Alive(p)' /\ k # asked[p][i].number) => transfers'[q][k] = transfers[q][k]
      BY <2>f, <3>3
    <3>5. ~transfers'[p][asked[p][i].number].event_pending
      BY <2>f, <3>1, <3>3
    <3>. QED  BY <2>1, <2>2, <3>4, <3>5, PendingAnswered
  <2>. QED  BY <1>8, <2>3, <2>4, <2>5, <2>f DEF SendChunk
<1>9. ASSUME NEW p \in Peers, NEW n \in Numbers, NEW size \in Sizes, NEW cause \in Garbage,
             FileSend(p, n, size, cause)
      PROVE  PendingInv'
  <2>t. PICK t : t = Transfer(<<p, sends[p] + 1>>, size, cause)
    OBVIOUS
  <2>1. ~t.event_pending
    BY <2>t DEF Transfer
  <2>2. /\ UNCHANGED asked /\ \A q \in Peers : aborted[q] => aborted'[q]
        /\ UNCHANGED transfers \/ transfers' = [transfers EXCEPT ![p][n] = t]
    BY <1>0, <1>9, <2>t DEF FileSend
  <2>. QED  BY <1>1, <1>2, <2>1, <2>2, FileNumber
<1>10. ASSUME NEW p \in Peers,
              \/ IterationReturns(p) \/ FriendDelete(p) \/ FriendAdd(p)
              \/ \E fn \in FileNumbers : Calls(p, fn)
       PROVE  PendingInv'
  <2>1. UNCHANGED <<transfers, asked>> /\ (AtRest(p) \/ UNCHANGED aborted)
    BY <1>10 DEF IterationReturns, FriendDelete, FriendAdd, Calls, Resume, Pause, Controls
  <2>2. \A q \in Peers : aborted[q] => aborted'[q]
    BY <1>0, <1>10, <2>1 DEF IterationReturns, FriendDelete, FriendAdd, Calls, Resume, Pause,
                             AtRest, Alive
  <2>. QED  BY <1>1, <2>1, <2>2
<1>11. CASE UNCHANGED vars
  BY <1>1, <1>11 DEF vars
<1>12. ASSUME NEW p \in Peers,
              Receives(p) \/ Asks(p) \/ Answers(p) \/ Offers(p) \/ FriendDelete(p)
                \/ FriendAdd(p) \/ \E fn \in FileNumbers : Calls(p, fn)
       PROVE  PendingInv'
  BY <1>4, <1>5, <1>6, <1>7, <1>8, <1>9, <1>10, <1>12 DEF Receives, Asks, Answers, Offers
<1>. QED  BY <1>11, <1>12 DEF Next

LEMMA MovesOn ==
  ASSUME TransferInv, PendingInv
  PROVE  NeverStuck
<1>1. SUFFICES ASSUME NEW p \in Peers, NEW n \in Numbers,
                      NEW t \in {transfers[p][n], transfers[Other(p)][Incoming + n]} \ {None},
                      Alive(p), t.id \in resumed[Other(p)], t.file_size # 0
               PROVE  Moving(p, n)
  BY DEF NeverStuck
<1> DEFINE q == Other(p)
           a == transfers[p][n]
           b == transfers[q][Incoming + n]
<1>2. SentBy(p, n) /\ q \in Peers /\ n \in FileNumbers
  BY TwoPeers, FileNumber DEF TransferInv, PairInv
<1>3. (\E i \in DOMAIN net[q] : IsEnd(net[q][i], n)) => Moving(p, n)
  BY DEF Moving, IsEnd
<1>4. (\E i \in DOMAIN net[p] : IsAccept(net[p][i], n) \/ IsReceipt(net[p][i], n)) => Moving(p, n)
  BY DEF Moving, IsAccept, IsReceipt
<1>5. CASE a = None
  BY <1>1, <1>2, <1>3, <1>5
     DEF SentBy, Pair, Idle, Over, OneEnd, Offered, Paused, Announced, Sending, Ended, Running
<1>6. CASE a # None /\ a.id \notin resumed[q]
  BY <1>1, <1>2, <1>3, <1>6
     DEF SentBy, Pair, Idle, Over, OneEnd, Offered, Paused, Announced, Agree, Sending, Ended,
         Running
<1>7. CASE a # None /\ a.id \in resumed[q]
  <2>1. b # None => b.id = a.id /\ b.file_size = a.file_size
    BY <1>2, <1>7 DEF SentBy, Pair, Idle, Offered, Announced, Agree, Sending, Ended
  <2>2. a.file_size # 0
    BY <1>1, <2>1
  <2>3. CASE a.state = "PAUSED"
    BY <1>2, <1>4, <1>7, <2>3
       DEF SentBy, Pair, Idle, Offered, Announced, OneAccept, Sending, Ended, Running
  <2>4. CASE a.state # "PAUSED" /\ a.position = a.file_size
    <3>1. Complete(a) /\ a.state # "PAUSED"
      BY <2>2, <2>4 DEF Complete
    <3>. QED  BY <1>2, <1>3, <1>4, <1>7, <3>1
              DEF SentBy, Pair, Idle, Offered, Announced, Paused, OneEnd, OneReceipt, Sending, Ended
  <2>5. CASE a.state # "PAUSED" /\ a.position # a.file_size
    <3>1. a.state = "RUNNING"
      BY <1>2, <1>7, <2>5
         DEF SentBy, Pair, Idle, Offered, Announced, Paused, Sending, Ended, Running
    <3>2. CASE a.event_pending
      BY <1>1, <1>2, <1>7, <3>2 DEF PendingInv, Moving
    <3>3. CASE ~a.event_pending
      BY <1>7, <2>5, <3>1, <3>3 DEF Wants, Moving
    <3>. QED  BY <3>2, <3>3
  <2>. QED  BY <2>3, <2>4, <2>5
<1>. QED  BY <1>5, <1>6, <1>7

\* What the receiving client has resumed is never left where nothing takes it on: the sender
\* wants a chunk or has asked its client for one, or a packet about the file is on its way.
\* That is the part of Completes that no scheduling can give.
THEOREM FilesNeverStuck ==
  ASSUME Allowed \subseteq Tolerated
  PROVE  Spec => []NeverStuck
<1>1. Init => PendingInv
  BY DEF Init, PendingInv
<1>2. TypeOK /\ TypeOK' /\ PendingInv /\ [Next]_vars => PendingInv'
  BY PendingStep
<1>3. Spec => []PendingInv
  BY <1>1, <1>2, FileTypes, PTL DEF Spec
<1>4. TransferInv /\ PendingInv => NeverStuck
  BY MovesOn
<1>. QED  BY <1>3, <1>4, TransfersAgree, PTL
=============================================================================
