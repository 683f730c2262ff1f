------------------------ MODULE FileRefinementProofs ------------------------
(***************************************************************************)
(* FileTransfers implements FileDelivery.  A file is at one of its sender's *)
(* numbers, and what both sides keep at that number says how far it is.     *)
(* When it has gone all the way, its sender's client is told so, once.      *)
(***************************************************************************)
EXTENDS FileTransfersProofs

\* File f has number n of its sender p, on either side.
Holds(p, n, f) ==
  \/ transfers[p][n] # None /\ transfers[p][n].id = f
  \/ LET b == transfers[Other(p)][Incoming + n] IN b # None /\ b.id = f

\* A file never has two numbers, nor does one side use it for another file's.
UniqueInv ==
  \A p \in Peers, n \in Numbers, f \in Ids : Holds(p, n, f) =>
    /\ f[1] = p /\ f[2] <= sends[p]
    /\ \A k \in Numbers : Holds(p, k, f) => k = n

RefineInv == TransferInv /\ UniqueInv

\* The entry, if it is of file f.
Own(t, f) == IF t # None /\ t.id = f THEN t ELSE None

\* How far a file is, by the sender's entry, the receiver's and the receiver's slot.
View(a, b, sb, f) ==
  LET t == Own(a, f)
      u == Own(b, f)
      offered == t # None /\ t.state = "PAUSED"
  IN [sender     |-> IF t = None THEN "done" ELSE IF offered THEN "waiting" ELSE "sending",
      receiver   |-> IF u # None THEN sb ELSE IF offered THEN "none" ELSE "done",
      unsent     |-> IF t = None THEN 0 ELSE t.file_size - t.position,
      unreceived |-> IF u # None THEN u.file_size - u.position
                     ELSE IF offered THEN t.file_size ELSE 0]

ViewOf(p, n, f) ==
  View(transfers[p][n], transfers[Other(p)][Incoming + n], slots[Other(p)][Incoming + n], f)

Elsewhere(p, n, f) == \E k \in Numbers : k # n /\ Holds(p, k, f)

FilesSeen ==
  \A p \in Peers, n \in Numbers, f \in Ids :
    f[1] = p /\ f[2] <= sends[p] /\ ~Elsewhere(p, n, f) => FileOf(f) = ViewOf(p, n, f)

-----------------------------------------------------------------------------
(* What the refinement mapping makes of a file.                            *)

LEMMA IdIs ==
  ASSUME NEW f \in Ids
  PROVE  /\ f[1] \in Peers /\ f[2] \in Nat /\ f = <<f[1], f[2]>>
         /\ \A p, k : f \in GivenIds(p, k) => f[1] = p /\ f[2] \in 1..k
<1>1. \E p \in Peers : \E i \in 1..MaxSends[p] : f = <<p, i>>
  BY DEF Ids
<1>2. ASSUME NEW q, NEW k, f \in GivenIds(q, k)  PROVE f[1] = q /\ f[2] \in 1..k
  BY <1>2 DEF GivenIds
<1>. QED  BY <1>1, <1>2

LEMMA RemainingIs ==
  ASSUME NEW t \in Transfers, t.position <= t.file_size
  PROVE  /\ Remaining(t) = t.file_size - t.position
         /\ t.position \in Nat /\ t.file_size \in Nat
<1>1. /\ t.position \in Nat /\ t.file_size \in Nat /\ WordSize \in Nat \ {0}
      /\ t.file_size < WordSize
  <2>1. t \in Transfers \cup {None} /\ t # None
    BY NoneAssumption
  <2>2. t.position \in Nat /\ t.file_size \in Nat /\ t.file_size \in Sizes
    BY <2>1, InTransfer
  <2>3. DataSize \in Nat /\ WordSize \in Nat \ {0} /\ t.file_size + DataSize < WordSize
    BY <2>2, Widths
  <2>. QED  BY <2>2, <2>3
<1> DEFINE x == WordSize + t.file_size - t.position
<1>2. x \in Nat /\ WordSize <= x /\ x < WordSize + WordSize /\ x - WordSize = t.file_size - t.position
  BY <1>1
<1> HIDE DEF x
<1>3. x % WordSize = x - WordSize
  BY <1>1, <1>2, Modulo
<1>. QED  BY <1>1, <1>2, <1>3 DEF Remaining, x

\* The entry of the sender is found by the file's id ...
LEMMA SenderSeen ==
  ASSUME RefineInv, NEW p \in Peers, NEW n \in Numbers, NEW f \in Ids,
         f[1] = p, ~Elsewhere(p, n, f)
  PROVE  Entry(p, f) = Own(transfers[p][n], f)
<1> DEFINE numbers == {fn \in FileNumbers : transfers[p][fn] # None /\ transfers[p][fn].id = f}
<1>1. ASSUME NEW fn \in numbers  PROVE fn = n
  <2>1. CASE fn < Incoming
    <3>1. fn \in Numbers /\ Holds(p, fn, f)
      BY <2>1, FileNumberIs DEF Holds
    <3>. QED  BY <3>1 DEF Elsewhere
  <2>2. CASE ~(fn < Incoming)
    <3>1. PICK k \in Numbers : fn = Incoming + k
      BY <2>2, FileNumberIs
    <3>2. Other(p) \in Peers /\ Other(p) # p /\ Other(Other(p)) = p
      BY TwoPeers
    <3>3. Holds(Other(p), k, f)
      BY <3>1, <3>2 DEF Holds
    <3>. QED  BY <3>2, <3>3 DEF RefineInv, UniqueInv
  <2>. QED  BY <2>1, <2>2
<1>2. n \in FileNumbers
  BY FileNumber
<1>3. CASE transfers[p][n] # None /\ transfers[p][n].id = f
  <2>1. numbers = {n}
    BY <1>1, <1>2, <1>3
  <2>. QED  BY <1>3, <2>1 DEF Entry, Own
<1>4. CASE ~(transfers[p][n] # None /\ transfers[p][n].id = f)
  <2>1. numbers = {}
    BY <1>1, <1>4
  <2>. QED  BY <1>4, <2>1 DEF Entry, Own
<1>. QED  BY <1>3, <1>4

\* ... and so are the receiver's and its slot.
LEMMA ReceiverSeen ==
  ASSUME RefineInv, NEW p \in Peers, NEW n \in Numbers, NEW f \in Ids,
         f[1] = p, ~Elsewhere(p, n, f)
  PROVE  LET b == transfers[Other(p)][Incoming + n]
         IN /\ Entry(Other(p), f) = Own(b, f)
            /\ Own(b, f) # None => Slot(Other(p), f) = slots[Other(p)][Incoming + n]
<1> DEFINE q == Other(p)
           numbers == {fn \in FileNumbers : transfers[q][fn] # None /\ transfers[q][fn].id = f}
<1>0. q \in Peers /\ q # p /\ Other(q) = p
  BY TwoPeers
<1>1. ASSUME NEW fn \in numbers  PROVE fn = Incoming + n
  <2>1. CASE fn < Incoming
    <3>1. fn \in Numbers /\ Holds(q, fn, f)
      BY <2>1, FileNumberIs DEF Holds
    <3>. QED  BY <1>0, <3>1 DEF RefineInv, UniqueInv
  <2>2. CASE ~(fn < Incoming)
    <3>1. PICK k \in Numbers : fn = Incoming + k
      BY <2>2, FileNumberIs
    <3>2. Holds(p, k, f)
      BY <3>1 DEF Holds
    <3>. QED  BY <3>1, <3>2 DEF Elsewhere
  <2>. QED  BY <2>1, <2>2
<1>2. Incoming + n \in FileNumbers
  BY FileNumber
<1>3. CASE transfers[q][Incoming + n] # None /\ transfers[q][Incoming + n].id = f
  <2>1. numbers = {Incoming + n}
    BY <1>1, <1>2, <1>3
  <2>. QED  BY <1>3, <2>1 DEF Entry, Slot, Own
<1>4. CASE ~(transfers[q][Incoming + n] # None /\ transfers[q][Incoming + n].id = f)
  <2>1. numbers = {}
    BY <1>1, <1>4
  <2>. QED  BY <1>4, <2>1 DEF Entry, Own
<1>. QED  BY <1>3, <1>4

\* A file is announced as long as it is offered and the receiver does not know of it.
LEMMA AnnouncementsSeen ==
  ASSUME RefineInv, NEW p \in Peers, NEW n \in Numbers, NEW f \in Ids,
         f[1] = p, ~Elsewhere(p, n, f)
  PROVE  LET t == Own(transfers[p][n], f)
             u == Own(transfers[Other(p)][Incoming + n], f)
         IN /\ \A m \in Announcements(Other(p), f) :
                 t # None /\ t.state = "PAUSED" /\ u = None /\ m.size = t.file_size
            /\ t # None /\ t.state = "PAUSED" =>
                 t.position = 0 /\ (u = None => Announcements(Other(p), f) # {})
<1> DEFINE q == Other(p)
           t == Own(transfers[p][n], f)
           u == Own(transfers[q][Incoming + n], f)
<1>0. TypeOK /\ PairInv /\ net[q] \in Seq(Packets)
  <2>1. TypeOK /\ PairInv
    BY DEF RefineInv, TransferInv
  <2>. QED  BY <2>1, Entries
<1>1. ASSUME NEW k \in Numbers,
             Offered(transfers[p][k], slots[p][k], transfers[q][Incoming + k],
                     slots[q][Incoming + k], net[q], net[p], resumed[q], k)
      PROVE  transfers[p][k].id = f => k = n /\ t = transfers[p][n] /\ u = None
  <2>1. transfers[p][k] # None /\ transfers[p][k].id \notin resumed[q]
    BY <1>1 DEF Offered, Paused
  <2>2. transfers[p][k].id = f => k = n
    BY <2>1 DEF Elsewhere, Holds
  <2>3. \/ transfers[q][Incoming + k] = None
        \/ transfers[q][Incoming + k].id \in resumed[q]
    BY <1>1 DEF Offered, Over
  <2>. QED  BY <2>1, <2>2, <2>3 DEF Own
<1>2. ASSUME NEW m \in Announcements(q, f)
      PROVE  t # None /\ t.state = "PAUSED" /\ u = None /\ m.size = t.file_size
  <2>1. PICK i \in DOMAIN net[q] : m = net[q][i]
    BY DEF Announcements, Range
  <2>2. m \in Packets /\ m.type = "request" /\ m.id = f
    BY <1>0, <2>1, ElementOfSeq DEF Announcements
  <2>3. PICK k \in Numbers : k = m.number
    BY <2>2, PacketsFor
  <2>4. IsRequest(net[q][i], k)
    BY <2>1, <2>2, <2>3 DEF IsRequest
  <2>5. SentBy(p, k)
    BY <1>0 DEF PairInv
  <2>6. Offered(transfers[p][k], slots[p][k], transfers[q][Incoming + k],
                slots[q][Incoming + k], net[q], net[p], resumed[q], k)
    BY <2>4, <2>5 DEF SentBy, Pair, Idle, Announced, Sending, Ended, NoRequest
  <2>7. transfers[p][k].id = m.id /\ transfers[p][k].file_size = m.size
    BY <2>1, <2>4, <2>6 DEF Offered, OneRequest
  <2>8. transfers[p][k] # None /\ transfers[p][k].state = "PAUSED"
    BY <2>6 DEF Offered, Paused
  <2>. QED  BY <1>1, <2>2, <2>6, <2>7, <2>8
<1>3. ASSUME t # None, t.state = "PAUSED"
      PROVE  t.position = 0 /\ (u = None => Announcements(q, f) # {})
  <2>1. t = transfers[p][n] /\ t.id = f
    BY <1>3 DEF Own
  <2>2. SentBy(p, n)
    BY <1>0 DEF PairInv
  <2>3. \/ Offered(t, slots[p][n], transfers[q][Incoming + n],
                   slots[q][Incoming + n], net[q], net[p], resumed[q], n)
        \/ Announced(t, slots[p][n], transfers[q][Incoming + n],
                     slots[q][Incoming + n], net[q], net[p], resumed[q], n)
    BY <1>3, <2>1, <2>2 DEF SentBy, Pair, Idle, Sending, Ended, Running
  <2>4. CASE Offered(t, slots[p][n], transfers[q][Incoming + n],
                     slots[q][Incoming + n], net[q], net[p], resumed[q], n)
    <3>1. PICK i \in DOMAIN net[q] : IsRequest(net[q][i], n) /\ net[q][i].id = f
      BY <2>1, <2>4 DEF Offered, OneRequest
    <3>2. net[q][i] \in Announcements(q, f)
      BY <3>1 DEF Announcements, IsRequest, Range
    <3>. QED  BY <2>4, <3>2 DEF Offered, Paused
  <2>5. CASE Announced(t, slots[p][n], transfers[q][Incoming + n],
                       slots[q][Incoming + n], net[q], net[p], resumed[q], n)
    <3>1. t.position = 0 /\ transfers[q][Incoming + n] # None /\ transfers[q][Incoming + n].id = f
      BY <2>1, <2>5 DEF Announced, Paused, Agree
    <3>. QED  BY <3>1 DEF Own
  <2>. QED  BY <2>3, <2>4, <2>5
<1>. QED  BY <1>2, <1>3

LEMMA FileIs ==
  ASSUME RefineInv, NEW p \in Peers, NEW n \in Numbers, NEW f \in Ids,
         f[1] = p, f[2] <= sends[p], ~Elsewhere(p, n, f)
  PROVE  FileOf(f) = ViewOf(p, n, f)
<1> DEFINE q  == Other(p)
           sb == slots[q][Incoming + n]
           t  == Own(transfers[p][n], f)
           u  == Own(transfers[q][Incoming + n], f)
           announcements == Announcements(q, f)
           offered == t # None /\ t.state = "PAUSED"
<1>1. Entry(p, f) = t /\ Entry(q, f) = u /\ (u # None => Slot(q, f) = sb)
  BY SenderSeen, ReceiverSeen
<1>2. /\ \A m \in announcements : offered /\ u = None /\ m.size = t.file_size
      /\ offered => t.position = 0 /\ (u = None => announcements # {})
  BY AnnouncementsSeen
<1>3. /\ t # None => /\ t.state \in {"PAUSED", "RUNNING"}
                     /\ Remaining(t) = t.file_size - t.position /\ t.file_size \in Nat
      /\ u # None => Remaining(u) = u.file_size - u.position
  <2>0. TypeOK /\ TransferInv
    BY DEF RefineInv, TransferInv
  <2>1. /\ transfers[p][n] # None => transfers[p][n].position <= transfers[p][n].file_size
        /\ transfers[q][Incoming + n] # None =>
             transfers[q][Incoming + n].position <= transfers[q][Incoming + n].file_size
    BY <2>0, Entries, EntryKnown
  <2>2. /\ t # None => t \in Transfers /\ t.position <= t.file_size
        /\ u # None => u \in Transfers /\ u.position <= u.file_size
    BY <2>0, <2>1, Entries DEF Own
  <2> HIDE DEF t, u
  <2>3. t # None => t.state \in {"PAUSED", "RUNNING"}
    BY <2>2 DEF Transfers
  <2>. QED  BY <2>2, <2>3, RemainingIs
<1>4. FileOf(f) =
        [sender     |-> IF t = None THEN "done" ELSE IF offered THEN "waiting" ELSE "sending",
         receiver   |-> IF announcements # {} THEN "none"
                        ELSE IF u = None THEN "done" ELSE Slot(q, f),
         unsent     |-> Left(t),
         unreceived |-> IF announcements = {} THEN Left(u)
                        ELSE (CHOOSE m \in announcements : TRUE).size]
  <2>1. sends[p] \in Nat /\ f[2] \in Nat
    BY IdIs DEF RefineInv, TransferInv, TypeOK
  <2>2. ~(sends[p] < f[2])
    BY <2>1
  <2> HIDE DEF t, u, announcements
  <2>3. CASE t = None
    BY <1>1, <2>2, <2>3 DEF FileOf, announcements, q
  <2>4. CASE t # None
    BY <1>1, <1>3, <2>2, <2>4 DEF FileOf, announcements, q
  <2>. QED  BY <2>3, <2>4
<1>5. ViewOf(p, n, f) =
        [sender     |-> IF t = None THEN "done" ELSE IF offered THEN "waiting" ELSE "sending",
         receiver   |-> IF u # None THEN sb ELSE IF offered THEN "none" ELSE "done",
         unsent     |-> IF t = None THEN 0 ELSE t.file_size - t.position,
         unreceived |-> IF u # None THEN u.file_size - u.position
                        ELSE IF offered THEN t.file_size ELSE 0]
  BY DEF ViewOf, View
<1> HIDE DEF t, u, announcements
<1>6. Left(t) = IF t = None THEN 0 ELSE t.file_size - t.position
  BY <1>3 DEF Left
<1>7. CASE announcements # {}
  <2>1. offered /\ u = None /\ (CHOOSE m \in announcements : TRUE).size = t.file_size
    BY <1>2, <1>7
  <2>. QED  BY <1>4, <1>5, <1>6, <1>7, <2>1
<1>8. CASE announcements = {}
  <2>1. /\ u # None \/ ~offered
        /\ Left(u) = IF u # None THEN u.file_size - u.position ELSE 0
    BY <1>2, <1>3, <1>8 DEF Left
  <2>. QED  BY <1>1, <1>4, <1>5, <1>6, <1>8, <2>1
<1>. QED  BY <1>7, <1>8

LEMMA AllSeen == RefineInv => FilesSeen
BY FileIs DEF FilesSeen

LEMMA AllSeenNext == RefineInv' => FilesSeen'
BY AllSeen, PTL

-----------------------------------------------------------------------------
(* A step is about one number of one sender, and moves one file.           *)

\* No other number is concerned.
Frame(p, n) ==
  \A r \in Peers, k \in Numbers : r # p \/ k # n =>
    /\ transfers'[r][k] = transfers[r][k]
    /\ transfers'[Other(r)][Incoming + k] = transfers[Other(r)][Incoming + k]
    /\ slots'[Other(r)][Incoming + k] = slots[Other(r)][Incoming + k]

\* What FileDelivery lets happen to a file that was offered.
Moves(v, w) ==
  \/ w = v
  \/ v.sender # "none" /\ v.receiver = "none" /\ w = [v EXCEPT !.receiver = "offered"]
  \/ v.receiver = "offered" /\ w = [v EXCEPT !.receiver = "accepted"]
  \/ v.sender = "waiting" /\ v.receiver = "accepted" /\ w = [v EXCEPT !.sender = "sending"]
  \/ v.sender = "sending" /\ \E k \in 0..(v.unsent - 1) : w = [v EXCEPT !.unsent = k]
  \/ /\ v.receiver = "accepted"
     /\ \E k \in v.unsent..(v.unreceived - 1) : w = [v EXCEPT !.unreceived = k]
  \/ v.sender = "sending" /\ v.unreceived = 0 /\ w = [v EXCEPT !.sender = "done"]
  \/ v.receiver = "accepted" /\ v.unreceived = 0 /\ w = [v EXCEPT !.receiver = "done"]

\* File f, which has number n of p, makes a step.
Progress(p, n, f) ==
  /\ Frame(p, n) /\ UNCHANGED sends /\ Holds(p, n, f)
  /\ \A g \in Ids : Holds(p, n, g)' => Holds(p, n, g)
  /\ \A g \in Ids : g # f => ViewOf(p, n, g)' = ViewOf(p, n, g)
  /\ Moves(ViewOf(p, n, f), ViewOf(p, n, f)')

\* File f is offered and gets number n.
Begins(p, n, f) ==
  /\ Frame(p, n) /\ f = <<p, sends[p] + 1>> /\ sends' = [sends EXCEPT ![p] = @ + 1]
  /\ Holds(p, n, f)' /\ \A g \in Ids : Holds(p, n, g)' => Holds(p, n, g) \/ g = f
  /\ \A g \in Ids : g # f => ViewOf(p, n, g)' = ViewOf(p, n, g)
  /\ \E size \in Sizes :
       ViewOf(p, n, f)' = [sender |-> "waiting", receiver |-> "none",
                           unsent |-> size, unreceived |-> size]

LEMMA HoldsKept ==
  ASSUME RefineInv, NEW p \in Peers, NEW n \in Numbers, NEW f \in Ids,
         Progress(p, n, f) \/ Begins(p, n, f),
         NEW r \in Peers, NEW k \in Numbers, NEW g \in Ids
  PROVE  /\ Holds(r, k, g)' => Holds(r, k, g) \/ (r = p /\ k = n /\ g = f /\ Begins(p, n, f))
         /\ g # f => ViewOf(r, k, g)' = ViewOf(r, k, g)
<1>1. CASE r # p \/ k # n
  <2>1. /\ transfers'[r][k] = transfers[r][k]
        /\ transfers'[Other(r)][Incoming + k] = transfers[Other(r)][Incoming + k]
        /\ slots'[Other(r)][Incoming + k] = slots[Other(r)][Incoming + k]
    BY <1>1 DEF Progress, Begins, Frame
  <2>. QED  BY <2>1 DEF Holds, ViewOf
<1>2. CASE r = p /\ k = n
  BY <1>2 DEF Progress, Begins
<1>. QED  BY <1>1, <1>2

LEMMA SendsKept ==
  ASSUME RefineInv, NEW p \in Peers, NEW n \in Numbers, NEW f \in Ids,
         Progress(p, n, f) \/ Begins(p, n, f), NEW r \in Peers
  PROVE  /\ sends[r] \in Nat /\ sends'[r] \in Nat /\ sends[r] <= sends'[r]
         /\ \/ sends'[r] = sends[r]
            \/ r = p /\ f = <<p, sends[p] + 1>> /\ sends'[r] = sends[p] + 1
<1>1. sends \in [Peers -> Nat]
  BY DEF RefineInv, TransferInv, TypeOK
<1>. QED  BY <1>1 DEF Progress, Begins

\* Ids of files given later are new.
LEMMA UniqueKept ==
  ASSUME RefineInv, NEW p \in Peers, NEW n \in Numbers, NEW f \in Ids,
         Progress(p, n, f) \/ Begins(p, n, f)
  PROVE  UniqueInv'
<1>1. SUFFICES ASSUME NEW r \in Peers, NEW k \in Numbers, NEW g \in Ids, Holds(r, k, g)'
               PROVE  /\ g[1] = r /\ g[2] <= sends'[r]
                      /\ \A m \in Numbers : Holds(r, m, g)' => m = k
  BY DEF UniqueInv
<1>2. \A m \in Numbers :
        Holds(r, m, g)' => Holds(r, m, g) \/ (r = p /\ m = n /\ g = f /\ Begins(p, n, f))
  BY HoldsKept
<1>3. /\ sends[r] \in Nat /\ sends'[r] \in Nat /\ sends[r] <= sends'[r] /\ g[2] \in Nat
  BY SendsKept, IdIs
<1>4. \A m \in Numbers : Holds(r, m, g) =>
        /\ g[1] = r /\ g[2] <= sends[r]
        /\ \A l \in Numbers : Holds(r, l, g) => l = m
  BY DEF RefineInv, UniqueInv
<1>5. g = f /\ Begins(p, n, f) /\ r = p => g[1] = p /\ g[2] = sends[r] + 1 /\ sends'[r] = sends[r] + 1
  BY DEF Begins, RefineInv, TransferInv, TypeOK
<1>6. CASE Holds(r, k, g)
  <2>1. g[1] = r /\ g[2] <= sends[r] /\ ~(r = p /\ g = f /\ Begins(p, n, f))
    BY <1>3, <1>4, <1>5, <1>6
  <2>. QED  BY <1>2, <1>3, <1>4, <1>6, <2>1
<1>7. CASE r = p /\ k = n /\ g = f /\ Begins(p, n, f)
  <2>1. g[1] = r /\ g[2] <= sends'[r]
    BY <1>3, <1>5, <1>7
  <2>2. \A m \in Numbers : ~Holds(r, m, g)
    BY <1>3, <1>4, <1>5, <1>7
  <2>. QED  BY <1>2, <1>7, <2>1, <2>2
<1>. QED  BY <1>1, <1>2, <1>6, <1>7

LEMMA OthersStay ==
  ASSUME RefineInv, RefineInv', NEW p \in Peers, NEW n \in Numbers, NEW f \in Ids,
         Progress(p, n, f) \/ Begins(p, n, f), NEW g \in Ids, g # f
  PROVE  FileOf(g)' = FileOf(g)
<1> DEFINE r == g[1]
<1>1. r \in Peers /\ g[2] \in Nat /\ g = <<r, g[2]>>
  BY IdIs
<1>2. /\ sends[r] \in Nat /\ sends'[r] \in Nat /\ sends[r] <= sends'[r]
      /\ sends[r] < g[2] => sends'[r] < g[2]
  <2> HIDE DEF r
  <2>1. /\ sends[r] \in Nat /\ sends'[r] \in Nat /\ sends[r] <= sends'[r]
        /\ \/ sends'[r] = sends[r]
           \/ f = <<r, sends[r] + 1>> /\ sends'[r] = sends[r] + 1
    BY <1>1, SendsKept
  <2>2. f = <<r, sends[r] + 1>> => g[2] # sends[r] + 1
    BY <1>1
  <2>. QED  BY <1>1, <2>1, <2>2
<1>3. CASE sends[r] < g[2]
  BY <1>2, <1>3 DEF FileOf
<1>4. CASE ~(sends[r] < g[2])
  <2>0. g[2] <= sends[r] /\ g[2] <= sends'[r]
    BY <1>1, <1>2, <1>4
  <2>1. PICK k \in Numbers : ~Elsewhere(r, k, g)
    <3>1. CASE \E k \in Numbers : Holds(r, k, g)
      <4>1. PICK k \in Numbers : Holds(r, k, g)
        BY <3>1
      <4>2. ~Elsewhere(r, k, g)
        BY <1>1, <4>1 DEF RefineInv, UniqueInv, Elsewhere
      <4>. QED  BY <4>2
    <3>2. CASE \A k \in Numbers : ~Holds(r, k, g)
      BY <3>2 DEF Elsewhere
    <3>. QED  BY <3>1, <3>2
  <2>2. \A m \in Numbers : Holds(r, m, g)' => Holds(r, m, g)
    BY <1>1, HoldsKept
  <2>3. ~Elsewhere(r, k, g)'
    BY <2>1, <2>2 DEF Elsewhere
  <2>4. FileOf(g) = ViewOf(r, k, g)
    BY <1>1, <2>0, <2>1, AllSeen DEF FilesSeen
  <2>5. FileOf(g)' = ViewOf(r, k, g)'
    BY <1>1, <2>0, <2>3, AllSeenNext DEF FilesSeen
  <2>6. ViewOf(r, k, g)' = ViewOf(r, k, g)
    BY <1>1, HoldsKept
  <2>. QED  BY <2>4, <2>5, <2>6
<1>. QED  BY <1>3, <1>4

-----------------------------------------------------------------------------
(* Steps of files are steps of FileDelivery.                               *)

LEMMA FileMoves ==
  ASSUME RefineInv, RefineInv', NEW p \in Peers, NEW n \in Numbers, NEW f \in Ids,
         Progress(p, n, f)
  PROVE  [Delivery!DNext]_([g \in Ids |-> FileOf(g)])
<1> DEFINE D == [g \in Ids |-> FileOf(g)]
           v == ViewOf(p, n, f)
           w == ViewOf(p, n, f)'
<1>1. f[1] = p /\ f[2] <= sends[p] /\ f[2] <= sends'[p] /\ ~Elsewhere(p, n, f)
  <2>1. Holds(p, n, f) /\ UNCHANGED sends
    BY DEF Progress
  <2>. QED  BY <2>1 DEF RefineInv, UniqueInv, Elsewhere
<1>2. ~Elsewhere(p, n, f)'
  BY <1>1, HoldsKept DEF Elsewhere, Progress, Begins
<1>3. FileOf(f) = v /\ FileOf(f)' = w
  <2>1. FileOf(f) = v
    BY <1>1, AllSeen DEF FilesSeen
  <2>2. FileOf(f)' = w
    BY <1>1, <1>2, AllSeenNext DEF FilesSeen
  <2>. QED  BY <2>1, <2>2
<1>4. D' = [D EXCEPT ![f] = w] /\ D[f] = v
  <2>1. \A g \in Ids : g # f => FileOf(g)' = FileOf(g)
    BY OthersStay
  <2> HIDE DEF v, w
  <2>. QED  BY <1>3, <2>1
<1>5. Moves(v, w)
  BY DEF Progress
<1> HIDE DEF v, w, D
<1>6. CASE w = v
  <2>1. D' = D
    BY <1>4, <1>6 DEF D
  <2>. QED  BY <2>1 DEF D
<1>7. CASE v.sender # "none" /\ v.receiver = "none" /\ w = [v EXCEPT !.receiver = "offered"]
  <2>1. Delivery!Announce(f)
    BY <1>4, <1>7 DEF Delivery!Announce, D
  <2>. QED  BY <2>1 DEF Delivery!DNext
<1>8. CASE v.receiver = "offered" /\ w = [v EXCEPT !.receiver = "accepted"]
  <2>1. Delivery!Accept(f)
    BY <1>4, <1>8 DEF Delivery!Accept, D
  <2>. QED  BY <2>1 DEF Delivery!DNext
<1>9. CASE /\ v.sender = "waiting" /\ v.receiver = "accepted"
           /\ w = [v EXCEPT !.sender = "sending"]
  <2>1. Delivery!Start(f)
    BY <1>4, <1>9 DEF Delivery!Start, D
  <2>. QED  BY <2>1 DEF Delivery!DNext
<1>10. CASE v.sender = "sending" /\ \E k \in 0..(v.unsent - 1) : w = [v EXCEPT !.unsent = k]
  <2>1. PICK k \in 0..(v.unsent - 1) : w = [v EXCEPT !.unsent = k]
    BY <1>10
  <2>2. D[f].sender = "sending" /\ k \in 0..(D[f].unsent - 1)
    BY <1>4, <1>10, <2>1
  <2>3. D' = [D EXCEPT ![f].unsent = k]
    BY <1>4, <2>1
  <2>4. Delivery!SendBytes(f)
    BY <2>2, <2>3 DEF Delivery!SendBytes, D
  <2>. QED  BY <2>4 DEF Delivery!DNext
<1>11. CASE /\ v.receiver = "accepted"
            /\ \E k \in v.unsent..(v.unreceived - 1) : w = [v EXCEPT !.unreceived = k]
  <2>1. PICK k \in v.unsent..(v.unreceived - 1) : w = [v EXCEPT !.unreceived = k]
    BY <1>11
  <2>2. D[f].receiver = "accepted" /\ k \in D[f].unsent..(D[f].unreceived - 1)
    BY <1>4, <1>11, <2>1
  <2>3. D' = [D EXCEPT ![f].unreceived = k]
    BY <1>4, <2>1
  <2>4. Delivery!ReceiveBytes(f)
    BY <2>2, <2>3 DEF Delivery!ReceiveBytes, D
  <2>. QED  BY <2>4 DEF Delivery!DNext
<1>12. CASE v.sender = "sending" /\ v.unreceived = 0 /\ w = [v EXCEPT !.sender = "done"]
  <2>1. Delivery!SenderEnds(f)
    BY <1>4, <1>12 DEF Delivery!SenderEnds, D
  <2>. QED  BY <2>1 DEF Delivery!DNext
<1>13. CASE v.receiver = "accepted" /\ v.unreceived = 0 /\ w = [v EXCEPT !.receiver = "done"]
  <2>1. Delivery!ReceiverEnds(f)
    BY <1>4, <1>13 DEF Delivery!ReceiverEnds, D
  <2>. QED  BY <2>1 DEF Delivery!DNext
<1>. QED  BY <1>5, <1>6, <1>7, <1>8, <1>9, <1>10, <1>11, <1>12, <1>13 DEF Moves

LEMMA FileBegins ==
  ASSUME RefineInv, RefineInv', NEW p \in Peers, NEW n \in Numbers, NEW f \in Ids,
         Begins(p, n, f)
  PROVE  Delivery!DNext
<1> DEFINE D == [g \in Ids |-> FileOf(g)]
           v == [sender |-> "none", receiver |-> "none", unsent |-> 0, unreceived |-> 0]
<1>0. sends \in [Peers -> Nat]
  BY DEF RefineInv, TransferInv, TypeOK
<1>1. f[1] = p /\ sends[p] < f[2] /\ f[2] <= sends'[p]
  BY <1>0 DEF Begins
<1>2. ~Elsewhere(p, n, f)'
  BY DEF Begins, RefineInv, UniqueInv, Elsewhere
<1>3. PICK size \in Sizes :
        ViewOf(p, n, f)' = [sender |-> "waiting", receiver |-> "none",
                            unsent |-> size, unreceived |-> size]
  BY DEF Begins
<1> DEFINE w == [sender |-> "waiting", receiver |-> "none", unsent |-> size, unreceived |-> size]
<1>4. FileOf(f) = v /\ FileOf(f)' = w
  <2>1. FileOf(f) = v
    BY <1>1 DEF FileOf
  <2>2. FileOf(f)' = ViewOf(p, n, f)'
    BY <1>1, <1>2, AllSeenNext DEF FilesSeen
  <2>. QED  BY <1>3, <2>1, <2>2
<1>5. D' = [D EXCEPT ![f] = w] /\ D[f] = v
  <2>1. \A g \in Ids : g # f => FileOf(g)' = FileOf(g)
    BY OthersStay
  <2> HIDE DEF v, w
  <2>. QED  BY <1>4, <2>1
<1>6. Delivery!Offer(f)
  BY <1>5 DEF Delivery!Offer, Delivery!NotOffered
<1>. QED  BY <1>6 DEF Delivery!DNext

-----------------------------------------------------------------------------
(* What one side does to a file.                                           *)

LEMMA FrameIs ==
  ASSUME NEW p \in Peers, NEW n \in Numbers, NEW fn \in FileNumbers,
         \A r \in Peers, k \in FileNumbers : r # p \/ k # fn =>
           transfers'[r][k] = transfers[r][k] /\ slots'[r][k] = slots[r][k]
  PROVE  /\ fn = n => Frame(p, n)
         /\ fn = Incoming + n => Frame(Other(p), n)
<1>1. \A r \in Peers : Other(r) \in Peers /\ Other(Other(r)) = r
  BY TwoPeers
<1>2. /\ \A k \in Numbers : /\ k \in FileNumbers /\ Incoming + k \in FileNumbers
                            /\ Incoming + k # n /\ k # Incoming + n
                            /\ Incoming + k = Incoming + n => k = n
  BY FileNumber DEF Incoming
<1>3. CASE fn = n
  BY <1>1, <1>2, <1>3 DEF Frame
<1>4. CASE fn = Incoming + n
  BY <1>1, <1>2, <1>4 DEF Frame
<1>. QED  BY <1>2, <1>3, <1>4

LEMMA SenderProgress ==
  ASSUME NEW p \in Peers, NEW n \in Numbers, NEW f \in Ids, UNCHANGED sends,
         \A r \in Peers, k \in FileNumbers : r # p \/ k # n =>
           transfers'[r][k] = transfers[r][k] /\ slots'[r][k] = slots[r][k],
         NEW a, NEW a2, NEW b, NEW sb,
         transfers[p][n] = a, transfers'[p][n] = a2,
         transfers[Other(p)][Incoming + n] = b, slots[Other(p)][Incoming + n] = sb,
         a # None, a.id = f, a2 # None => a2.id = f,
         Moves(View(a, b, sb, f), View(a2, b, sb, f))
  PROVE  Progress(p, n, f)
<1>1. Frame(p, n)
  BY FileNumber, FrameIs
<1>2. /\ transfers'[Other(p)][Incoming + n] = b /\ slots'[Other(p)][Incoming + n] = sb
  BY TwoPeers, FileNumber
<1>3. \A g \in Ids : g # f => View(a, b, sb, g) = View(a2, b, sb, g)
  BY DEF View, Own
<1>4. Holds(p, n, f) /\ \A g \in Ids : Holds(p, n, g)' => Holds(p, n, g)
  BY <1>2 DEF Holds
<1>5. /\ \A g \in Ids : g # f => ViewOf(p, n, g)' = ViewOf(p, n, g)
      /\ Moves(ViewOf(p, n, f), ViewOf(p, n, f)')
  BY <1>2, <1>3 DEF ViewOf
<1>. QED  BY <1>1, <1>4, <1>5 DEF Progress

LEMMA ReceiverProgress ==
  ASSUME NEW p \in Peers, NEW n \in Numbers, NEW f \in Ids, UNCHANGED sends,
         \A r \in Peers, k \in FileNumbers : r # p \/ k # Incoming + n =>
           transfers'[r][k] = transfers[r][k] /\ slots'[r][k] = slots[r][k],
         NEW a, NEW b, NEW b2, NEW sb, NEW sb2,
         transfers[Other(p)][n] = a,
         transfers[p][Incoming + n] = b, transfers'[p][Incoming + n] = b2,
         slots[p][Incoming + n] = sb, slots'[p][Incoming + n] = sb2,
         (a # None /\ a.id = f) \/ (b # None /\ b.id = f),
         b # None => b.id = f, b2 # None => b2.id = f,
         Moves(View(a, b, sb, f), View(a, b2, sb2, f))
  PROVE  Progress(Other(p), n, f)
<1> DEFINE q == Other(p)
<1>0. q \in Peers /\ q # p /\ Other(q) = p
  BY TwoPeers
<1>1. Frame(q, n)
  BY FileNumber, FrameIs
<1>2. transfers'[q][n] = a
  BY <1>0, FileNumber
<1>3. \A g \in Ids : g # f => View(a, b, sb, g) = View(a, b2, sb2, g)
  BY DEF View, Own
<1>4. Holds(q, n, f) /\ \A g \in Ids : Holds(q, n, g)' => Holds(q, n, g)
  BY <1>0, <1>2 DEF Holds
<1>5. /\ \A g \in Ids : g # f => ViewOf(q, n, g)' = ViewOf(q, n, g)
      /\ Moves(ViewOf(q, n, f), ViewOf(q, n, f)')
  BY <1>0, <1>2, <1>3 DEF ViewOf
<1>. QED  BY <1>1, <1>4, <1>5 DEF Progress

-----------------------------------------------------------------------------
(* Packets that arrive.                                                    *)

\* What is known of a packet that arrives without an assertion failing.
LEMMA Receiving ==
  ASSUME RefineInv, TransferInv', NEW p \in Peers, net[p] # <<>>,
         NEW m, m = Head(net[p]), NEW n, n = m.number, Alive(p), UNCHANGED aborted
  PROVE  /\ TransferInv /\ TypeOK /\ ~Abort(p)
         /\ m \in Packets /\ Usual(m) /\ n \in Numbers
         /\ SentBy(p, n) /\ SentBy(p, n)' /\ ReceivedBy(p, n) /\ ReceivedBy(p, n)'
<1>1. TransferInv /\ TypeOK
  BY DEF RefineInv, TransferInv
<1>2. ~Abort(p)
  BY <1>1 DEF Abort, Alive, TypeOK
<1>3. m \in Packets /\ Usual(m) /\ n \in Numbers /\ SentBy(p, n) /\ ReceivedBy(p, n)
  BY <1>1, Arrived
<1>4. SentBy(p, n)' /\ ReceivedBy(p, n)'
  BY <1>3, PairsOf DEF TransferInv
<1>. QED  BY <1>1, <1>2, <1>3, <1>4

LEMMA RequestMoves ==
  ASSUME RefineInv, TransferInv', NEW p \in Peers, NEW cause \in Garbage,
         FileSendRequest(p, cause)
  PROVE  \E n \in Numbers, f \in Ids : Progress(Other(p), n, f)
<1>0. net[p] # <<>> /\ Alive(p) /\ UNCHANGED <<sends, aborted>>
  BY NoAssertion DEF FileSendRequest, Arrives, client, RefineInv
<1>m. PICK m : m = Head(net[p])
  OBVIOUS
<1>n. PICK n : n = m.number
  OBVIOUS
<1>1. /\ TypeOK /\ ~Abort(p) /\ m \in Packets /\ n \in Numbers /\ ReceivedBy(p, n)'
  BY <1>0, <1>m, <1>n, Receiving
<1> DEFINE q  == Other(p)
           fn == Incoming + n
           t  == Transfer(m.id, m.size, cause)
<1>a. PICK a : a = transfers[q][n]
  OBVIOUS
<1>2. /\ transfers[p][fn] = None
      /\ transfers' = [transfers EXCEPT ![p][fn] = t]
      /\ slots' = [slots EXCEPT ![p][fn] = "offered"]
  BY <1>1, <1>m, <1>n DEF FileSendRequest
<1>3. fn \in FileNumbers /\ q \in Peers /\ q # p /\ n \in FileNumbers /\ a \in Transfers \cup {None}
  BY <1>1, <1>a, Entries
<1>4. /\ transfers'[p][fn] = t /\ slots'[p][fn] = "offered"
      /\ \A r \in Peers, k \in FileNumbers : r # p \/ k # fn =>
           transfers'[r][k] = transfers[r][k] /\ slots'[r][k] = slots[r][k]
  <2> HIDE DEF fn, t
  <2>. QED  BY <1>1, <1>2, <1>3, Changed DEF TypeOK
<1>5. Paused(a, slots'[q][n]) /\ Agree(a, t)
  <2>1. transfers'[q][n] = a
    BY <1>3, <1>4, <1>a
  <2> HIDE DEF t
  <2>. QED  BY <1>1, <1>4, <2>1
            DEF ReceivedBy, Pair, Idle, Over, Offered, Announced, Sending, Ended
<1>6. /\ a # None /\ a.state = "PAUSED" /\ a.position = 0 /\ a.id \in Ids /\ a.file_size \in Nat
      /\ t # None /\ t.id = a.id /\ t.file_size = a.file_size /\ t.position = 0
  BY <1>3, <1>5, InTransfer DEF Paused, Agree, Transfer
<1> HIDE DEF t
<1>7. Moves(View(a, None, slots[p][fn], a.id), View(a, t, "offered", a.id))
  BY <1>6 DEF Moves, View, Own
<1>8. Progress(q, n, a.id)
  BY <1>0, <1>1, <1>2, <1>4, <1>6, <1>7, <1>a, ReceiverProgress
<1>. QED  BY <1>1, <1>6, <1>8

LEMMA DataMoves ==
  ASSUME RefineInv, TransferInv', NEW p \in Peers, FileData(p)
  PROVE  \E n \in Numbers, f \in Ids : Progress(Other(p), n, f)
<1>0. /\ net[p] # <<>> /\ Head(net[p]).type = "data" /\ Alive(p)
      /\ UNCHANGED <<sends, aborted>>
  BY NoAssertion DEF FileData, Arrives, client, RefineInv
<1>m. PICK m : m = Head(net[p])
  OBVIOUS
<1>n. PICK n : n = m.number
  OBVIOUS
<1>1. TypeOK /\ ~Abort(p) /\ m \in Packets /\ n \in Numbers /\ ReceivedBy(p, n) /\ ReceivedBy(p, n)'
  BY <1>0, <1>m, <1>n, Receiving
<1> DEFINE q  == Other(p)
           fn == Incoming + n
<1>a. PICK a, b, sb : a = transfers[q][n] /\ b = transfers[p][fn] /\ sb = slots[p][fn]
  OBVIOUS
<1>2. /\ fn \in FileNumbers /\ q \in Peers /\ q # p /\ n \in FileNumbers
      /\ a \in Transfers \cup {None} /\ b \in Transfers \cup {None}
      /\ net[p] \in Seq(Packets) /\ net[q] \in Seq(Packets)
  BY <1>1, <1>a, Entries
<1>3. /\ Sending(a, slots[q][n], b, sb, net[p], net[q], resumed[p], n)
      /\ b # None /\ Fits(b, m)
  <2>1. IsData(m, n)
    BY <1>0, <1>m, <1>n DEF IsData
  <2>2. Pair(a, slots[q][n], b, sb, net[p], net[q], resumed[p], n)
    BY <1>1, <1>a DEF ReceivedBy
  <2>. QED  BY <1>0, <1>1, <1>2, <1>m, <2>1, <2>2, DataExpected
<1>4. /\ a # None /\ a.state = "RUNNING" /\ sb = "accepted" /\ b.id = a.id
      /\ b.file_size = a.file_size
  BY <1>3 DEF Sending, Running, Agree
<1>5. /\ a \in Transfers /\ a.id \in Ids /\ a.position \in Nat /\ a.file_size \in Nat
      /\ b \in Transfers /\ b.position \in Nat /\ b.file_size \in Nat /\ b.file_size \in Sizes
      /\ m.length \in 1..DataSize
  <2>1. m.length \in 1..DataSize
    BY <1>0, <1>1, <1>m DEF Packets
  <2>. QED  BY <1>2, <1>3, <1>4, <2>1, InTransfer
<1>p. PICK pos : pos = b.position + m.length
  OBVIOUS
<1>6. pos \in Nat /\ b.position < pos /\ pos <= b.file_size /\ (b.position + m.length) % WordSize = pos
  <2>1. DataSize \in Nat \ {0} /\ WordSize \in Nat \ {0} /\ b.file_size + DataSize < WordSize
    BY <1>5, Widths
  <2>2. pos \in Nat /\ pos <= b.file_size
    BY <1>3, <1>p DEF Fits
  <2>3. b.position < pos
    BY <1>5, <1>p
  <2>4. pos < WordSize
    BY <1>5, <2>1, <2>2
  <2>. QED  BY <1>p, <2>1, <2>2, <2>3, <2>4, Modulo
<1> DEFINE t == [b EXCEPT !.position = pos]
<1>7. transfers' = [transfers EXCEPT ![p][fn] = t] /\ slots' = slots
  <2>1. Received(p, fn, m.length) /\ slots' = slots
    BY <1>1, <1>3, <1>4, <1>a, <1>m, <1>n DEF FileData
  <2>. QED  BY <1>1, <1>2, <1>6, <1>a, <2>1 DEF Received, TypeOK
<1>8. /\ t.id = a.id /\ t.file_size = a.file_size /\ t.position = pos
  BY <1>4, <1>5 DEF Transfers
<1>9. /\ transfers'[p][fn] = t /\ slots'[p][fn] = sb
      /\ \A r \in Peers, k \in FileNumbers : r # p \/ k # fn =>
           transfers'[r][k] = transfers[r][k] /\ slots'[r][k] = slots[r][k]
  <2> HIDE DEF fn, t
  <2>. QED  BY <1>1, <1>2, <1>7, <1>a, Changed DEF TypeOK
<1>10. t # None /\ pos <= a.position
  <2>1. t # None
    <3>1. pos \in 0..(WordSize - 1)
      BY <1>5, <1>6, Widths
    <3>2. t \in Transfers
      BY <1>5, <3>1 DEF Transfers
    <3>. QED  BY <3>2, NoneAssumption
  <2>2. transfers'[q][n] = a
    BY <1>2, <1>9, <1>a
  <2>3. Sending(a, slots'[q][n], t, sb, net'[p], net'[q], resumed'[p], n)
    <3> HIDE DEF t
    <3>. QED  BY <1>1, <1>4, <1>9, <2>1, <2>2
              DEF ReceivedBy, Pair, Idle, Offered, Announced, Paused, Ended
  <2>. QED  BY <1>8, <2>1, <2>3 DEF Sending, Chain
<1> HIDE DEF t
<1>11. Moves(View(a, b, sb, a.id), View(a, t, sb, a.id))
  <2> DEFINE v == View(a, b, sb, a.id)
  <2>1. /\ v.receiver = "accepted" /\ v.unsent = a.file_size - a.position
        /\ v.unreceived = a.file_size - b.position
        /\ View(a, t, sb, a.id) = [v EXCEPT !.unreceived = a.file_size - pos]
    BY <1>3, <1>4, <1>8, <1>10 DEF View, Own
  <2>2. a.file_size - pos \in (a.file_size - a.position)..(a.file_size - b.position - 1)
    BY <1>5, <1>6, <1>10
  <2> HIDE DEF v
  <2>. QED  BY <2>1, <2>2 DEF Moves, v
<1>12. Progress(q, n, a.id)
  BY <1>0, <1>1, <1>3, <1>4, <1>5, <1>8, <1>9, <1>11, <1>a, ReceiverProgress
<1>. QED  BY <1>1, <1>5, <1>12

LEMMA EndMoves ==
  ASSUME RefineInv, TransferInv', NEW p \in Peers, FileControlled(p),
         Head(net[p]).receive_send = 0, ~IsPause(Head(net[p]))
  PROVE  \E n \in Numbers, f \in Ids : Progress(Other(p), n, f)
<1>0. /\ net[p] # <<>> /\ Head(net[p]).type = "control" /\ Alive(p)
      /\ UNCHANGED <<sends, aborted>>
  BY NoAssertion DEF FileControlled, Arrives, client, RefineInv, IsPause
<1>m. PICK m : m = Head(net[p])
  OBVIOUS
<1>n. PICK n : n = m.number
  OBVIOUS
<1>1. /\ TypeOK /\ ~Abort(p) /\ m \in Packets /\ Usual(m) /\ n \in Numbers
      /\ ReceivedBy(p, n)
  BY <1>0, <1>m, <1>n, Receiving
<1> DEFINE q  == Other(p)
           fn == Incoming + n
<1>a. PICK a, b, sa, sb : /\ a = transfers[q][n] /\ b = transfers[p][fn]
                          /\ sa = slots[q][n] /\ sb = slots[p][fn]
  OBVIOUS
<1>2. /\ fn \in FileNumbers
      /\ a \in Transfers \cup {None} /\ b \in Transfers \cup {None}
      /\ net[p] \in Seq(Packets) /\ net[q] \in Seq(Packets)
  BY <1>1, <1>a, Entries
<1>3. m.control = "FINISHED" /\ IsEnd(m, n) /\ NewFileNumber(m.receive_send, m.number) = fn
  BY <1>0, <1>1, <1>m, <1>n, FileNumber, PacketsFor DEF Usual, IsEnd, IsPause
<1>4. Pair(a, sa, b, sb, net[p], net[q], resumed[p], n)
  BY <1>1, <1>a DEF ReceivedBy
<1>5. b # None /\ b.position = b.file_size /\ ~NoEnd(net[p], n)
  <2>1. b # None /\ b.position = b.file_size
    BY <1>0, <1>1, <1>2, <1>3, <1>4, <1>m, EndArrives
  <2>2. ~NoEnd(net[p], n)
    BY <1>0, <1>2, <1>3, <1>m, InTail DEF NoEnd
  <2>. QED  BY <2>1, <2>2
<1>6. b.id \in Ids /\ b.position \in Nat
  BY <1>2, <1>5, InTransfer
<1>7. /\ sb = "accepted"
      /\ a # None /\ a.id = b.id => a.state = "RUNNING"
  BY <1>4, <1>5 DEF Pair, Idle, Offered, Paused, Over, Announced, Sending, Running, Ended
<1>8. /\ transfers' = [transfers EXCEPT ![p][fn] = None]
      /\ slots' = [slots EXCEPT ![p][fn] = "none"]
  BY <1>1, <1>3, <1>5, <1>7, <1>a, <1>m DEF FileControlled, Forget
<1>9. /\ transfers'[p][fn] = None /\ slots'[p][fn] = "none"
      /\ \A r \in Peers, k \in FileNumbers : r # p \/ k # fn =>
           transfers'[r][k] = transfers[r][k] /\ slots'[r][k] = slots[r][k]
  <2> HIDE DEF fn
  <2>. QED  BY <1>1, <1>2, <1>8, Changed DEF TypeOK
<1>10. Moves(View(a, b, sb, b.id), View(a, None, "none", b.id))
  <2> DEFINE v == View(a, b, sb, b.id)
  <2>1. /\ v.receiver = "accepted" /\ v.unreceived = 0
        /\ View(a, None, "none", b.id) = [v EXCEPT !.receiver = "done"]
    BY <1>5, <1>6, <1>7 DEF View, Own
  <2> HIDE DEF v
  <2>. QED  BY <2>1 DEF Moves, v
<1>11. Progress(q, n, b.id)
  BY <1>0, <1>1, <1>5, <1>6, <1>9, <1>10, <1>a, ReceiverProgress
<1>. QED  BY <1>1, <1>6, <1>11

LEMMA AcceptMoves ==
  ASSUME RefineInv, TransferInv', NEW p \in Peers, FileControlled(p),
         Head(net[p]).receive_send = 1, Head(net[p]).control = "ACCEPT"
  PROVE  \E n \in Numbers, f \in Ids : Progress(p, n, f)
<1>0. /\ net[p] # <<>> /\ Head(net[p]).type = "control" /\ Alive(p)
      /\ UNCHANGED <<sends, aborted>>
  BY NoAssertion DEF FileControlled, Arrives, client, RefineInv, IsPause
<1>m. PICK m : m = Head(net[p])
  OBVIOUS
<1>n. PICK n : n = m.number
  OBVIOUS
<1>1. TypeOK /\ ~Abort(p) /\ n \in Numbers /\ SentBy(p, n)
  BY <1>0, <1>m, <1>n, Receiving
<1> DEFINE q == Other(p)
<1>a. PICK a, b, sa, sb : /\ a = transfers[p][n] /\ b = transfers[q][Incoming + n]
                          /\ sa = slots[p][n] /\ sb = slots[q][Incoming + n]
  OBVIOUS
<1>2. /\ n \in FileNumbers
      /\ a \in Transfers \cup {None} /\ b \in Transfers \cup {None}
      /\ net[p] \in Seq(Packets) /\ net[q] \in Seq(Packets)
  BY <1>1, <1>a, Entries
<1>3. IsAccept(m, n) /\ NewFileNumber(m.receive_send, m.number) = n
  BY <1>0, <1>1, <1>m, <1>n, FileNumber DEF IsAccept
<1>4. Pair(a, sa, b, sb, net[q], net[p], resumed[q], n)
  BY <1>1, <1>a DEF SentBy
<1>5. Announced(a, sa, b, sb, net[q], net[p], resumed[q], n) /\ sb = "accepted"
  <2>1. ~NoAccept(net[p], n)
    BY <1>0, <1>2, <1>3, <1>m, InTail DEF NoAccept
  <2>. QED  BY <1>4, <2>1 DEF Pair, Idle, Offered, Announced, Sending, Ended
<1>6. /\ a # None /\ a.state = "PAUSED" /\ sa = "offered" /\ b # None /\ b.id = a.id
      /\ a \in Transfers /\ a.id \in Ids
  BY <1>2, <1>5, InTransfer DEF Announced, Paused, Agree
<1> DEFINE t == [a EXCEPT !.state = "RUNNING"]
<1>7. /\ transfers' = [transfers EXCEPT ![p][n] = t]
      /\ slots' = [slots EXCEPT ![p][n] = "accepted"]
  <2>1. /\ transfers' = [transfers EXCEPT ![p][n].state = "RUNNING"]
        /\ slots' = [slots EXCEPT ![p][n] = IF m.receive_send = 1 THEN "accepted" ELSE @]
    BY <1>1, <1>3, <1>6, <1>a, <1>m DEF FileControlled
  <2>2. transfers' = [transfers EXCEPT ![p][n] = t]
    BY <1>1, <1>2, <1>a, <2>1 DEF TypeOK
  <2>. QED  BY <1>m, <2>1, <2>2
<1>8. /\ t # None /\ t.id = a.id /\ t.state = "RUNNING" /\ t.position = a.position
      /\ t.file_size = a.file_size
  <2>1. t \in Transfers
    BY <1>6, TransferTypes
  <2>. QED  BY <1>6, <2>1, NoneAssumption DEF Transfers
<1>9. /\ transfers'[p][n] = t
      /\ \A r \in Peers, k \in FileNumbers : r # p \/ k # n =>
           transfers'[r][k] = transfers[r][k] /\ slots'[r][k] = slots[r][k]
  <2> HIDE DEF t
  <2>1. /\ transfers \in [Peers -> [FileNumbers -> Transfers \cup {None}]]
        /\ slots \in [Peers -> [FileNumbers -> {"none", "offered", "accepted"}]]
    BY <1>1 DEF TypeOK
  <2>2. /\ transfers'[p][n] = t
        /\ \A r \in Peers, k \in FileNumbers : r # p \/ k # n =>
             transfers'[r][k] = transfers[r][k]
    BY ONLY <1>2, <1>7, <2>1, Changed
  <2>3. \A r \in Peers, k \in FileNumbers : r # p \/ k # n => slots'[r][k] = slots[r][k]
    BY ONLY <1>2, <1>7, <2>1, Changed
  <2>. QED  BY <2>2, <2>3
<1> HIDE DEF t
<1>10. Moves(View(a, b, sb, a.id), View(t, b, sb, a.id))
  <2> DEFINE v == View(a, b, sb, a.id)
  <2>1. /\ v.sender = "waiting" /\ v.receiver = "accepted"
        /\ View(t, b, sb, a.id) = [v EXCEPT !.sender = "sending"]
    BY <1>5, <1>6, <1>8 DEF View, Own
  <2> HIDE DEF v
  <2>. QED  BY <2>1 DEF Moves, v
<1>11. Progress(p, n, a.id)
  BY <1>0, <1>1, <1>6, <1>8, <1>9, <1>10, <1>a, SenderProgress
<1>. QED  BY <1>1, <1>6, <1>11

LEMMA ReceiptMoves ==
  ASSUME RefineInv, TransferInv', NEW p \in Peers, FileControlled(p),
         Head(net[p]).receive_send = 1, Head(net[p]).control = "FINISHED"
  PROVE  \E n \in Numbers, f \in Ids : Progress(p, n, f)
<1>0. /\ net[p] # <<>> /\ Head(net[p]).type = "control" /\ Alive(p)
      /\ UNCHANGED <<sends, aborted>>
  BY NoAssertion DEF FileControlled, Arrives, client, RefineInv, IsPause
<1>m. PICK m : m = Head(net[p])
  OBVIOUS
<1>n. PICK n : n = m.number
  OBVIOUS
<1>1. TypeOK /\ ~Abort(p) /\ n \in Numbers /\ SentBy(p, n) /\ SentBy(p, n)'
  BY <1>0, <1>m, <1>n, Receiving
<1> DEFINE q == Other(p)
<1>a. PICK a, b, sa, sb : /\ a = transfers[p][n] /\ b = transfers[q][Incoming + n]
                          /\ sa = slots[p][n] /\ sb = slots[q][Incoming + n]
  OBVIOUS
<1>2. /\ n \in FileNumbers /\ Incoming + n \in FileNumbers /\ q \in Peers /\ q # p
      /\ a \in Transfers \cup {None} /\ b \in Transfers \cup {None}
      /\ net[p] \in Seq(Packets) /\ net[q] \in Seq(Packets)
  BY <1>1, <1>a, Entries
<1>3. IsReceipt(m, n) /\ NewFileNumber(m.receive_send, m.number) = n
  BY <1>0, <1>1, <1>m, <1>n, FileNumber DEF IsReceipt
<1>4. Pair(a, sa, b, sb, net[q], net[p], resumed[q], n)
  BY <1>1, <1>a DEF SentBy
<1>5. /\ a # None /\ a.position = a.file_size /\ a.state = "RUNNING" /\ sa = "accepted"
      /\ b # None => b.id = a.id
  <2>1. ~NoReceipt(net[p], n)
    BY <1>0, <1>2, <1>3, <1>m, InTail DEF NoReceipt
  <2>2. a # None /\ a.position = a.file_size
    BY <1>0, <1>1, <1>2, <1>3, <1>4, <1>m, ReceiptArrives
  <2>. QED  BY <1>4, <2>1, <2>2
            DEF Pair, Idle, Offered, Announced, Sending, Ended, Running, Agree
<1>6. /\ a.id \in Ids /\ a.position \in Nat
      /\ b # None => b.position \in Nat
  BY <1>2, <1>5, InTransfer
<1>7. /\ transfers' = [transfers EXCEPT ![p][n] = None]
      /\ slots' = [slots EXCEPT ![p][n] = "none"]
  BY <1>1, <1>3, <1>5, <1>a, <1>m DEF FileControlled, Forget
<1>8. /\ transfers'[p][n] = None
      /\ \A r \in Peers, k \in FileNumbers : r # p \/ k # n =>
           transfers'[r][k] = transfers[r][k] /\ slots'[r][k] = slots[r][k]
  <2>1. /\ transfers \in [Peers -> [FileNumbers -> Transfers \cup {None}]]
        /\ slots \in [Peers -> [FileNumbers -> {"none", "offered", "accepted"}]]
    BY <1>1 DEF TypeOK
  <2>2. /\ transfers'[p][n] = None
        /\ \A r \in Peers, k \in FileNumbers : r # p \/ k # n =>
             transfers'[r][k] = transfers[r][k]
    BY ONLY <1>2, <1>7, <2>1, Changed
  <2>3. \A r \in Peers, k \in FileNumbers : r # p \/ k # n => slots'[r][k] = slots[r][k]
    BY ONLY <1>2, <1>7, <2>1, Changed
  <2>. QED  BY <2>2, <2>3
<1>9. b # None => b.position = b.file_size
  <2>1. transfers'[q][Incoming + n] = b /\ slots'[q][Incoming + n] = sb
    BY <1>2, <1>8, <1>a
  <2>2. Over(b, sb, net'[q], resumed'[q], n)
    BY <1>1, <1>8, <2>1 DEF SentBy, Pair, Idle, Offered, Paused, Announced, Sending, Running, Ended
  <2>. QED  BY <2>2 DEF Over
<1>10. Moves(View(a, b, sb, a.id), View(None, b, sb, a.id))
  <2> DEFINE v == View(a, b, sb, a.id)
  <2>1. /\ v.sender = "sending" /\ v.unreceived = 0
        /\ View(None, b, sb, a.id) = [v EXCEPT !.sender = "done"]
    BY <1>5, <1>6, <1>9 DEF View, Own
  <2> HIDE DEF v
  <2>. QED  BY <2>1 DEF Moves, v
<1>11. Progress(p, n, a.id)
  BY <1>0, <1>1, <1>5, <1>6, <1>8, <1>10, <1>a, SenderProgress
<1>. QED  BY <1>1, <1>6, <1>11

LEMMA ControlMoves ==
  ASSUME RefineInv, TransferInv', NEW p \in Peers, FileControlled(p), ~IsPause(Head(net[p]))
  PROVE  \E r \in Peers, n \in Numbers, f \in Ids : Progress(r, n, f)
<1>0. net[p] # <<>> /\ Head(net[p]).type = "control"
  BY DEF FileControlled, Arrives
<1>m. PICK m : m = Head(net[p])
  OBVIOUS
<1>1. m \in Packets /\ m.type = "control" /\ m.control # "PAUSE" /\ Other(p) \in Peers
  BY <1>0, <1>m, Arrived, TwoPeers DEF RefineInv, IsPause
<1>2. m.receive_send \in {0, 1} /\ m.control \in {"ACCEPT", "FINISHED"}
  BY <1>1, PacketsFor
<1>3. CASE m.receive_send = 0
  BY <1>1, <1>3, <1>m, EndMoves
<1>4. CASE m.receive_send = 1 /\ m.control = "ACCEPT"
  BY <1>4, <1>m, AcceptMoves
<1>5. CASE m.receive_send = 1 /\ m.control = "FINISHED"
  BY <1>5, <1>m, ReceiptMoves
<1>. QED  BY <1>2, <1>3, <1>4, <1>5

\* A pause moves nothing: the packet is dropped, by an assertion that fails if need be.
LEMMA PauseMoves ==
  ASSUME RefineInv, NEW p \in Peers, FileControlled(p), IsPause(Head(net[p]))
  PROVE  UNCHANGED <<transfers, slots, sends>> /\ Numbers # {}
<1>1. Head(net[p]).control = "PAUSE" /\ net[p] # <<>> /\ UNCHANGED sends
  BY DEF FileControlled, Arrives, IsPause, client
<1>2. Head(net[p]).number \in Numbers
  BY <1>1, Arrived DEF RefineInv
<1>. QED  BY <1>1, <1>2 DEF FileControlled, Abort, Ignore

-----------------------------------------------------------------------------
(* Requests and calls of the clients.                                      *)

LEMMA AskMoves ==
  ASSUME RefineInv, NEW p \in Peers, NEW fn \in FileNumbers, AskChunk(p, fn)
  PROVE  \E n \in Numbers, f \in Ids : Progress(p, n, f)
<1>0. TypeOK /\ TransferInv /\ slots' = slots /\ sends' = sends
  BY DEF RefineInv, TransferInv, AskChunk, client
<1>a. PICK a, b, sb : /\ a = transfers[p][fn] /\ b = transfers[Other(p)][Incoming + fn]
                      /\ sb = slots[Other(p)][Incoming + fn]
  OBVIOUS
<1>1. /\ a # None /\ a.state = "RUNNING"
      /\ transfers' = [transfers EXCEPT ![p][fn] = Asked(a)]
  BY <1>a DEF AskChunk, Wants
<1>2. fn \in Numbers
  <2>1. CASE ~(fn < Incoming)
    <3>1. fn = Incoming + OldFileNumber(fn) /\ OldFileNumber(fn) \in Numbers
      BY <2>1, FileNumberIs
    <3>2. a.state = "PAUSED"
      BY <1>0, <1>1, <1>a, <3>1 DEF TransferInv, ReceiverInv
    <3>. QED  BY <1>1, <3>2
  <2>. QED  BY <2>1, FileNumberIs
<1>3. a \in Transfers /\ a.id \in Ids
  BY <1>0, <1>1, <1>2, <1>a, Entries, InTransfer
<1>t. PICK t : t = Asked(a)
  OBVIOUS
<1>4. /\ t # None /\ t.id = a.id /\ t.state = a.state /\ t.position = a.position
      /\ t.file_size = a.file_size
  <2>1. t \in Transfers
    BY <1>3, <1>t, TransferTypes DEF Asked
  <2>. QED  BY <1>3, <1>t, <2>1, NoneAssumption DEF Asked, Transfers
<1>5. /\ transfers'[p][fn] = t
      /\ \A r \in Peers, k \in FileNumbers : r # p \/ k # fn =>
           transfers'[r][k] = transfers[r][k]
  <2>1. transfers \in [Peers -> [FileNumbers -> Transfers \cup {None}]]
    BY <1>0 DEF TypeOK
  <2>. QED  BY ONLY <1>1, <1>t, <2>1, Changed, p \in Peers, fn \in FileNumbers
<1>6. Moves(View(a, b, sb, a.id), View(t, b, sb, a.id))
  <2>1. View(t, b, sb, a.id) = View(a, b, sb, a.id)
    BY <1>1, <1>4 DEF View, Own
  <2>. QED  BY <2>1 DEF Moves
<1>7. Progress(p, fn, a.id)
  BY <1>0, <1>1, <1>2, <1>3, <1>4, <1>5, <1>6, <1>a, SenderProgress
<1>. QED  BY <1>2, <1>3, <1>7

LEMMA SendMoves ==
  ASSUME RefineInv, Allowed \subseteq Tolerated, NEW p \in Peers, NEW i \in DOMAIN asked[p],
         NEW length \in ChunkLengths(asked[p][i]), SendChunk(p, i, length),
         ~UNCHANGED <<transfers, net>>
  PROVE  \E n \in Numbers, f \in Ids : Progress(p, n, f)
<1>0. TypeOK /\ TransferInv /\ slots' = slots /\ sends' = sends /\ length > 0
  BY DEF RefineInv, TransferInv, SendChunk, client
<1>r. PICK r : r = asked[p][i]
  OBVIOUS
<1>n. PICK n \in FileNumbers : n = r.number
  BY <1>0, <1>r, RequestsAre
<1>a. PICK a, b, sb : /\ a = transfers[p][n] /\ b = transfers[Other(p)][Incoming + n]
                      /\ sb = slots[Other(p)][Incoming + n]
  OBVIOUS
<1>1. /\ a # None /\ a.id = r.id /\ a.position = r.position /\ a.event_pending
      /\ r.position + r.length <= a.file_size /\ n < Incoming
  BY <1>0, <1>n, <1>r, <1>a DEF TransferInv, RequestInv, RequestsCurrent, DataOnlyOutgoing
<1>2. n \in Numbers /\ OldFileNumber(n) = n
  BY <1>1, FileNumberIs
<1>3. /\ a \in Transfers /\ a.id \in Ids /\ a.file_size \in Sizes
      /\ a.position \in Nat /\ a.file_size \in Nat
  BY <1>0, <1>1, <1>2, <1>a, Entries, InTransfer
<1>4. a.state = "RUNNING"
  BY <1>0, <1>1, <1>2, <1>a DEF TransferInv, RequestInv
<1>p. PICK pos : pos = a.position + length
  OBVIOUS
<1>5. /\ length \in Nat \ {0} /\ length \in 1..DataSize
      /\ pos \in Nat /\ a.position < pos /\ pos <= a.file_size
  <2>1. length \in 1..r.length
    BY <1>0, <1>r DEF ChunkLengths, Tolerated
  <2>2. r.length \in 1..DataSize /\ DataSize \in Nat
    BY <1>0, <1>r, RequestsAre, TransfersAssumption
  <2>. QED  BY <1>1, <1>3, <1>p, <2>1, <2>2
<1>6. (a.position + length) % WordSize = pos
  <2>1. WordSize \in Nat \ {0} /\ a.file_size < WordSize
    <3>1. DataSize \in Nat /\ WordSize \in Nat \ {0} /\ a.file_size + DataSize < WordSize
      BY <1>3, Widths
    <3>. QED  BY <1>3, <3>1
  <2>2. pos < WordSize
    BY <1>3, <1>5, <2>1
  <2>. QED  BY <1>5, <1>p, <2>1, <2>2, Modulo
<1>t. PICK t : t = [a EXCEPT !.position = pos, !.event_pending = FALSE]
  OBVIOUS
<1>7. /\ t # None /\ t.id = a.id /\ t.state = a.state /\ t.position = pos
      /\ t.file_size = a.file_size
  <2>1. t \in Transfers
    <3>1. length \in 0..DataSize
      BY <1>5
    <3>. QED  BY <1>3, <1>6, <1>t, <3>1, TransferTypes
  <2>. QED  BY <1>3, <1>t, <2>1, NoneAssumption DEF Transfers
<1>8. transfers' = [transfers EXCEPT ![p][n] = t]
  <2>3. transfers' = [transfers EXCEPT ![p][n].position = pos, ![p][n].event_pending = FALSE]
    BY <1>1, <1>6, <1>a, <1>n, <1>r DEF SendChunk
  <2>4. transfers \in [Peers -> [FileNumbers -> Transfers \cup {None}]]
    BY <1>0 DEF TypeOK
  <2>. QED  BY <1>a, <1>t, <2>3, <2>4
<1>9. /\ transfers'[p][n] = t
      /\ \A s \in Peers, k \in FileNumbers : s # p \/ k # n =>
           transfers'[s][k] = transfers[s][k]
  <2>1. transfers \in [Peers -> [FileNumbers -> Transfers \cup {None}]]
    BY <1>0 DEF TypeOK
  <2>. QED  BY ONLY <1>8, <2>1, Changed, p \in Peers, n \in FileNumbers
<1>10. Moves(View(a, b, sb, a.id), View(t, b, sb, a.id))
  <2> DEFINE v == View(a, b, sb, a.id)
  <2>1. /\ v.sender = "sending" /\ v.unsent = a.file_size - a.position
        /\ View(t, b, sb, a.id) = [v EXCEPT !.unsent = a.file_size - pos]
    BY <1>1, <1>4, <1>7 DEF View, Own
  <2>2. a.file_size - pos \in 0..(a.file_size - a.position - 1)
    BY <1>3, <1>5
  <2> HIDE DEF v
  <2>. QED  BY <2>1, <2>2 DEF Moves, v
<1>11. Progress(p, n, a.id)
  BY <1>0, <1>1, <1>2, <1>3, <1>7, <1>9, <1>10, <1>a, SenderProgress
<1>. QED  BY <1>2, <1>3, <1>11

LEMMA OfferMoves ==
  ASSUME RefineInv, NEW p \in Peers, NEW n \in Numbers, NEW size \in Sizes,
         NEW cause \in Garbage, FileSend(p, n, size, cause)
  PROVE  \E f \in Ids : Begins(p, n, f)
<1>0. /\ TypeOK /\ TransferInv /\ slots[p][n] = "none"
      /\ slots' = [slots EXCEPT ![p][n] = "offered"]
      /\ sends' = [sends EXCEPT ![p] = @ + 1]
  BY DEF RefineInv, TransferInv, FileSend
<1>1. sends[p] \in Nat /\ sends[p] < MaxSends[p]
  BY <1>0 DEF FileSend, TypeOK
<1>f. PICK f : f = <<p, sends[p] + 1>>
  OBVIOUS
<1>2. f \in Ids /\ f[1] = p /\ f[2] = sends[p] + 1
  BY <1>1, <1>f, NewId
<1>t. PICK t : t = Transfer(f, size, cause)
  OBVIOUS
<1>3. /\ t # None /\ t.id = f /\ t.state = "PAUSED" /\ t.position = 0
      /\ t.file_size = size /\ size \in Nat
  <2>1. t # None
    BY <1>2, <1>t, TransferMade, NoneAssumption
  <2>. QED  BY <1>t, <2>1, TransfersAssumption DEF Transfer
<1>a. PICK a, b, sb : /\ a = transfers[p][n] /\ b = transfers[Other(p)][Incoming + n]
                      /\ sb = slots[Other(p)][Incoming + n]
  OBVIOUS
<1>4. a = None /\ transfers' = [transfers EXCEPT ![p][n] = t]
  <2>1. a = None
    BY <1>0, <1>a, EntryKnown, FileNumber
  <2>. QED  BY <1>a, <1>f, <1>t, <2>1 DEF FileSend
<1>5. n \in FileNumbers
  BY FileNumber
<1>6. /\ transfers'[p][n] = t
      /\ \A s \in Peers, k \in FileNumbers : s # p \/ k # n =>
           transfers'[s][k] = transfers[s][k] /\ slots'[s][k] = slots[s][k]
  <2>1. /\ transfers \in [Peers -> [FileNumbers -> Transfers \cup {None}]]
        /\ slots \in [Peers -> [FileNumbers -> {"none", "offered", "accepted"}]]
    BY <1>0 DEF TypeOK
  <2>2. /\ transfers'[p][n] = t
        /\ \A s \in Peers, k \in FileNumbers : s # p \/ k # n =>
             transfers'[s][k] = transfers[s][k]
    BY ONLY <1>4, <1>5, <2>1, Changed, p \in Peers
  <2>3. \A s \in Peers, k \in FileNumbers : s # p \/ k # n => slots'[s][k] = slots[s][k]
    BY ONLY <1>0, <1>5, <2>1, Changed, p \in Peers
  <2>. QED  BY <2>2, <2>3
<1>7. transfers'[Other(p)][Incoming + n] = b /\ slots'[Other(p)][Incoming + n] = sb
  BY <1>6, <1>a, TwoPeers, FileNumber
<1>8. b # None => b.id # f
  <2>1. SUFFICES ASSUME b # None, b.id = f  PROVE FALSE
    OBVIOUS
  <2>2. Holds(p, n, f)
    BY <1>a, <2>1 DEF Holds
  <2>3. f[2] <= sends[p]
    BY <1>2, <2>2 DEF RefineInv, UniqueInv
  <2>. QED  BY <1>1, <1>2, <2>3
<1>9. Frame(p, n)
  BY <1>5, <1>6, FrameIs
<1>10. Holds(p, n, f)' /\ \A g \in Ids : Holds(p, n, g)' => Holds(p, n, g) \/ g = f
  BY <1>3, <1>6, <1>7, <1>a DEF Holds
<1>11. \A g \in Ids : g # f => View(t, b, sb, g) = View(a, b, sb, g)
  BY <1>3, <1>4 DEF View, Own
<1>12. View(t, b, sb, f) = [sender |-> "waiting", receiver |-> "none",
                            unsent |-> size, unreceived |-> size]
  <2>1. Own(t, f) = t /\ Own(b, f) = None
    BY <1>3, <1>8 DEF Own
  <2>2. size - 0 = size
    BY <1>3
  <2>. QED  BY <1>3, <2>1, <2>2 DEF View
<1>13. /\ \A g \in Ids : g # f => ViewOf(p, n, g)' = ViewOf(p, n, g)
       /\ ViewOf(p, n, f)' = [sender |-> "waiting", receiver |-> "none",
                              unsent |-> size, unreceived |-> size]
  BY <1>6, <1>7, <1>11, <1>12, <1>a DEF ViewOf
<1>14. Begins(p, n, f)
  BY <1>0, <1>9, <1>10, <1>13, <1>f DEF Begins
<1>. QED  BY <1>2, <1>14

LEMMA ResumeMoves ==
  ASSUME RefineInv, Allowed \subseteq Tolerated, NEW p \in Peers, NEW fn \in FileNumbers,
         Resume(p, fn)
  PROVE  \E n \in Numbers, f \in Ids : Progress(Other(p), n, f)
<1>0. TypeOK /\ TransferInv /\ transfers' = transfers /\ sends' = sends
  BY DEF RefineInv, TransferInv, Resume
<1>1. /\ ~(fn < Incoming) /\ fn >= Incoming /\ transfers[p][fn] # None
      /\ transfers[p][fn].id \notin resumed[p]
  <2>1. MayResume(p, fn) /\ transfers[p][fn] # None
    BY DEF Resume, Controls
  <2>. QED  BY <2>1, FileNumberIs DEF MayResume, Incoming, Tolerated
<1>n. PICK n \in Numbers : fn = Incoming + n
  BY <1>1, FileNumberIs
<1>a. PICK a, b, sa, sb : /\ a = transfers[Other(p)][n] /\ b = transfers[p][fn]
                          /\ sa = slots[Other(p)][n] /\ sb = slots[p][fn]
  OBVIOUS
<1>2. /\ a \in Transfers \cup {None} /\ b \in Transfers \cup {None}
      /\ net[p] \in Seq(Packets) /\ net[Other(p)] \in Seq(Packets)
      /\ Pair(a, sa, b, sb, net[p], net[Other(p)], resumed[p], n)
  <2>1. ReceivedBy(p, n)
    BY <1>0, PairsOf DEF TransferInv
  <2>. QED  BY <1>0, <1>a, <1>n, <2>1, Entries DEF ReceivedBy
<1>3. a # None /\ b # None /\ a.id = b.id /\ sb = "offered"
  <2>1. b # None /\ b.id \notin resumed[p]
    BY <1>1, <1>a
  <2>2. Announced(a, sa, b, sb, net[p], net[Other(p)], resumed[p], n) /\ a # None /\ a.id = b.id
    BY <1>2, <2>1, FileResumed
  <2>. QED  BY <2>1, <2>2 DEF Announced
<1>4. b.id \in Ids
  BY <1>2, <1>3, InTransfer
<1>5. slots' = [slots EXCEPT ![p][fn] = "accepted"]
  <2>1. slots' = [slots EXCEPT ![p][fn] = IF @ = "offered" /\ fn >= Incoming THEN "accepted" ELSE @]
    BY DEF Resume
  <2>. QED  BY <1>0, <1>1, <1>3, <1>a, <2>1 DEF TypeOK
<1>6. /\ transfers'[p][fn] = b /\ slots'[p][fn] = "accepted"
      /\ \A s \in Peers, k \in FileNumbers : s # p \/ k # fn =>
           transfers'[s][k] = transfers[s][k] /\ slots'[s][k] = slots[s][k]
  <2>1. slots \in [Peers -> [FileNumbers -> {"none", "offered", "accepted"}]]
    BY <1>0 DEF TypeOK
  <2>2. /\ slots'[p][fn] = "accepted"
        /\ \A s \in Peers, k \in FileNumbers : s # p \/ k # fn => slots'[s][k] = slots[s][k]
    BY ONLY <1>5, <2>1, Changed, p \in Peers, fn \in FileNumbers
  <2>. QED  BY <1>0, <1>a, <2>2
<1>7. Moves(View(a, b, sb, b.id), View(a, b, "accepted", b.id))
  <2> DEFINE v == View(a, b, sb, b.id)
  <2>1. v.receiver = "offered" /\ View(a, b, "accepted", b.id) = [v EXCEPT !.receiver = "accepted"]
    BY <1>3 DEF View, Own
  <2> HIDE DEF v
  <2>. QED  BY <2>1 DEF Moves, v
<1>8. Progress(Other(p), n, b.id)
  BY <1>0, <1>3, <1>4, <1>6, <1>7, <1>a, <1>n, ReceiverProgress
<1>. QED  BY <1>4, <1>8

-----------------------------------------------------------------------------
(* Every step.                                                             *)

\* What FileDelivery does not see: nothing but packets changes, and no offers among them.
Still == UNCHANGED <<transfers, slots, sends>> /\ (Numbers # {} \/ UNCHANGED net)

\* Every step moves a file, offers one, or leaves all of them as they are.
LEMMA StepMoves ==
  ASSUME Allowed \subseteq Tolerated, RefineInv, TransferInv', [Next]_vars
  PROVE  \/ \E p \in Peers, n \in Numbers, f \in Ids : Progress(p, n, f) \/ Begins(p, n, f)
         \/ Still
<1> DEFINE Moved == \E p \in Peers, n \in Numbers, f \in Ids : Progress(p, n, f) \/ Begins(p, n, f)
<1>1. UNCHANGED vars => Still
  BY DEF vars, client, Still
<1>2. ASSUME NEW p \in Peers, Receives(p)  PROVE Moved \/ Still
  <2>1. CASE FileControlled(p) /\ IsPause(Head(net[p]))
    BY <2>1, PauseMoves DEF Still
  <2>2. CASE FileControlled(p) /\ ~IsPause(Head(net[p]))
    BY <2>2, ControlMoves
  <2>. QED  BY <1>2, <2>1, <2>2, TwoPeers, RequestMoves, DataMoves DEF Receives
<1>3. ASSUME NEW p \in Peers, Asks(p)  PROVE Moved \/ Still
  <2>1. CASE IterationReturns(p)
    BY <2>1 DEF IterationReturns, client, Still
  <2>2. CASE \E fn \in FileNumbers : AskChunk(p, fn)
    BY <2>2, AskMoves
  <2>. QED  BY <1>3, <2>1, <2>2 DEF Asks
<1>4. ASSUME NEW p \in Peers, NEW i \in DOMAIN asked[p],
             NEW length \in ChunkLengths(asked[p][i]), SendChunk(p, i, length)
      PROVE  Moved \/ Still
  <2>1. CASE UNCHANGED <<transfers, net>>
    BY <1>4, <2>1 DEF SendChunk, Still, client
  <2>2. CASE ~UNCHANGED <<transfers, net>>
    BY <1>4, <2>2, SendMoves
  <2>. QED  BY <2>1, <2>2
<1>5. ASSUME NEW p \in Peers, Offers(p)  PROVE Moved \/ Still
  BY <1>5, OfferMoves DEF Offers
<1>6. ASSUME NEW p \in Peers, NEW fn \in FileNumbers, Calls(p, fn)  PROVE Moved \/ Still
  <2>1. CASE Pause(p, fn)
    <3>1. Numbers # {}
      BY FileNumberIs
    <3>. QED  BY <2>1, <3>1 DEF Pause, Still, client
  <2>. QED  BY <1>6, <2>1, ResumeMoves, TwoPeers DEF Calls
<1>7. ASSUME NEW p \in Peers, FriendDelete(p) \/ FriendAdd(p)  PROVE FALSE
  BY <1>7 DEF FriendDelete, FriendAdd, RefineInv, TransferInv, PeerInv, Tolerated
<1> HIDE DEF Moved
<1>8. Moved \/ Still
  BY <1>1, <1>2, <1>3, <1>4, <1>5, <1>6, <1>7 DEF Next, Answers
<1>. QED  BY <1>8 DEF Moved

LEMMA RefineStep ==
  ASSUME Allowed \subseteq Tolerated, RefineInv, [Next]_vars
  PROVE  RefineInv' /\ [Delivery!DNext]_([f \in Ids |-> FileOf(f)])
<1>1. TransferInv'
  BY TransferStep DEF RefineInv
<1>2. CASE Still
  <2>1. RefineInv'
    <3>1. UniqueInv'
      BY <1>2 DEF RefineInv, UniqueInv, Holds, Still
    <3>. QED  BY <1>1, <3>1 DEF RefineInv
  <2>2. \A f \in Ids : FileOf(f)' = FileOf(f)
    <3>1. CASE UNCHANGED net
      BY <1>2, <3>1 DEF FileOf, Entry, Slot, Announcements, Still
    <3>2. CASE Numbers # {}
      <4>1. ASSUME NEW f \in Ids  PROVE FileOf(f)' = FileOf(f)
        <5>p. PICK p \in Peers : p = f[1]
          BY IdIs
        <5>1. UNCHANGED <<transfers, slots, sends>>
          BY <1>2 DEF Still
        <5>2. CASE sends[p] < f[2]
          BY <5>1, <5>2, <5>p DEF FileOf
        <5>3. CASE ~(sends[p] < f[2])
          <6>1. PICK n \in Numbers : ~Elsewhere(p, n, f)
            BY <3>2 DEF RefineInv, UniqueInv, Elsewhere
          <6>2. f[2] <= sends[p]
            BY <5>3, <5>p, IdIs DEF RefineInv, TransferInv, TypeOK
          <6>3. FileOf(f) = ViewOf(p, n, f)
            BY <5>p, <6>1, <6>2, AllSeen DEF FilesSeen
          <6>4. FileOf(f)' = ViewOf(p, n, f)'
            <7>1. ~Elsewhere(p, n, f)' /\ f[2] <= sends'[p]
              BY <5>1, <6>1, <6>2 DEF Elsewhere, Holds
            <7>. QED  BY <2>1, <5>p, <7>1, AllSeenNext DEF FilesSeen
          <6>5. ViewOf(p, n, f)' = ViewOf(p, n, f)
            BY <5>1 DEF ViewOf
          <6>. QED  BY <6>3, <6>4, <6>5
        <5>. QED  BY <5>2, <5>3
      <4>. QED  BY <4>1
    <3>. QED  BY <1>2, <3>1, <3>2 DEF Still
  <2>. QED  BY <2>1, <2>2
<1>3. ASSUME NEW p \in Peers, NEW n \in Numbers, NEW f \in Ids,
             Progress(p, n, f) \/ Begins(p, n, f)
      PROVE  RefineInv' /\ [Delivery!DNext]_([g \in Ids |-> FileOf(g)])
  <2>1. RefineInv'
    <3>1. UniqueInv'
      BY <1>3, UniqueKept
    <3>. QED  BY <1>1, <3>1 DEF RefineInv
  <2>2. CASE Progress(p, n, f)
    BY <2>1, <2>2, FileMoves
  <2>3. CASE Begins(p, n, f)
    BY <2>1, <2>3, FileBegins
  <2>. QED  BY <1>3, <2>1, <2>2, <2>3
<1>. QED  BY <1>1, <1>2, <1>3, StepMoves

LEMMA RefineStarts == Init => RefineInv /\ Delivery!DInit
<1> SUFFICES ASSUME Init  PROVE RefineInv /\ Delivery!DInit
  OBVIOUS
<1>1. UniqueInv
  <2>1. ASSUME NEW p \in Peers, NEW n \in Numbers, NEW f  PROVE ~Holds(p, n, f)
    BY TwoPeers, FileNumber DEF Init, Holds
  <2>. QED  BY <2>1 DEF UniqueInv
<1>2. ASSUME NEW f \in Ids  PROVE FileOf(f) = Delivery!NotOffered
  <2>1. sends[f[1]] = 0
    BY IdIs DEF Init
  <2>2. 0 < f[2]
    BY DEF Ids
  <2>. QED  BY <2>1, <2>2 DEF FileOf, Delivery!NotOffered
<1>3. Delivery!DInit
  BY <1>2 DEF Delivery!DInit
<1>. QED  BY <1>1, <1>3, TransferStarts DEF RefineInv

\* Every file is delivered whole: no data is sent before the receiver accepted, nothing is
\* received that was not sent, and neither side gives the transfer up before the receiver
\* has the last byte, although file numbers are reused.
THEOREM FilesDelivered ==
  ASSUME Allowed \subseteq Tolerated
  PROVE  Spec => ImplementsDelivery
<1>1. RefineInv /\ [Next]_vars =>
        RefineInv' /\ [Delivery!DNext]_([f \in Ids |-> FileOf(f)])
  BY RefineStep
<1>. QED  BY <1>1, RefineStarts, PTL DEF Spec, ImplementsDelivery, Delivery!DSpec

-----------------------------------------------------------------------------
(* Who is told that a file is finished.                                    *)

\* A client is told of files it sends or has resumed, that have all been moved and that
\* the wrapper has given up, of each file once; and of all files it sends.
TellInv ==
  \A p \in Peers :
    /\ \A f \in GivenIds(p, sends[p]) :
         Keeps(p, f) \/ \E k \in DOMAIN told[p] : told[p][k].id = f
    /\ \A k \in DOMAIN told[p] :
         /\ told[p][k].id \in GivenIds(p, sends[p]) \cup resumed[p]
         /\ ~Keeps(p, told[p][k].id)
         /\ told[p][k].position = told[p][k].file_size
         /\ \A l \in DOMAIN told[p] : told[p][k].id = told[p][l].id => k = l

\* A step that gives up no transfer, and begins none.
LEMMA TellKept ==
  ASSUME TellInv, UNCHANGED <<told, sends>>,
         \A p \in Peers : resumed[p] \subseteq resumed'[p],
         \A p \in Peers : \A f : Keeps(p, f)' <=> Keeps(p, f)
  PROVE  TellInv'
BY DEF TellInv

LEMMA TellStays ==
  ASSUME TellInv, UNCHANGED <<transfers, told, sends>>,
         \A p \in Peers : resumed[p] \subseteq resumed'[p]
  PROVE  TellInv'
BY TellKept DEF Keeps

\* An entry changes, but not the file it is of.
LEMMA TellSame ==
  ASSUME TypeOK, TellInv, UNCHANGED <<told, client>>,
         NEW p \in Peers, NEW fn \in FileNumbers, NEW t \in Transfers,
         transfers[p][fn] # None, t.id = transfers[p][fn].id,
         transfers' = [transfers EXCEPT ![p][fn] = t]
  PROVE  TellInv'
<1>0. t # None
  BY NoneAssumption
<1>1. /\ transfers'[p][fn] = t
      /\ \A q \in Peers, k \in FileNumbers : q # p \/ k # fn => transfers'[q][k] = transfers[q][k]
  BY Changed DEF TypeOK
<1>2. \A q \in Peers : \A f : Keeps(q, f)' <=> Keeps(q, f)
  BY <1>0, <1>1 DEF Keeps
<1>. QED  BY <1>2, TellKept DEF client

\* Of no file are there two entries.
LEMMA EntryAlone ==
  ASSUME RefineInv, NEW p \in Peers, NEW j \in FileNumbers, NEW k \in FileNumbers,
         transfers[p][j] # None, transfers[p][k] # None, transfers[p][j].id = transfers[p][k].id
  PROVE  j = k
<1>f. PICK f : f = transfers[p][j].id
  OBVIOUS
<1>1. f \in Ids /\ transfers[p][k].id = f
  BY <1>f, InTransfer DEF RefineInv, TransferInv, TypeOK
<1>2. Other(p) \in Peers /\ Other(p) # p /\ Other(Other(p)) = p
  BY TwoPeers
<1>3. ASSUME NEW fn \in FileNumbers, transfers[p][fn] # None, transfers[p][fn].id = f
      PROVE  \/ fn < Incoming /\ f[1] = p /\ fn \in Numbers /\ Holds(p, fn, f)
             \/ /\ ~(fn < Incoming) /\ f[1] = Other(p)
                /\ \E n \in Numbers : fn = Incoming + n /\ Holds(Other(p), n, f)
  <2>1. CASE fn < Incoming
    <3>1. fn \in Numbers /\ Holds(p, fn, f)
      BY <1>3, <2>1, FileNumberIs DEF Holds
    <3>. QED  BY <1>1, <2>1, <3>1 DEF RefineInv, UniqueInv
  <2>2. CASE ~(fn < Incoming)
    <3>1. PICK n \in Numbers : fn = Incoming + n
      BY <2>2, FileNumberIs
    <3>2. Holds(Other(p), n, f)
      BY <1>2, <1>3, <3>1 DEF Holds
    <3>. QED  BY <1>1, <1>2, <2>2, <3>1, <3>2 DEF RefineInv, UniqueInv
  <2>. QED  BY <2>1, <2>2
<1>4. CASE f[1] = p
  <2>1. j \in Numbers /\ k \in Numbers /\ Holds(p, j, f) /\ Holds(p, k, f)
    BY <1>1, <1>2, <1>3, <1>4, <1>f
  <2>. QED  BY <1>1, <2>1 DEF RefineInv, UniqueInv
<1>5. CASE f[1] # p
  <2>1. PICK m \in Numbers, n \in Numbers :
          j = Incoming + m /\ k = Incoming + n /\ Holds(Other(p), m, f) /\ Holds(Other(p), n, f)
    BY <1>1, <1>2, <1>3, <1>5, <1>f
  <2>. QED  BY <1>1, <1>2, <2>1 DEF RefineInv, UniqueInv
<1>. QED  BY <1>4, <1>5

\* A transfer is given up.
LEMMA TellOnce ==
  ASSUME RefineInv, TellInv, UNCHANGED client, NEW p \in Peers, NEW fn \in FileNumbers,
         transfers[p][fn] # None, transfers[p][fn].position = transfers[p][fn].file_size,
         transfers[p][fn].id \in GivenIds(p, sends[p]) \cup resumed[p],
         Tell(p, fn), Forget(p, fn)
  PROVE  TellInv'
<1>e. PICK e, id, s : e = Notice(transfers[p][fn], fn) /\ id = transfers[p][fn].id /\ s = told[p]
  OBVIOUS
<1>0. TypeOK
  BY DEF RefineInv, TransferInv
<1>1. e.id = id /\ e.position = e.file_size
  BY <1>e DEF Notice
<1>2. Keeps(p, id) /\ \A k \in DOMAIN s : s[k].id # id
  BY <1>e DEF Keeps, TellInv
<1>3. /\ transfers'[p][fn] = None
      /\ \A q \in Peers, k \in FileNumbers : q # p \/ k # fn => transfers'[q][k] = transfers[q][k]
  BY <1>0, Changed DEF TypeOK, Forget
<1>4. /\ ~Keeps(p, id)'
      /\ \A q \in Peers : \A f : q # p \/ f # id => (Keeps(q, f)' <=> Keeps(q, f))
  <2>1. ~Keeps(p, id)'
    <3>1. ASSUME NEW k \in FileNumbers, transfers'[p][k] # None, transfers'[p][k].id = id
          PROVE  FALSE
      <4>1. k # fn /\ transfers[p][k] = transfers'[p][k]
        BY <1>3, <3>1
      <4>. QED  BY <1>e, <3>1, <4>1, EntryAlone
    <3>. QED  BY <3>1 DEF Keeps
  <2>2. ASSUME NEW q \in Peers, NEW f, q # p \/ f # id  PROVE Keeps(q, f)' <=> Keeps(q, f)
    BY <1>3, <1>e, <2>2 DEF Keeps
  <2>. QED  BY <2>1, <2>2
<1>5. /\ s \in Seq(Notices)
      /\ told'[p] = Append(s, e) /\ \A q \in Peers : q # p => told'[q] = told[q]
  BY <1>0, <1>e DEF TypeOK, Tell
<1>6. /\ Len(s) + 1 \in DOMAIN told'[p] /\ told'[p][Len(s) + 1] = e
      /\ \A k \in DOMAIN s : k \in DOMAIN told'[p] /\ told'[p][k] = s[k]
      /\ \A k \in DOMAIN told'[p] : k = Len(s) + 1 \/ k \in DOMAIN s
  BY <1>5
<1>7. sends' = sends /\ resumed' = resumed
  BY DEF client
<1>8. ASSUME NEW q \in Peers, NEW f \in GivenIds(q, sends[q])
      PROVE  Keeps(q, f)' \/ \E k \in DOMAIN told'[q] : told'[q][k].id = f
  <2>1. Keeps(q, f) \/ \E k \in DOMAIN told[q] : told[q][k].id = f
    BY DEF TellInv
  <2>2. CASE q # p
    BY <1>4, <1>5, <2>1, <2>2
  <2>3. CASE q = p
    BY <1>1, <1>4, <1>6, <1>e, <2>1, <2>3
  <2>. QED  BY <2>2, <2>3
<1>9. ASSUME NEW q \in Peers, NEW k \in DOMAIN told'[q]
      PROVE  /\ told'[q][k].id \in GivenIds(q, sends[q]) \cup resumed[q]
             /\ ~Keeps(q, told[q][k].id)'
             /\ told'[q][k].position = told'[q][k].file_size
             /\ \A l \in DOMAIN told'[q] : told'[q][k].id = told'[q][l].id => k = l
  <2>g. PICK g : g = told'[q][k].id
    OBVIOUS
  <2>1. CASE q # p
    <3>1. /\ g \in GivenIds(q, sends[q]) \cup resumed[q] /\ ~Keeps(q, g)
          /\ told[q][k].position = told[q][k].file_size
          /\ \A l \in DOMAIN told[q] : told[q][k].id = told[q][l].id => k = l
      BY <1>5, <2>g, <2>1 DEF TellInv
    <3>2. ~Keeps(q, g)'
      BY <1>4, <2>1, <3>1
    <3>. QED  BY <1>5, <2>1, <2>g, <3>1, <3>2
  <2>2. CASE q = p /\ k \in DOMAIN s
    <3>1. /\ g = s[k].id /\ g \in GivenIds(p, sends[p]) \cup resumed[p] /\ ~Keeps(p, g)
          /\ s[k].position = s[k].file_size
          /\ \A l \in DOMAIN s : g = s[l].id => k = l
      BY <1>6, <1>e, <2>2, <2>g DEF TellInv
    <3>2. g # id /\ ~Keeps(p, g)'
      BY <1>2, <1>4, <2>2, <3>1
    <3>3. \A l \in DOMAIN told'[p] : g = told'[p][l].id => k = l
      BY <1>1, <1>6, <3>1, <3>2
    <3>. QED  BY <1>6, <2>2, <2>g, <3>1, <3>2, <3>3
  <2>3. CASE q = p /\ k = Len(s) + 1
    <3>1. g = id /\ told'[p][k] = e
      BY <1>1, <1>6, <2>3, <2>g
    <3>2. \A l \in DOMAIN told'[p] : g = told'[p][l].id => k = l
      BY <1>2, <1>6, <2>3, <3>1
    <3>. QED  BY <1>1, <1>4, <1>e, <2>3, <2>g, <3>1, <3>2
  <2>. QED  BY <1>6, <2>1, <2>2, <2>3
<1>10. /\ \A q \in Peers : \A f \in GivenIds(q, sends'[q]) :
            Keeps(q, f)' \/ \E k \in DOMAIN told'[q] : told'[q][k].id = f
       /\ \A q \in Peers : \A k \in DOMAIN told'[q] :
            told'[q][k].id \in GivenIds(q, sends'[q]) \cup resumed'[q]
  BY <1>7, <1>8, <1>9
<1>. QED  BY <1>9, <1>10 DEF TellInv

\* A transfer begins, of a file the peer was not told of.
LEMMA TellBegins ==
  ASSUME TypeOK, TellInv, UNCHANGED <<told, resumed>>, NEW p \in Peers, NEW fn \in FileNumbers,
         NEW t \in Transfers, transfers[p][fn] = None,
         transfers' = [transfers EXCEPT ![p][fn] = t],
         t.id \notin GivenIds(p, sends[p]) \cup resumed[p],
         \A q \in Peers : GivenIds(q, sends[q]) \subseteq GivenIds(q, sends'[q]),
         \A q \in Peers : GivenIds(q, sends'[q]) \ GivenIds(q, sends[q]) # {} =>
                            q = p /\ GivenIds(p, sends'[p]) \ GivenIds(p, sends[p]) = {t.id}
  PROVE  TellInv'
<1>1. t # None
  BY NoneAssumption
<1>2. /\ transfers'[p][fn] = t
      /\ \A q \in Peers, k \in FileNumbers : q # p \/ k # fn => transfers'[q][k] = transfers[q][k]
  BY Changed DEF TypeOK
<1>3. fn \in FileNumbers /\ Keeps(p, t.id)'
  BY <1>1, <1>2 DEF Keeps
<1>4. \A q \in Peers : \A f : q # p \/ f # t.id => (Keeps(q, f)' <=> Keeps(q, f))
  BY <1>1, <1>2 DEF Keeps
<1>5. ASSUME NEW q \in Peers, NEW f \in GivenIds(q, sends'[q])
      PROVE  Keeps(q, f)' \/ \E k \in DOMAIN told[q] : told[q][k].id = f
  <2>1. CASE f \in GivenIds(q, sends[q])
    BY <1>3, <1>4, <2>1 DEF TellInv
  <2>2. CASE f \notin GivenIds(q, sends[q])
    BY <1>3, <1>5, <2>2
  <2>. QED  BY <2>1, <2>2
<1>6. ASSUME NEW q \in Peers, NEW k \in DOMAIN told[q]
      PROVE  /\ told[q][k].id \in GivenIds(q, sends'[q]) \cup resumed[q]
             /\ ~Keeps(q, told[q][k].id)'
  <2>g. PICK g : g = told[q][k].id
    OBVIOUS
  <2>1. g \in GivenIds(q, sends[q]) \cup resumed[q] /\ ~Keeps(q, g)
    BY <2>g DEF TellInv
  <2>2. g \in GivenIds(q, sends'[q]) \cup resumed[q] /\ (q # p \/ g # t.id)
    BY <2>1
  <2>3. ~Keeps(q, g)'
    BY <1>4, <2>1, <2>2
  <2>. QED  BY <2>g, <2>2, <2>3
<1>. QED  BY <1>5, <1>6 DEF TellInv

LEMMA TellRequest ==
  ASSUME RefineInv, TellInv, NEW p \in Peers, NEW cause \in Garbage, FileSendRequest(p, cause)
  PROVE  TellInv'
<1>0. TypeOK /\ TransferInv /\ net[p] # <<>> /\ UNCHANGED client
  BY DEF RefineInv, TransferInv, FileSendRequest, Arrives
<1>m. PICK m \in Packets : m = Head(net[p])
  BY <1>0, Arrived
<1>n. PICK n \in Numbers : n = m.number
  BY <1>0, <1>m, Arrived
<1>a. PICK a, b, sa, sb, F, B, fn :
        /\ a = transfers[Other(p)][n] /\ sa = slots[Other(p)][n] /\ fn = Incoming + n
        /\ b = transfers[p][fn] /\ sb = slots[p][fn] /\ F = net[p] /\ B = net[Other(p)]
  OBVIOUS
<1>1. m.type = "request" /\ IsRequest(Head(F), n) /\ F # <<>> /\ Head(F) = m
  BY <1>0, <1>a, <1>m, <1>n DEF FileSendRequest, Arrives, IsRequest
<1>2. Pair(a, sa, b, sb, F, B, resumed[p], n)
  BY <1>0, <1>a, <1>m, <1>n, Arrived DEF ReceivedBy
<1>3. /\ a \in Transfers \cup {None} /\ b \in Transfers \cup {None} /\ fn \in FileNumbers
      /\ F \in Seq(Packets) /\ B \in Seq(Packets) /\ Other(p) \in Peers /\ Other(p) # p
  BY <1>0, <1>a, Entries
<1>4. b = None
  BY <1>1, <1>2, <1>3, RequestArrives
<1>5. a # None /\ a.id = m.id /\ a.id \notin resumed[p]
  <2>1. 1 \in DOMAIN F /\ F[1] = m
    BY <1>1, <1>3
  <2>2. Offered(a, sa, b, sb, F, B, resumed[p], n)
    BY <1>1, <1>2, <2>1 DEF Pair, Idle, Announced, Sending, Ended, NoRequest
  <2>. QED  BY <1>1, <2>1, <2>2 DEF Offered, Paused, OneRequest
<1>6. m.id \notin GivenIds(p, sends[p]) \cup resumed[p]
  <2>1. a.id \in GivenIds(Other(p), sends[Other(p)])
    BY <1>0, <1>3, <1>5, <1>a DEF TransferInv, IdInv
  <2>2. a.id \in Ids
    BY <1>3, <1>5, InTransfer
  <2>. QED  BY <1>3, <1>5, <2>1, <2>2, IdIs
<1>t. PICK t : t = Transfer(m.id, m.size, cause)
  OBVIOUS
<1>7. t \in Transfers /\ t.id = m.id
  <2>1. m.id \in Ids /\ m.size \in Sizes
    BY <1>1 DEF Packets
  <2>. QED  BY <1>t, <2>1, TransferMade DEF Transfer
<1>8. transfers' = [transfers EXCEPT ![p][fn] = t] /\ UNCHANGED told
  BY <1>4, <1>a, <1>m, <1>n, <1>t DEF FileSendRequest
<1>9. sends' = sends /\ resumed' = resumed
  BY <1>0 DEF client
<1>. QED  BY <1>0, <1>3, <1>4, <1>6, <1>7, <1>8, <1>9, <1>a, TellBegins

LEMMA TellData ==
  ASSUME RefineInv, TellInv, NEW p \in Peers, FileData(p)
  PROVE  TellInv'
<1>0. TypeOK /\ TransferInv /\ net[p] # <<>> /\ UNCHANGED <<client, told>>
  BY DEF RefineInv, TransferInv, FileData, Arrives, Ignore, Abort
<1>m. PICK m \in Packets : m = Head(net[p])
  BY <1>0, Arrived
<1>1. CASE UNCHANGED transfers
  BY <1>0, <1>1, TellStays DEF client
<1>2. CASE ~UNCHANGED transfers
  <2>f. PICK fn : fn = Incoming + m.number
    OBVIOUS
  <2>1. fn \in FileNumbers /\ m.type = "data" /\ m.length \in 0..DataSize
    <3>1. m.type = "data" /\ fn \in FileNumbers
      BY <1>0, <1>m, <2>f, PacketsFor, FileNumber DEF FileData, Arrives
    <3>2. m.length \in 1..DataSize
      BY <3>1 DEF Packets
    <3>. QED  BY <3>1, <3>2
  <2>b. PICK b : b = transfers[p][fn]
    OBVIOUS
  <2>2. b # None /\ Received(p, fn, m.length)
    BY <1>2, <1>m, <2>b, <2>f DEF FileData, Ignore, Abort
  <2>3. b \in Transfers
    BY <1>0, <2>1, <2>2, <2>b DEF TypeOK
  <2>t. PICK t : t = [b EXCEPT !.position = (@ + m.length) % WordSize]
    OBVIOUS
  <2>4. t \in Transfers /\ t.id = b.id
    BY <2>1, <2>3, <2>t, TransferTypes DEF Transfers
  <2>5. transfers' = [transfers EXCEPT ![p][fn] = t]
    BY <1>0, <2>1, <2>2, <2>b, <2>t DEF Received, TypeOK
  <2>. QED  BY <1>0, <2>1, <2>2, <2>4, <2>5, <2>b, TellSame
<1>. QED  BY <1>1, <1>2

\* The end of the file arrives, or the receiver's acknowledgement of it.
LEMMA TellFinished ==
  ASSUME RefineInv, TellInv, NEW p \in Peers, NEW m \in Packets, NEW fn \in FileNumbers,
         net[p] # <<>>, m = Head(net[p]), m.type = "control", m.control = "FINISHED",
         fn = NewFileNumber(m.receive_send, m.number),
         UNCHANGED client, Tell(p, fn), Forget(p, fn)
  PROVE  TellInv'
<1>0. TypeOK /\ TransferInv
  BY DEF RefineInv, TransferInv
<1>n. PICK n \in Numbers : n = m.number
  BY <1>0, Arrived
<1>1. m.receive_send \in {0, 1} /\ SentBy(p, n) /\ ReceivedBy(p, n)
  BY <1>0, <1>n, Arrived, PacketsFor
<1>2. CASE m.receive_send = 0
  <2>a. PICK a, b, sa, sb, F, B :
          /\ a = transfers[Other(p)][n] /\ sa = slots[Other(p)][n]
          /\ b = transfers[p][Incoming + n] /\ sb = slots[p][Incoming + n]
          /\ F = net[p] /\ B = net[Other(p)]
    OBVIOUS
  <2>1. fn = Incoming + n /\ F # <<>> /\ IsEnd(Head(F), n)
    BY <1>2, <1>n, <2>a, FileNumber DEF IsEnd
  <2>2. /\ a \in Transfers \cup {None} /\ b \in Transfers \cup {None}
        /\ F \in Seq(Packets) /\ B \in Seq(Packets)
    BY <1>0, <2>a, Entries
  <2>3. Pair(a, sa, b, sb, F, B, resumed[p], n)
    BY <1>1, <2>a DEF ReceivedBy
  <2>4. b # None /\ b.position = b.file_size
    BY <2>1, <2>2, <2>3, EndArrives
  <2>5. b.id \in resumed[p]
    <3>1. ~NoEnd(F, n)
      BY <2>1, <2>2, InTail DEF NoEnd
    <3>. QED  BY <2>3, <2>4, <3>1
             DEF Pair, Idle, Offered, Over, Announced, Sending, Running, Agree, Ended
  <2>. QED  BY <2>1, <2>4, <2>5, <2>a, TellOnce
<1>3. CASE m.receive_send = 1
  <2>a. PICK a, b, sa, sb, F, B :
          /\ a = transfers[p][n] /\ sa = slots[p][n]
          /\ b = transfers[Other(p)][Incoming + n] /\ sb = slots[Other(p)][Incoming + n]
          /\ F = net[Other(p)] /\ B = net[p]
    OBVIOUS
  <2>1. fn = n /\ B # <<>> /\ IsReceipt(Head(B), n)
    BY <1>3, <1>n, <2>a, FileNumber DEF IsReceipt
  <2>2. /\ a \in Transfers \cup {None} /\ b \in Transfers \cup {None}
        /\ F \in Seq(Packets) /\ B \in Seq(Packets)
    BY <1>0, <2>a, Entries
  <2>3. Pair(a, sa, b, sb, F, B, resumed[Other(p)], n)
    BY <1>1, <2>a DEF SentBy
  <2>4. a # None /\ a.position = a.file_size
    BY <2>1, <2>2, <2>3, ReceiptArrives
  <2>5. a.id \in GivenIds(p, sends[p])
    BY <1>0, <2>4, <2>a DEF TransferInv, IdInv
  <2>. QED  BY <2>1, <2>4, <2>5, <2>a, TellOnce
<1>. QED  BY <1>1, <1>2, <1>3

LEMMA TellControl ==
  ASSUME RefineInv, TellInv, NEW p \in Peers, FileControlled(p)
  PROVE  TellInv'
<1>0. TypeOK /\ TransferInv /\ net[p] # <<>> /\ UNCHANGED client
  BY DEF RefineInv, TransferInv, FileControlled, Arrives
<1>m. PICK m \in Packets : m = Head(net[p])
  BY <1>0, Arrived
<1>f. PICK fn : fn = NewFileNumber(m.receive_send, m.number)
  OBVIOUS
<1>1. m.type = "control" /\ fn \in FileNumbers
  <2>1. m.type = "control" /\ m.number \in Numbers /\ m.receive_send \in {0, 1}
    BY <1>m, PacketsFor DEF FileControlled, Arrives
  <2>. QED  BY <1>f, <2>1, FileNumber
<1>2. \/ Ignore(p) \/ Abort(p)
      \/ m.control = "FINISHED" /\ Tell(p, fn) /\ Forget(p, fn)
      \/ /\ transfers[p][fn] # None /\ UNCHANGED told
         /\ transfers' = [transfers EXCEPT ![p][fn].state = "RUNNING"]
  BY <1>f, <1>m DEF FileControlled
<1>3. CASE Ignore(p) \/ Abort(p)
  BY <1>0, <1>3, TellStays DEF Ignore, Abort, client
<1>4. CASE m.control = "FINISHED" /\ Tell(p, fn) /\ Forget(p, fn)
  BY <1>0, <1>1, <1>4, <1>f, <1>m, TellFinished
<1>5. CASE /\ transfers[p][fn] # None /\ UNCHANGED told
           /\ transfers' = [transfers EXCEPT ![p][fn].state = "RUNNING"]
  <2>a. PICK a : a = transfers[p][fn]
    OBVIOUS
  <2>1. a \in Transfers
    BY <1>0, <1>1, <1>5, <2>a DEF TypeOK
  <2>t. PICK t : t = [a EXCEPT !.state = "RUNNING"]
    OBVIOUS
  <2>2. t \in Transfers /\ t.id = a.id
    BY <2>1, <2>t, TransferTypes DEF Transfers
  <2>3. transfers' = [transfers EXCEPT ![p][fn] = t]
    BY <1>0, <1>1, <1>5, <2>a, <2>t DEF TypeOK
  <2>. QED  BY <1>0, <1>1, <1>5, <2>2, <2>3, <2>a, TellSame
<1>. QED  BY <1>2, <1>3, <1>4, <1>5

LEMMA TellAsk ==
  ASSUME RefineInv, TellInv, NEW p \in Peers, NEW fn \in FileNumbers, AskChunk(p, fn)
  PROVE  TellInv'
<1>0. TypeOK /\ UNCHANGED <<told, client>>
  BY DEF RefineInv, TransferInv, AskChunk
<1>a. PICK a : a = transfers[p][fn]
  OBVIOUS
<1>1. a # None /\ a \in Transfers
  BY <1>0, <1>a DEF AskChunk, Wants, TypeOK
<1>t. PICK t : t = [a EXCEPT !.event_pending = TRUE]
  OBVIOUS
<1>2. t \in Transfers /\ t.id = a.id
  BY <1>1, <1>t, TransferTypes DEF Transfers
<1>3. transfers' = [transfers EXCEPT ![p][fn] = t]
  BY <1>0, <1>a, <1>t DEF AskChunk, Asked, TypeOK
<1>. QED  BY <1>0, <1>1, <1>2, <1>3, <1>a, TellSame

LEMMA TellSend ==
  ASSUME Allowed \subseteq Tolerated, RefineInv, TellInv, NEW p \in Peers,
         NEW i \in DOMAIN asked[p], NEW length \in ChunkLengths(asked[p][i]),
         SendChunk(p, i, length)
  PROVE  TellInv'
<1>0. TypeOK /\ UNCHANGED <<told, client>>
  BY DEF RefineInv, TransferInv, SendChunk
<1>1. CASE UNCHANGED transfers
  BY <1>0, <1>1, TellStays DEF client
<1>2. CASE ~UNCHANGED transfers
  <2>r. PICK r \in Requests : r = asked[p][i]
    BY <1>0, RequestsAre
  <2>n. PICK fn \in FileNumbers : fn = r.number
    BY DEF Requests
  <2>a. PICK a \in Transfers \cup {None} : a = transfers[p][fn]
    BY <1>0 DEF TypeOK
  <2>t. PICK t : t = [a EXCEPT !.position = (a.position + length) % WordSize,
                               !.event_pending = FALSE]
    OBVIOUS
  <2>1. /\ a # None
        /\ transfers' = [transfers EXCEPT ![p][fn].position = (a.position + length) % WordSize,
                                          ![p][fn].event_pending = FALSE]
    BY <1>2, <2>a, <2>n, <2>r DEF SendChunk
  <2>2. a \in Transfers /\ a # None
    BY <2>1
  <2>3. length \in 0..DataSize
    <3>1. r.length \in 1..DataSize /\ DataSize \in Nat
      BY TransfersAssumption DEF Requests
    <3>. QED  BY <2>r, <3>1 DEF ChunkLengths
  <2>4. t \in Transfers /\ t.id = a.id
    BY <2>2, <2>3, <2>t, TransferTypes DEF Transfers
  <2>5. transfers' = [transfers EXCEPT ![p][fn] = t]
    <3>1. transfers \in [Peers -> [FileNumbers -> Transfers \cup {None}]]
      BY <1>0 DEF TypeOK
    <3>. QED  BY <2>1, <2>a, <2>t, <3>1
  <2>. QED  BY <1>0, <2>2, <2>4, <2>5, <2>a, TellSame
<1>. QED  BY <1>1, <1>2

LEMMA TellOffer ==
  ASSUME RefineInv, TellInv, NEW p \in Peers, NEW n \in Numbers, NEW size \in Sizes,
         NEW cause \in Garbage, FileSend(p, n, size, cause)
  PROVE  TellInv'
<1>0. TypeOK /\ TransferInv /\ UNCHANGED <<told, resumed>>
  BY DEF RefineInv, TransferInv, FileSend
<1>k. PICK k : k = sends[p]
  OBVIOUS
<1>1. /\ k \in Nat /\ k < MaxSends[p] /\ n \in FileNumbers
      /\ sends' = [sends EXCEPT ![p] = k + 1]
  BY <1>0, <1>k, FileNumber DEF FileSend, TypeOK
<1>t. PICK f, t : f = <<p, k + 1>> /\ t = Transfer(f, size, cause)
  OBVIOUS
<1>2. f \in Ids /\ f[1] = p /\ f[2] = k + 1
  BY <1>1, <1>k, <1>t, NewId
<1>3. t \in Transfers /\ t.id = f
  BY <1>2, <1>t, TransferMade DEF Transfer
<1>4. transfers[p][n] = None /\ transfers' = [transfers EXCEPT ![p][n] = t]
  <2>1. transfers[p][n] = None
    BY <1>0, <1>1, EntryKnown DEF FileSend
  <2>. QED  BY <1>k, <1>t, <2>1 DEF FileSend
<1>5. f \notin GivenIds(p, k) \cup resumed[p]
  <2>1. Other(p) \in Peers /\ Other(p) # p /\ Other(Other(p)) = p
    BY TwoPeers
  <2>2. resumed[p] \subseteq GivenIds(Other(p), sends[Other(p)])
    BY <1>0, <2>1 DEF TransferInv, IdInv
  <2>3. f \notin resumed[p]
    BY <1>2, <2>1, <2>2, IdIs
  <2>4. f \notin GivenIds(p, k)
    BY <1>1, <1>2, IdIs
  <2>. QED  BY <2>3, <2>4
<1>6. /\ GivenIds(p, k) \subseteq GivenIds(p, k + 1)
      /\ GivenIds(p, k + 1) \ GivenIds(p, k) = {f}
  <2>1. 1..(k + 1) = (1..k) \cup {k + 1}
    BY <1>1
  <2>2. GivenIds(p, k + 1) = GivenIds(p, k) \cup {f}
    BY <1>t, <2>1 DEF GivenIds
  <2>. QED  BY <1>5, <2>2
<1>7. sends'[p] = k + 1 /\ \A q \in Peers : q # p => sends'[q] = sends[q]
  BY <1>0, <1>1 DEF TypeOK
<1>8. /\ \A q \in Peers : GivenIds(q, sends[q]) \subseteq GivenIds(q, sends'[q])
      /\ \A q \in Peers : GivenIds(q, sends'[q]) \ GivenIds(q, sends[q]) # {} =>
                            q = p /\ GivenIds(p, sends'[p]) \ GivenIds(p, sends[p]) = {t.id}
  BY <1>3, <1>6, <1>7, <1>k
<1>. QED  BY <1>0, <1>1, <1>3, <1>4, <1>5, <1>8, <1>k, TellBegins

LEMMA TellStep ==
  ASSUME Allowed \subseteq Tolerated, RefineInv, TellInv, [Next]_vars
  PROVE  TellInv'
<1>1. CASE UNCHANGED vars
  BY <1>1, TellStays DEF vars, client
<1>2. ASSUME NEW p \in Peers, Receives(p)  PROVE TellInv'
  BY <1>2, TellRequest, TellData, TellControl DEF Receives
<1>3. ASSUME NEW p \in Peers, Asks(p)  PROVE TellInv'
  <2>1. CASE IterationReturns(p)
    BY <2>1, TellStays DEF IterationReturns, client
  <2>. QED  BY <1>3, <2>1, TellAsk DEF Asks
<1>4. ASSUME NEW p \in Peers, Answers(p) \/ Offers(p)  PROVE TellInv'
  BY <1>4, TellSend, TellOffer DEF Answers, Offers
<1>5. ASSUME NEW p \in Peers, NEW fn \in FileNumbers, Calls(p, fn)  PROVE TellInv'
  <2>1. resumed \in [Peers -> SUBSET Ids]
    BY DEF RefineInv, TransferInv, TypeOK
  <2>2. /\ UNCHANGED <<transfers, told, sends>>
        /\ resumed' = resumed \/ \E x : resumed' = [resumed EXCEPT ![p] = @ \cup x]
    BY <1>5 DEF Calls, Resume, Pause, client
  <2>3. \A q \in Peers : resumed[q] \subseteq resumed'[q]
    BY <2>1, <2>2
  <2>. QED  BY <2>2, <2>3, TellStays
<1>6. ASSUME NEW p \in Peers, FriendDelete(p) \/ FriendAdd(p)  PROVE FALSE
  BY <1>6 DEF FriendDelete, FriendAdd, RefineInv, TransferInv, PeerInv, Tolerated
<1>. QED  BY <1>1, <1>2, <1>3, <1>4, <1>5, <1>6 DEF Next

LEMMA TellStarts == Init => TellInv
<1> SUFFICES ASSUME Init  PROVE TellInv
  OBVIOUS
<1>1. \A p \in Peers : DOMAIN told[p] = {} /\ GivenIds(p, sends[p]) = {}
  BY DEF Init, GivenIds
<1>. QED  BY <1>1 DEF TellInv

\* A friend who still keeps a transfer that the client was told the end of has moved all
\* of it, too.
LEMMA FriendThrough ==
  ASSUME RefineInv, TellInv, NEW p \in Peers, NEW k \in DOMAIN told[p], NEW fn \in FileNumbers,
         transfers[Other(p)][fn] # None, transfers[Other(p)][fn].id = told[p][k].id
  PROVE  transfers[Other(p)][fn].position = transfers[Other(p)][fn].file_size
<1>q. PICK q \in Peers : q = Other(p) /\ q # p /\ Other(q) = p
  BY TwoPeers
<1>f. PICK f, t : f = told[p][k].id /\ t = transfers[q][fn]
  OBVIOUS
<1>0. TypeOK /\ TransferInv /\ t # None /\ t.id = f
  BY <1>f, <1>q DEF RefineInv, TransferInv
<1>1. f \in GivenIds(p, sends[p]) \cup resumed[p] /\ ~Keeps(p, f)
  BY <1>f DEF TellInv
<1>2. f \in Ids
  BY <1>0, <1>f, InTransfer DEF TypeOK
<1>3. \A j \in FileNumbers : transfers[p][j] = None \/ transfers[p][j].id # f
  BY <1>1 DEF Keeps
<1>4. CASE fn < Incoming
  <2>1. fn \in Numbers /\ Holds(q, fn, f)
    BY <1>0, <1>4, <1>f, FileNumberIs DEF Holds
  <2>2. f[1] = q
    BY <1>2, <2>1 DEF RefineInv, UniqueInv
  <2>3. f \in resumed[p]
    BY <1>1, <1>2, <1>q, <2>2, IdIs
  <2>4. SentBy(q, fn) /\ Incoming + fn \in FileNumbers
    BY <1>0, <2>1, PairsOf, FileNumber DEF TransferInv
  <2>. QED  BY <1>0, <1>3, <1>f, <1>q, <2>3, <2>4
           DEF SentBy, Pair, Idle, Offered, Announced, Sending, Running, Agree, Ended, Complete
<1>5. CASE ~(fn < Incoming)
  <2>1. PICK n \in Numbers : fn = Incoming + n
    BY <1>5, FileNumberIs
  <2>2. ReceivedBy(q, n) /\ n \in FileNumbers
    BY <1>0, <2>1, PairsOf, FileNumber DEF TransferInv
  <2>. QED  BY <1>0, <1>3, <1>f, <1>q, <2>1, <2>2
           DEF ReceivedBy, Pair, Idle, Offered, Over, Paused, Announced, Sending, Running, Agree,
               Ended
<1>. QED  BY <1>4, <1>5

LEMMA TellMeans == RefineInv /\ TellInv => EndsTold
<1> SUFFICES ASSUME RefineInv, TellInv, NEW p \in Peers
             PROVE  /\ \A i \in 1..sends[p] :
                         Keeps(p, <<p, i>>) <=> \A k \in DOMAIN told[p] : told[p][k].id # <<p, i>>
                    /\ \A k \in DOMAIN told[p] :
                         /\ told[p][k].position = told[p][k].file_size
                         /\ \A l \in DOMAIN told[p] : told[p][k].id = told[p][l].id => k = l
                         /\ \A fn \in FileNumbers :
                              LET t == transfers[Other(p)][fn]
                              IN t # None /\ t.id = told[p][k].id => t.position = t.file_size
  BY DEF EndsTold
<1>1. ASSUME NEW i \in 1..sends[p]
      PROVE  Keeps(p, <<p, i>>) <=> \A k \in DOMAIN told[p] : told[p][k].id # <<p, i>>
  <2>1. <<p, i>> \in GivenIds(p, sends[p])
    BY DEF GivenIds
  <2>. QED  BY <2>1 DEF TellInv
<1>2. \A k \in DOMAIN told[p] :
        /\ told[p][k].position = told[p][k].file_size
        /\ \A l \in DOMAIN told[p] : told[p][k].id = told[p][l].id => k = l
  BY DEF TellInv
<1>. QED  BY <1>1, <1>2, FriendThrough

\* The client that sends a file is told of its end exactly when the wrapper gives the
\* transfer up, and once, although numbers are reused and both sides' FINISHED cross; nobody
\* is told so while a side has data left to move.
THEOREM FilesEndsTold ==
  ASSUME Allowed \subseteq Tolerated
  PROVE  Spec => []EndsTold
<1>1. RefineInv /\ TellInv /\ [Next]_vars => RefineInv' /\ TellInv'
  BY RefineStep, TellStep
<1>. QED  BY <1>1, RefineStarts, TellStarts, TellMeans, PTL DEF Spec
=============================================================================
