-------------------------- MODULE FileConsentProofs --------------------------
(***************************************************************************)
(* Consent and RequestsCurrent, for clients that delete friends and send   *)
(* more than was asked for, too.                                           *)
(*                                                                         *)
(* Bond is what is left of Pair then.  Each side may know a file that the  *)
(* other has forgotten or never heard of, and positions wrap around.       *)
(* Nothing is said of a sender whose process has ended.                    *)
(***************************************************************************)
EXTENDS FileTransfersProofs

\* The position where data leaves its receiver.
After(m) == (m.at + m.length) % WordSize

\* Whoever is at pos when packet i has been handled finds the data that comes next there,
\* or the sender's position when none is left.
Leads(s, n, i, pos, to) ==
  \/ pos = to /\ \A j \in DOMAIN s : i < j => ~IsData(s[j], n)
  \/ \E k \in DOMAIN s :
       /\ i < k /\ IsData(s[k], n) /\ s[k].at = pos
       /\ \A j \in DOMAIN s : i < j /\ j < k => ~IsData(s[j], n)

\* The data on its way takes the receiver to the sender's position, and is not sent from
\* the end of the file.
Links(s, n, from, to, size) ==
  /\ Leads(s, n, 0, from, to)
  /\ \A i \in DOMAIN s : IsData(s[i], n) =>
       s[i].at # size /\ Leads(s, n, i, After(s[i]), to)

\* The sender's file has not moved before the receiver resumed it.
Waits(a, heard) ==
  a # None =>
    /\ a.id \in heard \/ (a.state = "PAUSED" /\ a.position = 0)
    /\ a.event_pending => a.state = "RUNNING" /\ a.position # a.file_size

\* Each file is offered once.
Distinct(b, F, n) ==
  \A i \in DOMAIN F : IsRequest(F[i], n) =>
    /\ b # None => b.id # F[i].id
    /\ \A j \in DOMAIN F : IsRequest(F[j], n) /\ F[j].id = F[i].id => j = i

\* What is accepted is the file the sender has.  It is received once, and then is over.
Answered(a, B, heard, n) ==
  /\ \A i \in DOMAIN B : IsAccept(B[i], n) => a # None /\ a.id \in heard
  /\ \A i \in DOMAIN B : IsReceipt(B[i], n) =>
       /\ a # None /\ a.id \in heard /\ a.position = a.file_size
       /\ \A j \in DOMAIN B : Back(B[j], n) => j <= i

\* What is offered is the file the sender has, and comes after all data.
Open(a, F, heard, n) ==
  \A i \in DOMAIN F : IsRequest(F[i], n) =>
    /\ a # None /\ a.id = F[i].id /\ a.file_size = F[i].size /\ a.id \notin heard
    /\ \A j \in DOMAIN F : IsData(F[j], n) => j < i

\* What the receiver can resume is the file the sender has.  What it has accepted is that,
\* or is over.
Kept(a, b, sb, F, B, heard, n) ==
  /\ b # None /\ sb # "none" /\ b.id \notin heard =>
       a # None /\ Agree(a, b) /\ b.position = 0 /\ NoData(F, n)
  /\ b # None /\ sb = "accepted" =>
       \/ /\ a # None /\ Agree(a, b)
          /\ Links(F, n, b.position, a.position, b.file_size)
          /\ NoReceipt(B, n) \/ b.position = b.file_size
       \/ (a = None \/ a.id \notin heard) /\ NoData(F, n) /\ NoReceipt(B, n)

Bond(alive, a, b, sb, F, B, heard, n) ==
  /\ Waits(a, heard) /\ Distinct(b, F, n)
  /\ b # None /\ sb = "accepted" => b.id \in heard
  /\ alive => /\ Answered(a, B, heard, n) /\ Open(a, F, heard, n)
              /\ Kept(a, b, sb, F, B, heard, n)

BondBy(p, n) ==
  Bond(Alive(p), transfers[p][n], transfers[Other(p)][Incoming + n],
       slots[Other(p)][Incoming + n], net[Other(p)], net[p], resumed[Other(p)], n)

\* The ids that are in use for file number n of sender p.
Uses(p, n, id) ==
  \/ \E t \in {transfers[p][n], transfers[Other(p)][Incoming + n]} : t # None /\ t.id = id
  \/ \E i \in DOMAIN net[Other(p)] :
       IsRequest(net[Other(p)][i], n) /\ net[Other(p)][i].id = id

\* They were given once, and to one number.
UsedInv ==
  \A p \in Peers :
    /\ \A n \in Numbers, id \in Ids : Uses(p, n, id) =>
         id \in GivenIds(p, sends[p]) /\ \A k \in Numbers : Uses(p, k, id) => k = n
    /\ resumed[Other(p)] \subseteq GivenIds(p, sends[p])

\* toxcore knows no files of somebody who is not a friend.
StrangerInv ==
  \A p \in Peers, fn \in FileNumbers : ~isFriend[p] => slots[p][fn] = "none"

ConsentInv ==
  /\ \A p \in Peers, n \in Numbers : BondBy(p, n)
  /\ UsedInv /\ StrangerInv /\ RequestsCurrent

-----------------------------------------------------------------------------
(* Data on its way, whose positions may wrap around.                       *)

LEMMA LeadsInTail ==
  ASSUME NEW s \in Seq(Packets), s # <<>>, NEW n, NEW i \in Nat, NEW pos, NEW to,
         Leads(s, n, i + 1, pos, to)
  PROVE  Leads(Tail(s), n, i, pos, to)
<1>1. CASE pos = to /\ \A j \in DOMAIN s : i + 1 < j => ~IsData(s[j], n)
  <2>1. ASSUME NEW j \in DOMAIN Tail(s), i < j  PROVE ~IsData(Tail(s)[j], n)
    <3>1. j \in Nat /\ j + 1 \in DOMAIN s /\ Tail(s)[j] = s[j + 1]
      BY InTail
    <3>2. i + 1 < j + 1
      BY <2>1, <3>1
    <3>. QED  BY <1>1, <3>1, <3>2
  <2>. QED  BY <1>1, <2>1 DEF Leads
<1>2. CASE \E k \in DOMAIN s :
             /\ i + 1 < k /\ IsData(s[k], n) /\ s[k].at = pos
             /\ \A j \in DOMAIN s : i + 1 < j /\ j < k => ~IsData(s[j], n)
  <2>1. PICK k \in DOMAIN s :
          /\ i + 1 < k /\ IsData(s[k], n) /\ s[k].at = pos
          /\ \A j \in DOMAIN s : i + 1 < j /\ j < k => ~IsData(s[j], n)
    BY <1>2
  <2>2. k \in Nat /\ k - 1 \in DOMAIN Tail(s) /\ Tail(s)[k - 1] = s[k] /\ i < k - 1
    BY <2>1, InTail
  <2>3. ASSUME NEW j \in DOMAIN Tail(s), i < j, j < k - 1  PROVE ~IsData(Tail(s)[j], n)
    <3>1. j \in Nat /\ j + 1 \in DOMAIN s /\ Tail(s)[j] = s[j + 1]
      BY InTail
    <3>2. i + 1 < j + 1 /\ j + 1 < k
      BY <2>2, <2>3, <3>1
    <3>. QED  BY <2>1, <3>1, <3>2
  <2>. QED  BY <2>1, <2>2, <2>3 DEF Leads
<1>. QED  BY <1>1, <1>2 DEF Leads

LEMMA LinksTail ==
  ASSUME NEW s \in Seq(Packets), s # <<>>, NEW n, NEW from, NEW to, NEW size,
         Links(s, n, from, to, size)
  PROVE  /\ ~IsData(Head(s), n) => Links(Tail(s), n, from, to, size)
         /\ IsData(Head(s), n) => /\ Head(s).at = from /\ from # size
                                  /\ Links(Tail(s), n, After(Head(s)), to, size)
<1>1. /\ 1 \in DOMAIN s /\ s[1] = Head(s) /\ DOMAIN s \subseteq Nat
      /\ \A j \in DOMAIN s : j = 1 \/ 1 < j
  <2>1. \A j \in 1..Len(s) : j = 1 \/ 1 < j
    OBVIOUS
  <2>. QED  BY <2>1, InTail
<1>2. ASSUME NEW i \in DOMAIN Tail(s), IsData(Tail(s)[i], n)
      PROVE  Tail(s)[i].at # size /\ Leads(Tail(s), n, i, After(Tail(s)[i]), to)
  <2>1. i \in Nat /\ i + 1 \in DOMAIN s /\ Tail(s)[i] = s[i + 1]
    BY InTail
  <2>2. s[i + 1].at # size /\ Leads(s, n, i + 1, After(s[i + 1]), to)
    BY <1>2, <2>1 DEF Links
  <2>. QED  BY <2>1, <2>2, LeadsInTail
<1>3. ASSUME NEW pos, Leads(s, n, 1, pos, to)  PROVE Leads(Tail(s), n, 0, pos, to)
  <2>1. Leads(s, n, 0 + 1, pos, to)
    BY <1>3
  <2>. QED  BY <2>1, LeadsInTail
<1>4. ASSUME ~IsData(Head(s), n)  PROVE Leads(s, n, 1, from, to)
  <2>1. Leads(s, n, 0, from, to)
    BY DEF Links
  <2>2. \A j \in DOMAIN s : IsData(s[j], n) => 1 < j
    BY <1>1, <1>4
  <2>3. \A j \in DOMAIN s : 1 < j => 0 < j
    BY <1>1
  <2>. QED  BY <1>1, <2>1, <2>2, <2>3 DEF Leads
<1>5. ASSUME IsData(Head(s), n)
      PROVE  Head(s).at = from /\ from # size /\ Leads(s, n, 1, After(Head(s)), to)
  <2>1. Leads(s, n, 0, from, to)
    BY DEF Links
  <2>2. 0 < 1 /\ \A j \in DOMAIN s : ~(1 < j) => j = 1
    BY <1>1
  <2>3. Head(s).at = from
    BY <1>1, <1>5, <2>1, <2>2 DEF Leads
  <2>. QED  BY <1>1, <1>5, <2>3 DEF Links
<1>. QED  BY <1>2, <1>3, <1>4, <1>5 DEF Links

LEMMA LeadsInAppend ==
  ASSUME NEW s \in Seq(Packets), NEW m \in Packets, NEW n, NEW i \in Nat, i <= Len(s),
         NEW pos, NEW to, Leads(s, n, i, pos, to)
  PROVE  /\ ~IsData(m, n) => Leads(Append(s, m), n, i, pos, to)
         /\ IsData(m, n) /\ m.at = to => \A x : Leads(Append(s, m), n, i, pos, x)
<1> DEFINE z == Append(s, m)
<1>1. /\ Len(s) + 1 \in DOMAIN z /\ z[Len(s) + 1] = m /\ Len(s) \in Nat
      /\ \A j \in DOMAIN s : j \in DOMAIN z /\ z[j] = s[j] /\ j \in Nat /\ j < Len(s) + 1
      /\ \A j \in DOMAIN z : j = Len(s) + 1 \/ j \in DOMAIN s
  BY InAppend
<1> HIDE DEF z
<1>2. ASSUME NEW k \in DOMAIN s, i < k, IsData(s[k], n), s[k].at = pos,
             \A j \in DOMAIN s : i < j /\ j < k => ~IsData(s[j], n)
      PROVE  \A x : Leads(z, n, i, pos, x)
  <2>1. k \in DOMAIN z /\ z[k] = s[k] /\ ~(Len(s) + 1 < k)
    BY <1>1
  <2>2. \A j \in DOMAIN z : i < j /\ j < k => ~IsData(z[j], n)
    BY <1>1, <1>2, <2>1
  <2>. QED  BY <1>2, <2>1, <2>2 DEF Leads
<1>3. ASSUME pos = to, \A j \in DOMAIN s : i < j => ~IsData(s[j], n), ~IsData(m, n)
      PROVE  Leads(z, n, i, pos, to)
  BY <1>1, <1>3 DEF Leads
<1>4. ASSUME pos = to, \A j \in DOMAIN s : i < j => ~IsData(s[j], n), IsData(m, n), m.at = to
      PROVE  \A x : Leads(z, n, i, pos, x)
  <2>1. i < Len(s) + 1
    BY <1>1
  <2>2. \A j \in DOMAIN z : i < j /\ j < Len(s) + 1 => ~IsData(z[j], n)
    BY <1>1, <1>4
  <2>. QED  BY <1>1, <1>4, <2>1, <2>2 DEF Leads
<1>5. CASE pos = to /\ \A j \in DOMAIN s : i < j => ~IsData(s[j], n)
  BY <1>3, <1>4, <1>5 DEF z
<1>6. CASE \E k \in DOMAIN s :
             /\ i < k /\ IsData(s[k], n) /\ s[k].at = pos
             /\ \A j \in DOMAIN s : i < j /\ j < k => ~IsData(s[j], n)
  <2>1. \A x : Leads(z, n, i, pos, x)
    BY <1>2, <1>6
  <2>. QED  BY <2>1 DEF z
<1>. QED  BY <1>5, <1>6 DEF Leads

LEMMA LinksAppend ==
  ASSUME NEW s \in Seq(Packets), NEW m \in Packets, NEW n, NEW from, NEW to, NEW size,
         Links(s, n, from, to, size)
  PROVE  /\ ~IsData(m, n) => Links(Append(s, m), n, from, to, size)
         /\ IsData(m, n) /\ m.at = to /\ to # size =>
              Links(Append(s, m), n, from, After(m), size)
<1> DEFINE z == Append(s, m)
<1>1. /\ z[Len(s) + 1] = m /\ Len(s) \in Nat
      /\ \A j \in DOMAIN s : z[j] = s[j] /\ j \in Nat /\ j <= Len(s)
      /\ \A j \in DOMAIN z : j = Len(s) + 1 \/ j \in DOMAIN s
  BY InAppend
<1>2. Leads(s, n, 0, from, to) /\ 0 \in Nat /\ 0 <= Len(s)
  BY <1>1 DEF Links
<1>3. \A j \in DOMAIN s : IsData(s[j], n) => s[j].at # size /\ Leads(s, n, j, After(s[j]), to)
  BY DEF Links
<1>4. ASSUME ~IsData(m, n)  PROVE Links(z, n, from, to, size)
  <2>1. Leads(z, n, 0, from, to)
    BY <1>2, <1>4, LeadsInAppend
  <2>2. ASSUME NEW j \in DOMAIN z, IsData(z[j], n)
        PROVE  z[j].at # size /\ Leads(z, n, j, After(z[j]), to)
    <3>1. j \in DOMAIN s /\ z[j] = s[j] /\ j \in Nat /\ j <= Len(s)
      BY <1>1, <1>4, <2>2
    <3>2. s[j].at # size /\ Leads(s, n, j, After(s[j]), to)
      BY <1>3, <2>2, <3>1
    <3>3. Leads(z, n, j, After(s[j]), to)
      BY <1>4, <3>1, <3>2, LeadsInAppend
    <3>. QED  BY <3>1, <3>2, <3>3
  <2>. QED  BY <2>1, <2>2 DEF Links
<1>5. ASSUME IsData(m, n), m.at = to, to # size  PROVE Links(z, n, from, After(m), size)
  <2>1. Leads(z, n, 0, from, After(m))
    BY <1>2, <1>5, LeadsInAppend
  <2>2. ASSUME NEW j \in DOMAIN z, IsData(z[j], n)
        PROVE  z[j].at # size /\ Leads(z, n, j, After(z[j]), After(m))
    <3>1. CASE j \in DOMAIN s
      <4>1. z[j] = s[j] /\ j \in Nat /\ j <= Len(s)
        BY <1>1, <3>1
      <4>2. s[j].at # size /\ Leads(s, n, j, After(s[j]), to)
        BY <1>3, <2>2, <3>1, <4>1
      <4>3. Leads(z, n, j, After(s[j]), After(m))
        BY <1>5, <4>1, <4>2, LeadsInAppend
      <4>. QED  BY <4>1, <4>2, <4>3
    <3>2. CASE j = Len(s) + 1
      <4>1. \A k \in DOMAIN z : ~(j < k)
        BY <1>1, <3>2
      <4>. QED  BY <1>1, <1>5, <3>2, <4>1 DEF Leads
    <3>. QED  BY <1>1, <3>1, <3>2
  <2>. QED  BY <2>1, <2>2 DEF Links
<1>. QED  BY <1>4, <1>5

\* At the end of the file no data is left, and where no data is left both are equally far.
LEMMA LinksEnd ==
  ASSUME NEW s \in Seq(Packets), NEW n, NEW from, NEW to, NEW size
  PROVE  /\ Links(s, n, size, to, size) => NoData(s, n) /\ to = size
         /\ NoData(s, n) => Links(s, n, to, to, size)
<1>1. \A j \in DOMAIN s : 0 < j
  OBVIOUS
<1>. QED  BY <1>1 DEF Links, Leads, NoData

-----------------------------------------------------------------------------
(* The bond of sender and receiver, when one of them moves.                *)

LEMMA AnsweredTail ==
  ASSUME NEW a, NEW B \in Seq(Packets), B # <<>>, NEW heard, NEW n, Answered(a, B, heard, n)
  PROVE  Answered(a, Tail(B), heard, n)
<1>1. ASSUME NEW i \in DOMAIN Tail(B), IsAccept(Tail(B)[i], n)
      PROVE  a # None /\ a.id \in heard
  BY <1>1, InTail DEF Answered
<1>2. ASSUME NEW i \in DOMAIN Tail(B), IsReceipt(Tail(B)[i], n)
      PROVE  /\ a # None /\ a.id \in heard /\ a.position = a.file_size
             /\ \A j \in DOMAIN Tail(B) : Back(Tail(B)[j], n) => j <= i
  <2>1. i \in Nat /\ i + 1 \in DOMAIN B /\ Tail(B)[i] = B[i + 1]
    BY InTail
  <2>2. /\ a # None /\ a.id \in heard /\ a.position = a.file_size
        /\ \A j \in DOMAIN B : Back(B[j], n) => j <= i + 1
    BY <1>2, <2>1 DEF Answered
  <2>3. ASSUME NEW j \in DOMAIN Tail(B), Back(Tail(B)[j], n)  PROVE j <= i
    <3>1. j \in Nat /\ j + 1 <= i + 1
      BY <2>2, <2>3, InTail
    <3>. QED  BY <2>1, <3>1
  <2>. QED  BY <2>2, <2>3
<1>. QED  BY <1>1, <1>2 DEF Answered

LEMMA AnsweredAppend ==
  ASSUME NEW a, NEW B \in Seq(Packets), NEW m \in Packets, NEW heard, NEW n,
         Answered(a, B, heard, n)
  PROVE  /\ ~Back(m, n) => Answered(a, Append(B, m), heard, n)
         /\ /\ NoReceipt(B, n) /\ a # None /\ a.id \in heard
            /\ IsReceipt(m, n) => a.position = a.file_size
            => Answered(a, Append(B, m), heard, n)
<1> DEFINE z == Append(B, m)
<1>1. /\ Len(B) \in Nat
      /\ \A j \in DOMAIN B : z[j] = B[j] /\ j \in Nat /\ j < Len(B) + 1
      /\ \A j \in DOMAIN z : (j = Len(B) + 1 /\ z[j] = m) \/ j \in DOMAIN B
  BY InAppend
<1> HIDE DEF z
<1>2. ASSUME ~Back(m, n)  PROVE Answered(a, z, heard, n)
  BY <1>1, <1>2 DEF Answered, Back
<1>3. ASSUME NoReceipt(B, n), a # None, a.id \in heard, IsReceipt(m, n) => a.position = a.file_size
      PROVE  Answered(a, z, heard, n)
  <2>1. ASSUME NEW i \in DOMAIN z, IsReceipt(z[i], n)
        PROVE  a.position = a.file_size /\ \A j \in DOMAIN z : j <= i
    <3>1. i = Len(B) + 1 /\ z[i] = m
      BY <1>1, <1>3, <2>1 DEF NoReceipt
    <3>. QED  BY <1>1, <1>3, <2>1, <3>1
  <2>. QED  BY <1>3, <2>1 DEF Answered
<1>. QED  BY <1>2, <1>3 DEF z

LEMMA OpenTail ==
  ASSUME NEW a, NEW F \in Seq(Packets), F # <<>>, NEW heard, NEW n, Open(a, F, heard, n)
  PROVE  Open(a, Tail(F), heard, n)
<1>1. ASSUME NEW i \in DOMAIN Tail(F), IsRequest(Tail(F)[i], n)
      PROVE  /\ a # None /\ a.id = Tail(F)[i].id /\ a.file_size = Tail(F)[i].size
             /\ a.id \notin heard
             /\ \A j \in DOMAIN Tail(F) : IsData(Tail(F)[j], n) => j < i
  <2>1. i \in Nat /\ i + 1 \in DOMAIN F /\ Tail(F)[i] = F[i + 1]
    BY InTail
  <2>2. /\ a # None /\ a.id = F[i + 1].id /\ a.file_size = F[i + 1].size /\ a.id \notin heard
        /\ \A j \in DOMAIN F : IsData(F[j], n) => j < i + 1
    BY <1>1, <2>1 DEF Open
  <2>3. ASSUME NEW j \in DOMAIN Tail(F), IsData(Tail(F)[j], n)  PROVE j < i
    <3>1. j \in Nat /\ j + 1 < i + 1
      BY <2>2, <2>3, InTail
    <3>. QED  BY <2>1, <3>1
  <2>. QED  BY <2>1, <2>2, <2>3
<1>. QED  BY <1>1 DEF Open

LEMMA OpenAppend ==
  ASSUME NEW a, NEW F \in Seq(Packets), NEW m \in Packets, NEW heard, NEW n,
         Open(a, F, heard, n), ~IsRequest(m, n), IsData(m, n) => a # None /\ a.id \in heard
  PROVE  Open(a, Append(F, m), heard, n)
<1> DEFINE z == Append(F, m)
<1>1. /\ \A j \in DOMAIN F : z[j] = F[j]
      /\ \A j \in DOMAIN z : (j = Len(F) + 1 /\ z[j] = m) \/ j \in DOMAIN F
  BY InAppend
<1> HIDE DEF z
<1>2. Open(a, z, heard, n)
  BY <1>1 DEF Open
<1>. QED  BY <1>2 DEF z

LEMMA DistinctTail ==
  ASSUME NEW b, NEW F \in Seq(Packets), F # <<>>, NEW n, Distinct(b, F, n)
  PROVE  Distinct(b, Tail(F), n)
<1>1. ASSUME NEW i \in DOMAIN Tail(F), IsRequest(Tail(F)[i], n)
      PROVE  /\ b # None => b.id # Tail(F)[i].id
             /\ \A j \in DOMAIN Tail(F) :
                  IsRequest(Tail(F)[j], n) /\ Tail(F)[j].id = Tail(F)[i].id => j = i
  <2>1. i \in Nat /\ i + 1 \in DOMAIN F /\ Tail(F)[i] = F[i + 1]
    BY InTail
  <2>2. /\ b # None => b.id # F[i + 1].id
        /\ \A j \in DOMAIN F : IsRequest(F[j], n) /\ F[j].id = F[i + 1].id => j = i + 1
    BY <1>1, <2>1 DEF Distinct
  <2>3. ASSUME NEW j \in DOMAIN Tail(F), IsRequest(Tail(F)[j], n), Tail(F)[j].id = Tail(F)[i].id
        PROVE  j = i
    <3>1. j \in Nat /\ j + 1 = i + 1
      BY <2>1, <2>2, <2>3, InTail
    <3>. QED  BY <2>1, <3>1
  <2>. QED  BY <2>1, <2>2, <2>3
<1>. QED  BY <1>1 DEF Distinct

LEMMA DistinctAppend ==
  ASSUME NEW b, NEW F \in Seq(Packets), NEW m \in Packets, NEW n, Distinct(b, F, n),
         IsRequest(m, n) =>
           /\ b # None => b.id # m.id
           /\ \A i \in DOMAIN F : IsRequest(F[i], n) => F[i].id # m.id
  PROVE  Distinct(b, Append(F, m), n)
<1> DEFINE z == Append(F, m)
<1>1. /\ \A j \in DOMAIN F : z[j] = F[j]
      /\ \A j \in DOMAIN z : (j = Len(F) + 1 /\ z[j] = m) \/ j \in DOMAIN F
  BY InAppend
<1> HIDE DEF z
<1>2. Distinct(b, z, n)
  BY <1>1 DEF Distinct
<1>. QED  BY <1>2 DEF z

LEMMA BondTail ==
  ASSUME NEW alive, NEW a, NEW b, NEW sb, NEW F \in Seq(Packets), NEW B \in Seq(Packets),
         NEW heard, NEW n, Bond(alive, a, b, sb, F, B, heard, n)
  PROVE  /\ F # <<>> /\ (b # None /\ sb = "accepted" => ~IsData(Head(F), n)) =>
              Bond(alive, a, b, sb, Tail(F), B, heard, n)
         /\ B # <<>> => Bond(alive, a, b, sb, F, Tail(B), heard, n)
<1>1. ASSUME F # <<>>, b # None /\ sb = "accepted" => ~IsData(Head(F), n)
      PROVE  Bond(alive, a, b, sb, Tail(F), B, heard, n)
  <2>1. Distinct(b, Tail(F), n)
    BY <1>1, DistinctTail DEF Bond
  <2>2. ASSUME alive  PROVE Open(a, Tail(F), heard, n)
    BY <1>1, <2>2, OpenTail DEF Bond
  <2>3. ASSUME alive  PROVE Kept(a, b, sb, Tail(F), B, heard, n)
    <3>1. Kept(a, b, sb, F, B, heard, n)
      BY <2>3 DEF Bond
    <3>2. NoData(F, n) => NoData(Tail(F), n)
      BY <1>1, NoneInTail
    <3>3. b # None /\ sb = "accepted" =>
            \A from, to, size : Links(F, n, from, to, size) => Links(Tail(F), n, from, to, size)
      BY <1>1, LinksTail
    <3>. QED  BY <3>1, <3>2, <3>3 DEF Kept
  <2>. QED  BY <2>1, <2>2, <2>3 DEF Bond
<1>2. ASSUME B # <<>>  PROVE Bond(alive, a, b, sb, F, Tail(B), heard, n)
  <2>1. Answered(a, B, heard, n) => Answered(a, Tail(B), heard, n)
    BY <1>2, AnsweredTail
  <2>2. Kept(a, b, sb, F, B, heard, n) => Kept(a, b, sb, F, Tail(B), heard, n)
    BY <1>2, NoneInTail DEF Kept
  <2>. QED  BY <2>1, <2>2 DEF Bond
<1>. QED  BY <1>1, <1>2

LEMMA BondAppend ==
  ASSUME NEW alive, NEW a, NEW b, NEW sb, NEW F \in Seq(Packets), NEW B \in Seq(Packets),
         NEW heard, NEW n, Bond(alive, a, b, sb, F, B, heard, n), NEW m \in Packets
  PROVE  /\ ~IsRequest(m, n) /\ ~IsData(m, n) =>
              Bond(alive, a, b, sb, Append(F, m), B, heard, n)
         /\ ~Back(m, n) => Bond(alive, a, b, sb, F, Append(B, m), heard, n)
<1>1. ASSUME ~IsRequest(m, n), ~IsData(m, n)
      PROVE  Bond(alive, a, b, sb, Append(F, m), B, heard, n)
  <2>1. Distinct(b, Append(F, m), n)
    BY <1>1, DistinctAppend DEF Bond
  <2>2. Open(a, F, heard, n) => Open(a, Append(F, m), heard, n)
    BY <1>1, OpenAppend
  <2>3. Kept(a, b, sb, F, B, heard, n) => Kept(a, b, sb, Append(F, m), B, heard, n)
    BY <1>1, NoneInAppend, LinksAppend DEF Kept
  <2>. QED  BY <2>1, <2>2, <2>3 DEF Bond
<1>2. ASSUME ~Back(m, n)  PROVE Bond(alive, a, b, sb, F, Append(B, m), heard, n)
  <2>1. Answered(a, B, heard, n) => Answered(a, Append(B, m), heard, n)
    BY <1>2, AnsweredAppend
  <2>2. Kept(a, b, sb, F, B, heard, n) => Kept(a, b, sb, F, Append(B, m), heard, n)
    BY <1>2, NoneInAppend DEF Kept, Back
  <2>. QED  BY <2>1, <2>2 DEF Bond
<1>. QED  BY <1>1, <1>2

\* The receiver resumes another file, or the sender's process ends.
LEMMA BondHeard ==
  ASSUME NEW alive, NEW a, NEW b, NEW sb, NEW F, NEW B, NEW heard, NEW n,
         Bond(alive, a, b, sb, F, B, heard, n)
  PROVE  /\ \A id : (a # None => a.id # id) => Bond(alive, a, b, sb, F, B, heard \cup {id}, n)
         /\ Bond(FALSE, a, b, sb, F, B, heard, n)
BY DEF Bond, Waits, Answered, Open, Kept

\* The receiver has no file, or its toxcore does not know it.
LEMMA BondLost ==
  ASSUME NEW alive, NEW a, NEW b, NEW sb, NEW F, NEW B, NEW heard, NEW n,
         Bond(alive, a, b, sb, F, B, heard, n)
  PROVE  /\ \A x : Bond(alive, a, None, x, F, B, heard, n)
         /\ Bond(alive, a, b, "none", F, B, heard, n)
BY DEF Bond, Distinct, Kept

\* A peer that is a friend again gets no packets from before.
LEMMA BondCleared ==
  ASSUME NEW alive, NEW a, NEW b, NEW sb, NEW F, NEW B, NEW heard, NEW n,
         Bond(alive, a, b, sb, F, B, heard, n)
  PROVE  /\ Bond(alive, a, b, sb, F, <<>>, heard, n)
         /\ sb = "none" => Bond(alive, a, b, sb, <<>>, B, heard, n)
<1>1. DOMAIN <<>> = {}
  OBVIOUS
<1>. QED  BY <1>1 DEF Bond, Distinct, Answered, Open, Kept, NoReceipt, NoData

\* The receiver takes an offer.
LEMMA BondOffered ==
  ASSUME NEW alive, NEW a, NEW sb, NEW F \in Seq(Packets), F # <<>>,
         NEW B \in Seq(Packets), NEW heard, NEW n, Bond(alive, a, None, sb, F, B, heard, n),
         IsRequest(Head(F), n), NEW cause \in Garbage
  PROVE  Bond(alive, a, Transfer(Head(F).id, Head(F).size, cause), "offered", Tail(F), B,
              heard, n)
<1> DEFINE m == Head(F)
           b == Transfer(m.id, m.size, cause)
<1>1. b.id = m.id /\ b.file_size = m.size /\ b.position = 0
  BY DEF Transfer
<1>2. 1 \in DOMAIN F /\ F[1] = m
  BY InTail
<1> HIDE DEF b
<1>3. Distinct(b, Tail(F), n)
  <2>1. ASSUME NEW i \in DOMAIN Tail(F), IsRequest(Tail(F)[i], n)  PROVE b.id # Tail(F)[i].id
    <3>1. i + 1 \in DOMAIN F /\ i + 1 # 1 /\ Tail(F)[i] = F[i + 1]
      BY InTail
    <3>. QED  BY <1>1, <1>2, <2>1, <3>1 DEF Bond, Distinct
  <2>2. Distinct(None, Tail(F), n)
    BY DistinctTail DEF Bond
  <2>. QED  BY <2>1, <2>2 DEF Distinct
<1>4. ASSUME alive  PROVE Kept(a, b, "offered", Tail(F), B, heard, n)
  <2>1. /\ a # None /\ a.id = m.id /\ a.file_size = m.size
        /\ \A j \in DOMAIN F : IsData(F[j], n) => j < 1
    BY <1>2, <1>4 DEF Bond, Open
  <2>2. NoData(Tail(F), n)
    <3>1. \A i \in DOMAIN Tail(F) : ~(i + 1 < 1)
      BY InTail
    <3>. QED  BY <2>1, <3>1, InTail DEF NoData
  <2>. QED  BY <1>1, <2>1, <2>2 DEF Kept, Agree
<1>5. alive => Answered(a, B, heard, n) /\ Open(a, Tail(F), heard, n)
  BY OpenTail DEF Bond
<1>6. Bond(alive, a, b, "offered", Tail(F), B, heard, n)
  BY <1>3, <1>4, <1>5 DEF Bond
<1>. QED  BY <1>6 DEF b

\* The receiver takes data, and confirms what is the last.
LEMMA BondReceives ==
  ASSUME NEW alive, NEW a, NEW b \in Transfers, b # None, NEW F \in Seq(Packets), F # <<>>,
         NEW B \in Seq(Packets), NEW heard, NEW n,
         Bond(alive, a, b, "accepted", F, B, heard, n), IsData(Head(F), n),
         NEW u \in Transfers, u # None, u.id = b.id, u.file_size = b.file_size,
         u.position = (b.position + Head(F).length) % WordSize,
         NEW m \in Packets, ~IsAccept(m, n)
  PROVE  Bond(alive, a, u, "accepted", Tail(F),
              IF u.position = u.file_size THEN Append(B, m) ELSE B, heard, n)
<1> DEFINE C == IF u.position = u.file_size THEN Append(B, m) ELSE B
<1>1. 1 \in DOMAIN F /\ F[1] = Head(F)
  BY InTail
<1>2. Distinct(u, Tail(F), n) /\ u.id \in heard
  <2>1. Distinct(b, Tail(F), n)
    BY DistinctTail DEF Bond
  <2>. QED  BY <2>1 DEF Bond, Distinct
<1>3. ASSUME alive
      PROVE  Answered(a, C, heard, n) /\ Kept(a, u, "accepted", Tail(F), C, heard, n)
  <2>1. Answered(a, B, heard, n) /\ Kept(a, b, "accepted", F, B, heard, n)
    BY <1>3 DEF Bond
  <2>2. ~NoData(F, n)
    BY <1>1 DEF NoData
  <2>3. /\ a # None /\ Agree(a, b) /\ a.id \in heard
        /\ Links(F, n, b.position, a.position, b.file_size)
        /\ NoReceipt(B, n) \/ b.position = b.file_size
    BY <2>1, <2>2 DEF Kept, Agree, Bond
  <2>4. /\ Head(F).at = b.position /\ b.position # b.file_size
        /\ Links(Tail(F), n, After(Head(F)), a.position, b.file_size)
    BY <2>3, LinksTail
  <2>5. After(Head(F)) = u.position /\ NoReceipt(B, n) /\ Agree(a, u)
    BY <2>3, <2>4 DEF After, Agree
  <2>6. Links(Tail(F), n, u.position, a.position, u.file_size)
    BY <2>4, <2>5
  <2>7. CASE u.position = u.file_size
    <3>1. a.position = a.file_size
      <4>1. Tail(F) \in Seq(Packets)
        OBVIOUS
      <4>2. a.position = u.file_size
        BY <2>6, <2>7, <4>1, LinksEnd
      <4>. QED  BY <2>5, <4>2 DEF Agree
    <3>2. Answered(a, Append(B, m), heard, n)
      BY <2>1, <2>3, <2>5, <3>1, AnsweredAppend
    <3>. QED  BY <2>3, <2>5, <2>6, <2>7, <3>2, <1>2 DEF Kept
  <2>8. CASE u.position # u.file_size
    BY <2>1, <2>3, <2>5, <2>6, <2>8, <1>2 DEF Kept
  <2>. QED  BY <2>7, <2>8
<1>4. alive => Open(a, Tail(F), heard, n)
  BY OpenTail DEF Bond
<1> HIDE DEF C
<1>5. Bond(alive, a, u, "accepted", Tail(F), C, heard, n)
  BY <1>2, <1>3, <1>4 DEF Bond
<1>. QED  BY <1>5 DEF C

\* The sender hears that its file is accepted.
LEMMA BondAccepted ==
  ASSUME NEW a \in Transfers, a # None, NEW b, NEW sb, NEW F \in Seq(Packets),
         NEW B \in Seq(Packets), B # <<>>, NEW heard, NEW n,
         Bond(TRUE, a, b, sb, F, B, heard, n), IsAccept(Head(B), n),
         NEW u, u # None, u.id = a.id, u.state = "RUNNING", u.position = a.position,
         u.file_size = a.file_size, u.event_pending = a.event_pending
  PROVE  Bond(TRUE, u, b, sb, F, Tail(B), heard, n)
<1>1. 1 \in DOMAIN B /\ B[1] = Head(B)
  BY InTail
<1>2. a.id \in heard
  BY <1>1 DEF Bond, Answered
<1>3. Bond(TRUE, a, b, sb, F, Tail(B), heard, n)
  BY BondTail
<1>. QED  BY <1>2, <1>3 DEF Bond, Waits, Answered, Open, Kept, Agree

\* The sender hears that all of its file was received.
LEMMA BondEnds ==
  ASSUME NEW a, NEW b, NEW sb, NEW F \in Seq(Packets), NEW B \in Seq(Packets), B # <<>>,
         NEW heard, NEW n, Bond(TRUE, a, b, sb, F, B, heard, n), IsReceipt(Head(B), n)
  PROVE  /\ a # None /\ a.position = a.file_size
         /\ Bond(TRUE, None, b, sb, F, Tail(B), heard, n)
<1>1. 1 \in DOMAIN B /\ B[1] = Head(B)
  BY InTail
<1>2. /\ a # None /\ a.id \in heard /\ a.position = a.file_size
      /\ \A j \in DOMAIN B : Back(B[j], n) => j <= 1
  BY <1>1 DEF Bond, Answered
<1>3. NoAccept(Tail(B), n) /\ NoReceipt(Tail(B), n)
  <2>1. \A i \in DOMAIN Tail(B) : ~(i + 1 <= 1)
    BY InTail
  <2>. QED  BY <1>2, <2>1, InTail DEF NoAccept, NoReceipt, Back
<1>4. Answered(None, Tail(B), heard, n)
  BY <1>3 DEF Answered, NoAccept, NoReceipt
<1>5. Open(None, F, heard, n)
  BY <1>2 DEF Bond, Open
<1>6. Kept(None, b, sb, F, Tail(B), heard, n)
  <2>1. Kept(a, b, sb, F, B, heard, n) /\ ~NoReceipt(B, n)
    BY <1>1 DEF Bond, NoReceipt
  <2>2. ~(b # None /\ sb # "none" /\ b.id \notin heard)
    BY <1>2, <2>1 DEF Kept, Agree
  <2>3. b # None /\ sb = "accepted" => NoData(F, n)
    BY <2>1, LinksEnd DEF Kept
  <2>. QED  BY <1>3, <2>2, <2>3 DEF Kept
<1>. QED  BY <1>2, <1>4, <1>5, <1>6 DEF Bond, Waits

\* The sender's client is asked for a chunk.
LEMMA BondAsked ==
  ASSUME NEW a, Wants(a), NEW b, NEW sb, NEW F, NEW B, NEW heard, NEW n, NEW alive,
         Bond(alive, a, b, sb, F, B, heard, n),
         NEW u, u # None, u.id = a.id, u.state = a.state, u.position = a.position,
         u.file_size = a.file_size
  PROVE  Bond(alive, u, b, sb, F, B, heard, n)
BY DEF Bond, Wants, Waits, Answered, Open, Kept, Agree

\* The sender's client sends a chunk.
LEMMA BondSends ==
  ASSUME NEW a \in Transfers, a # None, a.event_pending, NEW b, NEW sb,
         NEW F \in Seq(Packets), NEW B, NEW heard, NEW n,
         Bond(TRUE, a, b, sb, F, B, heard, n),
         NEW m \in Packets, IsData(m, n), m.at = a.position,
         NEW u, u # None, u.id = a.id, u.file_size = a.file_size, ~u.event_pending,
         u.position = After(m)
  PROVE  Bond(TRUE, u, b, sb, Append(F, m), B, heard, n)
<1>1. a.id \in heard /\ a.position # a.file_size
  BY DEF Bond, Waits
<1>2. ~IsRequest(m, n)
  BY DEF IsData, IsRequest
<1>3. Distinct(b, Append(F, m), n)
  BY <1>2, DistinctAppend DEF Bond
<1>4. Answered(u, B, heard, n)
  BY <1>1 DEF Bond, Answered
<1>5. Open(u, Append(F, m), heard, n)
  <2>1. Open(u, F, heard, n)
    BY <1>1 DEF Bond, Open
  <2>. QED  BY <1>1, <1>2, <2>1, OpenAppend
<1>6. Kept(u, b, sb, Append(F, m), B, heard, n)
  <2>1. Kept(a, b, sb, F, B, heard, n) /\ NoReceipt(B, n)
    BY <1>1 DEF Bond, Answered, NoReceipt
  <2>2. ~(b # None /\ sb # "none" /\ b.id \notin heard)
    BY <1>1, <2>1 DEF Kept, Agree
  <2>3. b # None /\ sb = "accepted" =>
          Agree(a, b) /\ Links(F, n, b.position, a.position, b.file_size)
    BY <1>1, <2>1 DEF Kept
  <2>4. b # None /\ sb = "accepted" =>
          Agree(u, b) /\ Links(Append(F, m), n, b.position, u.position, b.file_size)
    BY <1>1, <2>3, LinksAppend DEF Agree
  <2>. QED  BY <2>1, <2>2, <2>4 DEF Kept
<1>. QED  BY <1>1, <1>3, <1>4, <1>5, <1>6 DEF Bond, Waits

\* The sender's client offers a file.
LEMMA BondOffers ==
  ASSUME NEW a, NEW b, NEW sb, NEW F \in Seq(Packets), NEW B, NEW heard, NEW n,
         Bond(TRUE, a, b, sb, F, B, heard, n), NEW m \in Packets, IsRequest(m, n),
         b # None => b.id # m.id, m.id \notin heard,
         \A i \in DOMAIN F : IsRequest(F[i], n) => F[i].id # m.id, NEW cause \in Garbage
  PROVE  /\ a = None =>
              Bond(TRUE, Transfer(m.id, m.size, cause), b, sb, Append(F, m), B, heard, n)
         /\ Bond(FALSE, a, b, sb, Append(F, m), B, heard, n)
<1>1. Distinct(b, Append(F, m), n)
  BY DistinctAppend DEF Bond
<1>2. ASSUME a = None, NEW u, u # None, u.id = m.id, u.file_size = m.size, u.state = "PAUSED",
             u.position = 0, ~u.event_pending
      PROVE  Bond(TRUE, u, b, sb, Append(F, m), B, heard, n)
  <2>1. Answered(u, B, heard, n)
    BY <1>2 DEF Bond, Answered
  <2>2. NoRequest(F, n)
    BY <1>2 DEF Bond, Open, NoRequest
  <2>3. Open(u, Append(F, m), heard, n)
    <3>1. /\ Append(F, m)[Len(F) + 1] = m
          /\ \A j \in DOMAIN F : j < Len(F) + 1 /\ Append(F, m)[j] = F[j]
          /\ \A j \in DOMAIN Append(F, m) : j = Len(F) + 1 \/ j \in DOMAIN F
      BY InAppend
    <3>2. ~IsData(m, n)
      BY DEF IsData, IsRequest
    <3>. QED  BY <1>2, <2>2, <3>1, <3>2 DEF Open, NoRequest
  <2>4. Kept(u, b, sb, Append(F, m), B, heard, n)
    <3>1. Kept(a, b, sb, F, B, heard, n) /\ ~IsData(m, n)
      BY DEF Bond, IsData, IsRequest
    <3>2. NoData(F, n) => NoData(Append(F, m), n)
      BY <3>1, NoneInAppend
    <3>. QED  BY <1>2, <3>1, <3>2 DEF Kept
  <2>. QED  BY <1>1, <1>2, <2>1, <2>3, <2>4 DEF Bond, Waits
<1>3. /\ Transfer(m.id, m.size, cause).id = m.id
      /\ Transfer(m.id, m.size, cause).file_size = m.size
      /\ Transfer(m.id, m.size, cause).state = "PAUSED"
      /\ Transfer(m.id, m.size, cause).position = 0
      /\ ~Transfer(m.id, m.size, cause).event_pending
  BY DEF Transfer
<1>4. Transfer(m.id, m.size, cause) # None
  <2>1. m.id \in Ids /\ m.size \in Sizes
    BY DEF IsRequest, Packets
  <2>. QED  BY <2>1, TransferMade, NoneAssumption
<1>5. Bond(FALSE, a, b, sb, Append(F, m), B, heard, n)
  BY <1>1 DEF Bond
<1>. QED  BY <1>2, <1>3, <1>4, <1>5

\* The receiver's client resumes the file.
LEMMA BondResumes ==
  ASSUME NEW alive, NEW a, NEW b, b # None, NEW sb, NEW F \in Seq(Packets),
         NEW B \in Seq(Packets), NEW heard, NEW n,
         Bond(alive, a, b, sb, F, B, heard, n), b.id \notin heard
  PROVE  /\ sb # "accepted"
         /\ Bond(alive, a, b, sb, F, B, heard \cup {b.id}, n)
         /\ \A m \in Packets : sb = "offered" /\ ~IsReceipt(m, n) =>
              Bond(alive, a, b, "accepted", F, Append(B, m), heard \cup {b.id}, n)
<1> DEFINE h == heard \cup {b.id}
<1>1. sb # "accepted"
  BY DEF Bond
<1>2. Waits(a, h) /\ Distinct(b, F, n) /\ (alive => Answered(a, B, h, n))
  BY DEF Bond, Waits, Answered
<1>3. ASSUME alive  PROVE Open(a, F, h, n)
  BY <1>3 DEF Bond, Open, Distinct
<1>4. Bond(alive, a, b, sb, F, B, h, n)
  BY <1>1, <1>2, <1>3 DEF Bond, Kept
<1>5. ASSUME alive, sb = "offered", NEW m \in Packets, ~IsReceipt(m, n)
      PROVE  Answered(a, Append(B, m), h, n) /\ Kept(a, b, "accepted", F, Append(B, m), h, n)
  <2>1. /\ a # None /\ Agree(a, b) /\ b.position = 0 /\ NoData(F, n)
    BY <1>5 DEF Bond, Kept
  <2>2. a.position = 0 /\ NoReceipt(B, n)
    BY <1>5, <2>1 DEF Bond, Waits, Answered, NoReceipt, Agree
  <2>3. Links(F, n, b.position, a.position, b.file_size)
    BY <2>1, <2>2, LinksEnd
  <2>4. NoReceipt(Append(B, m), n)
    BY <1>5, <2>2, NoneInAppend
  <2>5. Answered(a, Append(B, m), h, n)
    BY <1>2, <1>5, <2>1, <2>2, AnsweredAppend DEF Agree
  <2>. QED  BY <2>1, <2>3, <2>4, <2>5 DEF Kept
<1>. QED  BY <1>1, <1>2, <1>3, <1>4, <1>5 DEF Bond

-----------------------------------------------------------------------------
(* What a step of a peer leaves as it is.                                  *)

LEMMA BondKept ==
  ASSUME NEW alive, NEW a, NEW b, NEW sb, NEW F \in Seq(Packets), NEW B \in Seq(Packets),
         NEW heard, NEW n, Bond(alive, a, b, sb, F, B, heard, n), NEW alive2, NEW F2, NEW B2,
         alive2 = alive \/ alive2 = FALSE,
         \/ F2 = F
         \/ F # <<>> /\ F2 = Tail(F) /\ ~Onward(Head(F), n)
         \/ \E m \in Packets : ~Onward(m, n) /\ F2 = Append(F, m)
         \/ \E m, k \in Packets : /\ ~Onward(m, n) /\ ~Onward(k, n)
                                  /\ F2 = Append(Append(F, m), k),
         \/ B2 = B
         \/ B # <<>> /\ B2 = Tail(B)
         \/ \E m \in Packets : ~Back(m, n) /\ B2 = Append(B, m)
         \/ \E m, k \in Packets : /\ ~Back(m, n) /\ ~Back(k, n)
                                  /\ B2 = Append(Append(B, m), k)
  PROVE  Bond(alive2, a, b, sb, F2, B2, heard, n)
<1>1. \A m : ~Onward(m, n) => ~IsRequest(m, n) /\ ~IsData(m, n)
  BY DEF Onward
<1>2. Bond(alive, a, b, sb, F2, B, heard, n) /\ F2 \in Seq(Packets)
  <2>1. CASE F2 = F
    BY <2>1
  <2>2. CASE F # <<>> /\ F2 = Tail(F) /\ ~Onward(Head(F), n)
    <3>1. Tail(F) \in Seq(Packets)
      BY <2>2
    <3>. QED  BY <1>1, <2>2, <3>1, BondTail
  <2>3. ASSUME NEW m \in Packets, ~Onward(m, n)
        PROVE  /\ Append(F, m) \in Seq(Packets)
               /\ Bond(alive, a, b, sb, Append(F, m), B, heard, n)
    <3>1. Append(F, m) \in Seq(Packets)
      BY AppendProperties
    <3>. QED  BY <1>1, <2>3, <3>1, BondAppend
  <2>4. ASSUME NEW m \in Packets, NEW k \in Packets, ~Onward(m, n), ~Onward(k, n)
        PROVE  /\ Append(Append(F, m), k) \in Seq(Packets)
               /\ Bond(alive, a, b, sb, Append(Append(F, m), k), B, heard, n)
    <3>1. PICK s \in Seq(Packets) : /\ s = Append(F, m)
                                    /\ Bond(alive, a, b, sb, s, B, heard, n)
      BY <2>3, <2>4
    <3>2. Append(s, k) \in Seq(Packets)
      BY AppendProperties
    <3>3. Bond(alive, a, b, sb, Append(s, k), B, heard, n)
      BY <1>1, <2>4, <3>1, BondAppend
    <3>. QED  BY <3>1, <3>2, <3>3
  <2>. QED  BY <2>1, <2>2, <2>3, <2>4
<1>3. Bond(alive, a, b, sb, F2, B2, heard, n)
  <2>1. CASE B2 = B \/ (B # <<>> /\ B2 = Tail(B))
    BY <1>2, <2>1, BondTail
  <2>2. ASSUME NEW m \in Packets, ~Back(m, n)
        PROVE  Bond(alive, a, b, sb, F2, Append(B, m), heard, n)
    BY <1>2, <2>2, BondAppend
  <2>3. ASSUME NEW m \in Packets, NEW k \in Packets, ~Back(m, n), ~Back(k, n)
        PROVE  Bond(alive, a, b, sb, F2, Append(Append(B, m), k), heard, n)
    <3>1. PICK s \in Seq(Packets) : s = Append(B, m)
      BY AppendProperties
    <3>2. Bond(alive, a, b, sb, F2, s, heard, n)
      BY <2>2, <2>3, <3>1
    <3>3. Bond(alive, a, b, sb, F2, Append(s, k), heard, n)
      BY <1>2, <2>3, <3>2, BondAppend
    <3>. QED  BY <3>1, <3>3
  <2>. QED  BY <2>1, <2>2, <2>3
<1>. QED  BY <1>3, BondHeard

LEMMA BondsOf ==
  ASSUME NEW p \in Peers
  PROVE  /\ (\A r \in Peers, n \in Numbers : BondBy(r, n))
              <=> \A n \in Numbers : BondBy(p, n) /\ BondBy(Other(p), n)
         /\ (\A r \in Peers, n \in Numbers : BondBy(r, n)')
              <=> \A n \in Numbers : BondBy(p, n)' /\ BondBy(Other(p), n)'
BY TwoPeers

\* p sends, its friend receives; and the other way around.
LEMMA Bonds ==
  ASSUME NEW p \in Peers, NEW n
  PROVE  /\ BondBy(p, n) <=>
              Bond(Alive(p), transfers[p][n], transfers[Other(p)][Incoming + n],
                   slots[Other(p)][Incoming + n], net[Other(p)], net[p], resumed[Other(p)], n)
         /\ BondBy(p, n)' <=>
              Bond(Alive(p)', transfers'[p][n], transfers'[Other(p)][Incoming + n],
                   slots'[Other(p)][Incoming + n], net'[Other(p)], net'[p],
                   resumed'[Other(p)], n)
         /\ BondBy(Other(p), n) <=>
              Bond(Alive(Other(p)), transfers[Other(p)][n], transfers[p][Incoming + n],
                   slots[p][Incoming + n], net[p], net[Other(p)], resumed[p], n)
         /\ BondBy(Other(p), n)' <=>
              Bond(Alive(Other(p))', transfers'[Other(p)][n], transfers'[p][Incoming + n],
                   slots'[p][Incoming + n], net'[p], net'[Other(p)], resumed'[p], n)
BY TwoPeers DEF BondBy

\* A step about file number fn of peer p leaves all other bonds.
LEMMA OtherBonds ==
  ASSUME TypeOK, ConsentInv, NEW p \in Peers, NEW fn \in FileNumbers,
         \A q \in Peers, k \in FileNumbers : q # p \/ k # fn =>
           transfers'[q][k] = transfers[q][k] /\ slots'[q][k] = slots[q][k],
         Alive(p)' = Alive(p) \/ Alive(p)' = FALSE, Alive(Other(p))' = Alive(Other(p)),
         \/ net'[p] = net[p]
         \/ /\ net[p] # <<>> /\ net'[p] = Tail(net[p])
            /\ ArrivesFor(Head(net[p]), fn),
         \/ net'[Other(p)] = net[Other(p)]
         \/ \E m \in Packets : SentFor(m, fn) /\ net'[Other(p)] = Append(net[Other(p)], m)
         \/ \E m, k \in Packets : /\ SentFor(m, fn) /\ SentFor(k, fn)
                                  /\ net'[Other(p)] = Append(Append(net[Other(p)], m), k),
         resumed'[Other(p)] = resumed[Other(p)],
         \/ resumed'[p] = resumed[p]
         \/ \E id : /\ resumed'[p] = resumed[p] \cup {id}
                    /\ \A n \in Numbers :
                         Incoming + n # fn /\ transfers[Other(p)][n] # None =>
                           transfers[Other(p)][n].id # id,
         \A n \in Numbers : n = fn => BondBy(p, n)',
         \A n \in Numbers : Incoming + n = fn => BondBy(Other(p), n)'
  PROVE  \A r \in Peers, n \in Numbers : BondBy(r, n)'
<1> DEFINE q == Other(p)
<1>1. q \in Peers /\ q # p
  BY TwoPeers
<1>2. net[p] \in Seq(Packets) /\ net[q] \in Seq(Packets)
  BY <1>1 DEF TypeOK
<1> SUFFICES ASSUME NEW n \in Numbers
             PROVE  BondBy(p, n)' /\ BondBy(q, n)'
  BY BondsOf
<1>3. n \in FileNumbers /\ Incoming + n \in FileNumbers
  BY FileNumber
<1>4. BondBy(p, n) /\ BondBy(q, n)
  BY <1>1 DEF ConsentInv
<1>5. ASSUME n # fn  PROVE BondBy(p, n)'
  <2>1. /\ transfers'[p][n] = transfers[p][n]
        /\ transfers'[q][Incoming + n] = transfers[q][Incoming + n]
        /\ slots'[q][Incoming + n] = slots[q][Incoming + n]
    BY <1>1, <1>3, <1>5
  <2>2. \A m \in Packets : SentFor(m, fn) => ~Onward(m, n)
    BY <1>5 DEF SentFor
  <2>3. Bond(Alive(p), transfers[p][n], transfers[q][Incoming + n], slots[q][Incoming + n],
             net[q], net[p], resumed[q], n)
    BY <1>4, Bonds
  <2> DEFINE al == Alive(p)
             al2 == Alive(p)'
             F == net[q]
             F2 == net'[q]
             B == net[p]
             B2 == net'[p]
             a == transfers[p][n]
             b == transfers[q][Incoming + n]
             sb == slots[q][Incoming + n]
             heard == resumed[q]
  <2>4. /\ al2 = al \/ al2 = FALSE
        /\ \/ F2 = F
           \/ \E m \in Packets : ~Onward(m, n) /\ F2 = Append(F, m)
           \/ \E m, k \in Packets : /\ ~Onward(m, n) /\ ~Onward(k, n)
                                    /\ F2 = Append(Append(F, m), k)
        /\ B2 = B \/ (B # <<>> /\ B2 = Tail(B))
        /\ F \in Seq(Packets) /\ B \in Seq(Packets)
    BY <1>2, <2>2
  <2>5. Bond(al, a, b, sb, F, B, heard, n)
    BY <2>3
  <2> HIDE DEF al, al2, F, F2, B, B2, a, b, sb, heard
  <2>6. Bond(al2, a, b, sb, F2, B2, heard, n)
    BY ONLY <2>4, <2>5, BondKept
  <2>. QED  BY <2>1, <2>6, Bonds DEF al2, F2, B2, a, b, sb, heard
<1>6. ASSUME Incoming + n # fn  PROVE BondBy(q, n)'
  <2>1. /\ transfers'[q][n] = transfers[q][n]
        /\ transfers'[p][Incoming + n] = transfers[p][Incoming + n]
        /\ slots'[p][Incoming + n] = slots[p][Incoming + n]
    BY <1>1, <1>3, <1>6
  <2>2. \A m \in Packets : SentFor(m, fn) => ~Back(m, n)
    BY <1>6 DEF SentFor
  <2>3. Bond(Alive(q), transfers[q][n], transfers[p][Incoming + n], slots[p][Incoming + n],
             net[p], net[q], resumed[p], n)
    BY <1>4, Bonds
  <2> DEFINE al == Alive(q)
             F == net[p]
             F2 == net'[p]
             B == net[q]
             B2 == net'[q]
             a == transfers[q][n]
             b == transfers[p][Incoming + n]
             sb == slots[p][Incoming + n]
             heard == resumed[p]
             heard2 == resumed'[p]
  <2>4. /\ \/ B2 = B
           \/ \E m \in Packets : ~Back(m, n) /\ B2 = Append(B, m)
           \/ \E m, k \in Packets : /\ ~Back(m, n) /\ ~Back(k, n)
                                    /\ B2 = Append(Append(B, m), k)
        /\ F2 = F \/ (F # <<>> /\ F2 = Tail(F) /\ ~Onward(Head(F), n))
        /\ F \in Seq(Packets) /\ B \in Seq(Packets)
    BY <1>2, <1>6, <2>2 DEF ArrivesFor
  <2>5. Bond(al, a, b, sb, F, B, heard, n)
    BY <2>3
  <2>6. heard2 = heard \/ \E id : heard2 = heard \cup {id} /\ (a # None => a.id # id)
    BY <1>6
  <2>7. Alive(q)' = al
    OBVIOUS
  <2> HIDE DEF al, F, F2, B, B2, a, b, sb, heard, heard2
  <2>8. Bond(al, a, b, sb, F2, B2, heard, n)
    BY ONLY <2>4, <2>5, BondKept
  <2>9. Bond(al, a, b, sb, F2, B2, heard2, n)
    <3>1. CASE heard2 = heard
      BY <2>8, <3>1
    <3>2. ASSUME NEW id, heard2 = heard \cup {id}, a # None => a.id # id
          PROVE  Bond(al, a, b, sb, F2, B2, heard2, n)
      <4>1. \A x : (a # None => a.id # x) => Bond(al, a, b, sb, F2, B2, heard \cup {x}, n)
        BY ONLY <2>8, BondHeard
      <4>. QED  BY ONLY <3>2, <4>1
    <3>. QED  BY <2>6, <3>1, <3>2
  <2>. QED  BY <2>1, <2>7, <2>9, Bonds DEF F2, B2, a, b, sb, heard2
<1>. QED  BY <1>5, <1>6

LEMMA NoNewRequest ==
  ASSUME NEW s \in Seq(Packets), NEW z,
         \/ z = s \/ z = <<>> \/ (s # <<>> /\ z = Tail(s))
         \/ \E m \in Packets : m.type # "request" /\ z = Append(s, m)
         \/ \E m, k \in Packets : /\ m.type # "request" /\ k.type # "request"
                                  /\ z = Append(Append(s, m), k)
  PROVE  \A i \in DOMAIN z : z[i].type = "request" => \E j \in DOMAIN s : s[j] = z[i]
<1>1. CASE z = s \/ z = <<>>
  BY <1>1
<1>2. CASE s # <<>> /\ z = Tail(s)
  BY <1>2, InTail
<1>3. ASSUME NEW u \in Seq(Packets), NEW m \in Packets, m.type # "request",
             NEW i \in DOMAIN Append(u, m), Append(u, m)[i].type = "request"
      PROVE  i \in DOMAIN u /\ u[i] = Append(u, m)[i]
  BY <1>3, InAppend
<1>4. CASE \E m \in Packets : m.type # "request" /\ z = Append(s, m)
  BY <1>3, <1>4
<1>5. CASE \E m, k \in Packets : /\ m.type # "request" /\ k.type # "request"
                                 /\ z = Append(Append(s, m), k)
  <2>1. PICK m \in Packets, k \in Packets :
          m.type # "request" /\ k.type # "request" /\ z = Append(Append(s, m), k)
    BY <1>5
  <2>2. PICK u \in Seq(Packets) : u = Append(s, m)
    BY AppendProperties
  <2>3. \A i \in DOMAIN z : z[i].type = "request" => i \in DOMAIN u /\ u[i] = z[i]
    BY <1>3, <2>1, <2>2
  <2>4. \A i \in DOMAIN u : u[i].type = "request" => i \in DOMAIN s /\ s[i] = u[i]
    BY <1>3, <2>1, <2>2
  <2>. QED  BY <2>3, <2>4
<1>. QED  BY <1>1, <1>2, <1>4, <1>5

\* Where an entry comes from: the one before it, or the request that was first.
Stems(t, u, s, fn) ==
  \/ t # None /\ t.id = u.id
  \/ \E n \in Numbers, i \in DOMAIN s :
       fn = Incoming + n /\ IsRequest(s[i], n) /\ s[i].id = u.id

\* No file comes to be.
LEMMA UsedKept ==
  ASSUME UsedInv, UNCHANGED sends,
         \A r \in Peers, k \in FileNumbers : transfers'[r][k] # None =>
           Stems(transfers[r][k], transfers'[r][k], net[r], k),
         \A r \in Peers : \A i \in DOMAIN net'[r] : net'[r][i].type = "request" =>
           \E j \in DOMAIN net[r] : net[r][j] = net'[r][i],
         \A r \in Peers : \A id \in resumed'[r] :
           id \in resumed[r] \/ (id \in Ids /\ \E n \in Numbers : Uses(Other(r), n, id))
  PROVE  UsedInv'
<1>1. ASSUME NEW p \in Peers, NEW n \in Numbers, NEW id, Uses(p, n, id)'
      PROVE  Uses(p, n, id)
  <2>1. /\ Other(p) \in Peers /\ n \in FileNumbers /\ Incoming + n \in FileNumbers
        /\ \A k \in Numbers : n # Incoming + k /\ (Incoming + n = Incoming + k => n = k)
    BY TwoPeers, FileNumber DEF Incoming
  <2>2. CASE transfers'[p][n] # None /\ transfers'[p][n].id = id
    <3>1. Stems(transfers[p][n], transfers'[p][n], net[p], n)
      BY <2>1, <2>2
    <3>. QED  BY <2>1, <2>2, <3>1 DEF Stems, Uses
  <2>3. CASE /\ transfers'[Other(p)][Incoming + n] # None
             /\ transfers'[Other(p)][Incoming + n].id = id
    <3>1. Stems(transfers[Other(p)][Incoming + n], transfers'[Other(p)][Incoming + n],
                net[Other(p)], Incoming + n)
      BY <2>1, <2>3
    <3>. QED  BY <2>1, <2>3, <3>1 DEF Stems, Uses
  <2>4. CASE \E i \in DOMAIN net'[Other(p)] :
               IsRequest(net'[Other(p)][i], n) /\ net'[Other(p)][i].id = id
    BY <2>1, <2>4 DEF IsRequest, Uses
  <2>. QED  BY <1>1, <2>2, <2>3, <2>4 DEF Uses
<1>2. ASSUME NEW p \in Peers  PROVE resumed'[Other(p)] \subseteq GivenIds(p, sends[p])
  <2>1. Other(p) \in Peers /\ Other(Other(p)) = p
    BY TwoPeers
  <2>. QED  BY <2>1 DEF UsedInv
<1>. QED  BY <1>1, <1>2 DEF UsedInv

\* Nobody is asked for anything new, and what waits for an answer stays.
LEMMA CurrentKept ==
  ASSUME TypeOK, RequestsCurrent, UNCHANGED asked,
         \A p \in Peers, fn \in FileNumbers :
           transfers[p][fn] # None /\ transfers[p][fn].event_pending =>
             /\ transfers'[p][fn] # None /\ transfers'[p][fn].event_pending
             /\ transfers'[p][fn].id = transfers[p][fn].id
             /\ transfers'[p][fn].position = transfers[p][fn].position
  PROVE  RequestsCurrent'
<1>1. \A p \in Peers : \A i \in DOMAIN asked[p] : asked[p][i].number \in FileNumbers
  BY RequestsAre
<1>. QED  BY <1>1 DEF RequestsCurrent

\* A step of peer p about its file number fn, by which no file comes to be.
LEMMA ConsentMoves ==
  ASSUME TypeOK, ConsentInv, RequestsCurrent', NEW p \in Peers, NEW fn \in FileNumbers,
         isFriend[p] \/ slots'[p][fn] = slots[p][fn], UNCHANGED <<isFriend, sends>>,
         \A q \in Peers, k \in FileNumbers : q # p \/ k # fn =>
           transfers'[q][k] = transfers[q][k] /\ slots'[q][k] = slots[q][k],
         Alive(p)' = Alive(p) \/ Alive(p)' = FALSE, Alive(Other(p))' = Alive(Other(p)),
         \/ net'[p] = net[p]
         \/ /\ net[p] # <<>> /\ net'[p] = Tail(net[p])
            /\ ArrivesFor(Head(net[p]), fn),
         \/ net'[Other(p)] = net[Other(p)]
         \/ \E m \in Packets : /\ SentFor(m, fn) /\ m.type # "request"
                               /\ net'[Other(p)] = Append(net[Other(p)], m)
         \/ \E m, k \in Packets : /\ SentFor(m, fn) /\ m.type # "request"
                                  /\ SentFor(k, fn) /\ k.type # "request"
                                  /\ net'[Other(p)] = Append(Append(net[Other(p)], m), k),
         transfers'[p][fn] # None => Stems(transfers[p][fn], transfers'[p][fn], net[p], fn),
         resumed'[Other(p)] = resumed[Other(p)],
         \/ resumed'[p] = resumed[p]
         \/ /\ ~(fn < Incoming) /\ transfers[p][fn] # None
            /\ resumed'[p] = resumed[p] \cup {transfers[p][fn].id},
         \A n \in Numbers : n = fn => BondBy(p, n)',
         \A n \in Numbers : Incoming + n = fn => BondBy(Other(p), n)'
  PROVE  ConsentInv'
<1> DEFINE q == Other(p)
           id == transfers[p][fn].id
<1>1. q \in Peers /\ q # p /\ Other(q) = p /\ \A r \in Peers : r = p \/ r = q
  BY TwoPeers
<1>2. net[p] \in Seq(Packets) /\ net[q] \in Seq(Packets)
  BY <1>1 DEF TypeOK
<1>3. ASSUME resumed'[p] # resumed[p]
      PROVE  id \in Ids /\ \E n \in Numbers : Incoming + n = fn /\ Uses(q, n, id)
  <2>1. transfers[p][fn] \in Transfers
    BY <1>3 DEF TypeOK
  <2>2. PICK n \in Numbers : fn = Incoming + n
    BY <1>3, FileNumberIs
  <2>3. id \in Ids
    BY <2>1 DEF Transfers
  <2>. QED  BY <1>1, <1>3, <2>2, <2>3 DEF Uses
<1>4. \A r \in Peers, n \in Numbers : BondBy(r, n)'
  <2>1. \/ resumed'[p] = resumed[p]
        \/ \E x : /\ resumed'[p] = resumed[p] \cup {x}
                  /\ \A n \in Numbers : Incoming + n # fn /\ transfers[q][n] # None =>
                       transfers[q][n].id # x
    <3>1. CASE resumed'[p] # resumed[p]
      <4>1. PICK k \in Numbers : Incoming + k = fn /\ Uses(q, k, id)
        BY <1>3, <3>1
      <4>2. ASSUME NEW n \in Numbers, Incoming + n # fn, transfers[q][n] # None
            PROVE  transfers[q][n].id # id
        <5>1. SUFFICES ASSUME transfers[q][n].id = id  PROVE FALSE
          OBVIOUS
        <5>2. Uses(q, n, id)
          BY <4>2, <5>1 DEF Uses
        <5>3. id \in Ids /\ n # k
          BY <1>3, <3>1, <4>1, <4>2
        <5>. QED  BY <1>1, <4>1, <5>2, <5>3 DEF ConsentInv, UsedInv
      <4>3. resumed'[p] = resumed[p] \cup {id}
        BY <3>1
      <4>. QED  BY <4>2, <4>3
    <3>. QED  BY <3>1
  <2>2. \/ net'[q] = net[q]
        \/ \E m \in Packets : SentFor(m, fn) /\ net'[q] = Append(net[q], m)
        \/ \E m, k \in Packets : /\ SentFor(m, fn) /\ SentFor(k, fn)
                                 /\ net'[q] = Append(Append(net[q], m), k)
    OBVIOUS
  <2> HIDE DEF id
  <2>. QED  BY <2>1, <2>2, OtherBonds
<1>5. UsedInv'
  <2>1. ASSUME NEW r \in Peers, NEW k \in FileNumbers, transfers'[r][k] # None
        PROVE  Stems(transfers[r][k], transfers'[r][k], net[r], k)
    <3>1. CASE r = p /\ k = fn
      BY <2>1, <3>1
    <3>2. CASE r # p \/ k # fn
      BY <2>1, <3>2 DEF Stems
    <3>. QED  BY <3>1, <3>2
  <2>2. ASSUME NEW r \in Peers
        PROVE  \A i \in DOMAIN net'[r] : net'[r][i].type = "request" =>
                 \E j \in DOMAIN net[r] : net[r][j] = net'[r][i]
    <3>1. CASE r = p
      <4>1. net'[p] = net[p] \/ (net[p] # <<>> /\ net'[p] = Tail(net[p]))
        OBVIOUS
      <4>2. \A i \in DOMAIN net'[p] : net'[p][i].type = "request" =>
              \E j \in DOMAIN net[p] : net[p][j] = net'[p][i]
        BY ONLY <1>2, <4>1, NoNewRequest
      <4>. QED  BY <3>1, <4>2
    <3>2. CASE r = q
      <4>1. \/ net'[q] = net[q]
            \/ \E m \in Packets : m.type # "request" /\ net'[q] = Append(net[q], m)
            \/ \E m, k \in Packets : /\ m.type # "request" /\ k.type # "request"
                                     /\ net'[q] = Append(Append(net[q], m), k)
        OBVIOUS
      <4> HIDE DEF q
      <4>2. \A i \in DOMAIN net'[q] : net'[q][i].type = "request" =>
              \E j \in DOMAIN net[q] : net[q][j] = net'[q][i]
        <5>. PICK s, z : s \in Seq(Packets) /\ s = net[q] /\ z = net'[q]
          BY <1>2
        <5>1. \/ z = s
              \/ \E m \in Packets : m.type # "request" /\ z = Append(s, m)
              \/ \E m, k \in Packets : /\ m.type # "request" /\ k.type # "request"
                                       /\ z = Append(Append(s, m), k)
          BY ONLY <4>1, s = net[q], z = net'[q]
        <5>2. \A i \in DOMAIN z : z[i].type = "request" => \E j \in DOMAIN s : s[j] = z[i]
          BY ONLY <5>1, NoNewRequest, s \in Seq(Packets)
        <5>. QED  BY ONLY <5>2, s = net[q], z = net'[q]
      <4>. QED  BY <3>2, <4>2
    <3>. QED  BY <1>1, <3>1, <3>2
  <2>3. ASSUME NEW r \in Peers, NEW x \in resumed'[r]
        PROVE  x \in resumed[r] \/ (x \in Ids /\ \E n \in Numbers : Uses(Other(r), n, x))
    <3>1. CASE r = p /\ resumed'[p] # resumed[p]
      <4>1. resumed'[p] = resumed[p] \cup {id}
        BY <3>1
      <4>. QED  BY <1>3, <3>1, <4>1
    <3>2. CASE resumed'[r] = resumed[r]
      BY <3>2
    <3>. QED  BY <1>1, <3>1, <3>2
  <2>4. UsedInv /\ UNCHANGED sends
    BY DEF ConsentInv
  <2> HIDE DEF id, q
  <2>. QED  BY ONLY <2>1, <2>2, <2>3, <2>4, UsedKept
<1>6. StrangerInv'
  <2>1. ASSUME NEW r \in Peers, NEW k \in FileNumbers, ~isFriend[r]  PROVE slots'[r][k] = "none"
    <3>1. slots'[r][k] = slots[r][k]
      BY <2>1
    <3>. QED  BY <2>1, <3>1 DEF ConsentInv, StrangerInv
  <2>. QED  BY <2>1 DEF StrangerInv
<1>. QED  BY <1>4, <1>5, <1>6 DEF ConsentInv

-----------------------------------------------------------------------------
(* The steps of a peer.                                                    *)

Consents == TypeOK /\ PacketInv /\ ReceiverInv /\ DataOnlyOutgoing /\ ConsentInv

LEMMA Handles ==
  ASSUME TypeOK, NEW p \in Peers, NEW type, Arrives(p, type)
  PROVE  /\ Alive(p) /\ isFriend[p] /\ UNCHANGED <<asked, isFriend, sends, resumed>>
         /\ net[p] \in Seq(Packets) /\ net[p] # <<>> /\ net[Other(p)] \in Seq(Packets)
         /\ 1 \in DOMAIN net[p] /\ net[p][1] = Head(net[p])
         /\ Head(net[p]) \in Packets /\ Head(net[p]).type = type
         /\ Head(net[p]).number \in Numbers
<1>1. net[p] \in Seq(Packets) /\ net[Other(p)] \in Seq(Packets) /\ net[p] # <<>>
  BY TwoPeers DEF TypeOK, Arrives
<1>2. Head(net[p]) \in Packets /\ 1 \in DOMAIN net[p] /\ net[p][1] = Head(net[p])
  BY <1>1
<1>. QED  BY <1>1, <1>2, PacketsFor DEF Arrives, client

\* The peer that receives a file handles a packet about it.
LEMMA ConsentReceives ==
  ASSUME Consents, NEW p \in Peers, NEW n \in Numbers, isFriend[p],
         UNCHANGED <<asked, isFriend, sends, resumed>>,
         \A q \in Peers, k \in FileNumbers : q # p \/ k # Incoming + n =>
           transfers'[q][k] = transfers[q][k] /\ slots'[q][k] = slots[q][k],
         Alive(p)' = Alive(p) \/ Alive(p)' = FALSE, Alive(Other(p))' = Alive(Other(p)),
         net[p] # <<>>, net'[p] = Tail(net[p]), ArrivesFor(Head(net[p]), Incoming + n),
         \/ net'[Other(p)] = net[Other(p)]
         \/ net'[Other(p)] = Append(net[Other(p)], Control(Incoming + n, "FINISHED")),
         transfers'[p][Incoming + n] # None =>
           Stems(transfers[p][Incoming + n], transfers'[p][Incoming + n], net[p], Incoming + n),
         BondBy(Other(p), n)'
  PROVE  ConsentInv'
<1> USE DEF Consents
<1>1. /\ Incoming + n \in FileNumbers
      /\ \A k \in Numbers : k # Incoming + n /\ (Incoming + k = Incoming + n => k = n)
  BY FileNumber DEF Incoming
<1>2. PICK m \in Packets : m = Control(Incoming + n, "FINISHED")
  BY <1>1, ControlTypes
<1>3. SentFor(m, Incoming + n) /\ m.type # "request"
  BY <1>1, <1>2, ControlFor DEF Control
<1>4. RequestsCurrent'
  <2>1. transfers[p][Incoming + n] # None => ~transfers[p][Incoming + n].event_pending
    BY DEF ReceiverInv
  <2>. QED  BY <2>1, CurrentKept DEF ConsentInv
<1>5. \/ net'[Other(p)] = net[Other(p)]
      \/ \E k \in Packets : /\ SentFor(k, Incoming + n) /\ k.type # "request"
                            /\ net'[Other(p)] = Append(net[Other(p)], k)
  BY <1>2, <1>3
<1>. QED  BY <1>1, <1>4, <1>5, ConsentMoves

LEMMA ConsentRequest ==
  ASSUME Consents, NEW p \in Peers, NEW cause \in Garbage, FileSendRequest(p, cause)
  PROVE  ConsentInv'
<1>0. Arrives(p, "request") /\ TypeOK
  BY DEF FileSendRequest, Consents
<1>. PICK m \in Packets, n \in Numbers, fn \in FileNumbers, q \in Peers :
        m = Head(net[p]) /\ n = m.number /\ fn = Incoming + n /\ q = Other(p)
  BY <1>0, Handles, FileNumber, TwoPeers
<1>1. /\ Alive(p) /\ isFriend[p] /\ UNCHANGED <<asked, isFriend, sends, resumed>>
      /\ net[p] \in Seq(Packets) /\ net[p] # <<>> /\ net[q] \in Seq(Packets)
      /\ 1 \in DOMAIN net[p] /\ net[p][1] = m
      /\ m \in Packets /\ m.type = "request" /\ n \in Numbers
  BY <1>0, Handles
<1>2. q \in Peers /\ q # p /\ n \in FileNumbers /\ fn \in FileNumbers /\ n # fn
  BY <1>0, Entries
<1>3. ArrivesFor(m, fn) /\ IsRequest(m, n) /\ ~IsData(m, n)
  BY <1>1, PacketsFor DEF IsRequest, IsData
<1>4. Answer(p, <<>>) => net'[p] = Tail(net[p]) /\ net'[q] = net[q]
  BY <1>0, PacketsAre
<1>5. Bond(Alive(q), transfers[q][n], transfers[p][fn], slots[p][fn], net[p], net[q],
           resumed[p], n)
  BY <1>1, <1>2, Bonds DEF Consents, ConsentInv
<1>6. CASE transfers[p][fn] # None
  <2>1. Abort(p)
    BY <1>6 DEF FileSendRequest
  <2>2. /\ UNCHANGED <<transfers, slots>> /\ net'[p] = Tail(net[p]) /\ net'[q] = net[q]
        /\ Alive(p)' = FALSE /\ Alive(q)' = Alive(q)
    BY <1>0, <1>2, <1>4, <2>1 DEF Abort, Alive, TypeOK
  <2>3. BondBy(q, n)'
    <3>1. Bond(Alive(q), transfers[q][n], transfers[p][fn], slots[p][fn], Tail(net[p]), net[q],
               resumed[p], n)
      BY <1>1, <1>3, <1>5, BondTail
    <3>. QED  BY <1>1, <2>2, <3>1, Bonds
  <2>4. Stems(transfers[p][fn], transfers'[p][fn], net[p], fn)
    BY <1>6, <2>2 DEF Stems
  <2>. QED  BY <1>1, <1>3, <2>2, <2>3, <2>4, ConsentReceives
<1>7. CASE transfers[p][fn] = None
  <2> DEFINE b == Transfer(m.id, m.size, cause)
  <2>1. /\ transfers' = [transfers EXCEPT ![p][fn] = b]
        /\ slots' = [slots EXCEPT ![p][fn] = "offered"]
        /\ Answer(p, <<>>) /\ UNCHANGED aborted
    BY <1>7 DEF FileSendRequest
  <2>2. /\ net'[p] = Tail(net[p]) /\ net'[q] = net[q]
        /\ Alive(p)' = Alive(p) /\ Alive(q)' = Alive(q)
    BY <1>4, <2>1 DEF Alive
  <2> HIDE DEF b
  <2>3. /\ transfers'[p][fn] = b /\ slots'[p][fn] = "offered"
        /\ \A r \in Peers, k \in FileNumbers : r # p \/ k # fn =>
             transfers'[r][k] = transfers[r][k] /\ slots'[r][k] = slots[r][k]
    BY <1>0, <1>2, <2>1, Changed DEF TypeOK
  <2>4. b.id = m.id
    BY DEF b, Transfer
  <2>5. BondBy(q, n)'
    <3>1. Bond(Alive(q), transfers[q][n], b, "offered", Tail(net[p]), net[q], resumed[p], n)
      BY <1>1, <1>3, <1>5, <1>7, BondOffered DEF b
    <3>. QED  BY <1>1, <1>2, <2>2, <2>3, <3>1, Bonds
  <2>6. Stems(transfers[p][fn], transfers'[p][fn], net[p], fn)
    BY <1>1, <1>3, <2>3, <2>4 DEF Stems
  <2>7. \A r \in Peers, k \in FileNumbers : r # p \/ k # Incoming + n =>
          transfers'[r][k] = transfers[r][k] /\ slots'[r][k] = slots[r][k]
    BY <2>3
  <2> HIDE DEF b
  <2>8. /\ isFriend[p] /\ UNCHANGED <<asked, isFriend, sends, resumed>>
        /\ Alive(p)' = Alive(p) /\ Alive(Other(p))' = Alive(Other(p))
        /\ net[p] # <<>> /\ net'[p] = Tail(net[p]) /\ ArrivesFor(Head(net[p]), Incoming + n)
        /\ net'[Other(p)] = net[Other(p)]
        /\ Stems(transfers[p][Incoming + n], transfers'[p][Incoming + n], net[p], Incoming + n)
        /\ BondBy(Other(p), n)'
    BY <1>1, <1>3, <2>2, <2>5, <2>6
  <2>. QED  BY ONLY <2>7, <2>8, Consents, p \in Peers, n \in Numbers, ConsentReceives
<1>. QED  BY <1>6, <1>7

LEMMA ConsentData ==
  ASSUME Consents, NEW p \in Peers, FileData(p)
  PROVE  ConsentInv'
<1>0. Arrives(p, "data") /\ TypeOK
  BY DEF FileData, Consents
<1>. PICK m \in Packets, n \in Numbers, fn \in FileNumbers, q \in Peers :
        m = Head(net[p]) /\ n = m.number /\ fn = Incoming + n /\ q = Other(p)
  BY <1>0, Handles, FileNumber, TwoPeers
<1>. PICK b : b = transfers[p][fn]
  OBVIOUS
<1>1. /\ Alive(p) /\ isFriend[p] /\ UNCHANGED <<asked, isFriend, sends, resumed>>
      /\ net[p] \in Seq(Packets) /\ net[p] # <<>> /\ net[q] \in Seq(Packets)
      /\ m \in Packets /\ m.type = "data" /\ n \in Numbers
  BY <1>0, Handles
<1>2. q \in Peers /\ q # p /\ n \in FileNumbers /\ fn \in FileNumbers /\ n # fn
  BY <1>0, Entries
<1>3. ArrivesFor(m, fn) /\ IsData(m, n)
  BY <1>1, PacketsFor DEF IsData
<1>4. Answer(p, <<>>) => net'[p] = Tail(net[p]) /\ net'[q] = net[q]
  BY <1>0, PacketsAre
<1>5. Bond(Alive(q), transfers[q][n], b, slots[p][fn], net[p], net[q], resumed[p], n)
  BY <1>1, <1>2, Bonds DEF Consents, ConsentInv
<1>6. CASE slots[p][fn] # "accepted" \/ b = None
  <2>1. Ignore(p) \/ Abort(p)
    BY <1>6 DEF FileData
  <2>2. /\ UNCHANGED <<transfers, slots>> /\ net'[p] = Tail(net[p]) /\ net'[q] = net[q]
        /\ Alive(p)' = Alive(p) \/ Alive(p)' = FALSE
        /\ Alive(q)' = Alive(q)
    BY <1>0, <1>2, <1>4, <2>1 DEF Abort, Ignore, Alive, TypeOK
  <2>3. BondBy(q, n)'
    <3>1. Bond(Alive(q), transfers[q][n], b, slots[p][fn], Tail(net[p]), net[q], resumed[p], n)
      BY <1>1, <1>5, <1>6, BondTail
    <3>. QED  BY <1>1, <2>2, <3>1, Bonds
  <2>4. b # None => Stems(b, transfers'[p][fn], net[p], fn)
    BY <2>2 DEF Stems
  <2>. QED  BY <1>1, <1>3, <2>2, <2>3, <2>4, ConsentReceives
<1>7. CASE slots[p][fn] = "accepted" /\ b # None
  <2>1. /\ Received(p, fn, m.length) /\ UNCHANGED <<slots, aborted>>
        /\ Answer(p, Acknowledge(b, fn, (b.position + m.length) % WordSize))
    BY <1>7 DEF FileData, Abort, Ignore
  <2>2. b \in Transfers /\ m.length \in 0..DataSize
    <3>1. m.length \in 1..DataSize
      BY <1>1 DEF Packets
    <3>2. DataSize \in Nat
      BY TransfersAssumption
    <3>3. b \in Transfers
      BY <1>0, <1>2, <1>7 DEF TypeOK
    <3>. QED  BY <3>1, <3>2, <3>3
  <2>u. PICK u : u = [b EXCEPT !.position = (@ + m.length) % WordSize]
    OBVIOUS
  <2>3. /\ u \in Transfers /\ u # None /\ u.id = b.id /\ u.file_size = b.file_size
        /\ u.position = (b.position + m.length) % WordSize
    <3>1. u \in Transfers
      BY <2>2, <2>u, TransferTypes
    <3>2. u.id = b.id /\ u.file_size = b.file_size /\ u.position = (b.position + m.length) % WordSize
      BY <2>2, <2>u DEF Transfers
    <3>. QED  BY <3>1, <3>2, NoneAssumption
  <2>4. transfers' = [transfers EXCEPT ![p][fn] = u]
    BY <2>1, <2>u DEF Received
  <2>f. PICK fin \in Packets : fin = Control(fn, "FINISHED")
    BY <1>2, ControlTypes
  <2>5. ~IsAccept(fin, n)
    BY <2>f DEF Control, IsAccept
  <2>6. /\ net'[p] = Tail(net[p])
        /\ net'[q] = IF u.position = u.file_size THEN Append(net[q], fin) ELSE net[q]
    <3>1. Acknowledge(b, fn, (b.position + m.length) % WordSize)
            = IF u.position = u.file_size THEN <<fin>> ELSE <<>>
      BY <2>3, <2>f DEF Acknowledge
    <3>2. CASE u.position = u.file_size
      <4>1. Answer(p, <<fin>>)
        BY <2>1, <3>1, <3>2
      <4>. QED  BY <1>0, <3>2, <4>1, PacketsAre
    <3>3. CASE u.position # u.file_size
      <4>1. Answer(p, <<>>)
        BY <2>1, <3>1, <3>3
      <4>. QED  BY <1>4, <3>3, <4>1
    <3>. QED  BY <3>2, <3>3
  <2>7. /\ transfers'[p][fn] = u
        /\ \A r \in Peers, k \in FileNumbers : r # p \/ k # fn =>
             transfers'[r][k] = transfers[r][k]
    BY <1>0, <1>2, <2>4, Changed DEF TypeOK
  <2>8. BondBy(q, n)'
    <3>1. Bond(Alive(q), transfers[q][n], b, "accepted", net[p], net[q], resumed[p], n)
      BY <1>5, <1>7
    <3>2. Bond(Alive(q), transfers[q][n], u, "accepted", Tail(net[p]), net'[q], resumed[p], n)
      <4> DEFINE B == net[q]
                 F == net[p]
                 s == transfers[q][n]
                 al == Alive(q)
                 h == resumed[p]
      <4>1. /\ F \in Seq(Packets) /\ F # <<>> /\ B \in Seq(Packets) /\ b # None
            /\ IsData(Head(F), n) /\ u.position = (b.position + Head(F).length) % WordSize
            /\ Bond(al, s, b, "accepted", F, B, h, n)
        BY <1>1, <1>3, <1>7, <2>3, <3>1
      <4> HIDE DEF B, F, s, al, h
      <4>2. Bond(al, s, u, "accepted", Tail(F),
                 IF u.position = u.file_size THEN Append(B, fin) ELSE B, h, n)
        BY ONLY <2>2, <2>3, <2>f, <2>5, <4>1, BondReceives
      <4>. QED  BY <2>6, <4>2 DEF B, F, s, al, h
    <3>3. /\ transfers'[q][n] = transfers[q][n] /\ Alive(q)' = Alive(q)
          /\ slots'[p][fn] = "accepted" /\ resumed'[p] = resumed[p]
      BY <1>1, <1>2, <1>7, <2>1, <2>7 DEF Alive
    <3>. QED  BY <2>6, <2>7, <3>2, <3>3, Bonds
  <2>9. Stems(b, u, net[p], fn)
    BY <1>7, <2>3 DEF Stems
  <2>10. UNCHANGED slots /\ Alive(p)' = Alive(p) /\ Alive(q)' = Alive(q)
    BY <2>1 DEF Alive
  <2>11. \/ net'[q] = net[q]
         \/ net'[q] = Append(net[q], Control(fn, "FINISHED"))
    BY <2>6, <2>f
  <2>12. /\ isFriend[p] /\ UNCHANGED <<asked, isFriend, sends, resumed>>
         /\ \A r \in Peers, k \in FileNumbers : r # p \/ k # Incoming + n =>
              transfers'[r][k] = transfers[r][k] /\ slots'[r][k] = slots[r][k]
         /\ Alive(p)' = Alive(p) /\ Alive(Other(p))' = Alive(Other(p))
         /\ net[p] # <<>> /\ net'[p] = Tail(net[p]) /\ ArrivesFor(Head(net[p]), Incoming + n)
         /\ \/ net'[Other(p)] = net[Other(p)]
            \/ net'[Other(p)] = Append(net[Other(p)], Control(Incoming + n, "FINISHED"))
         /\ Stems(transfers[p][Incoming + n], transfers'[p][Incoming + n], net[p], Incoming + n)
         /\ BondBy(Other(p), n)'
    BY <1>1, <1>3, <1>7, <2>6, <2>7, <2>8, <2>9, <2>10, <2>11
  <2>. QED  BY ONLY <2>12, Consents, p \in Peers, n \in Numbers, ConsentReceives
<1>. QED  BY <1>6, <1>7

\* A packet about the file that peer p sends, or receives, by number n leaves its entry, or ends it.
LEMMA ConsentControl ==
  ASSUME "resume-any" \notin Allowed, Consents, NEW p \in Peers, FileControlled(p)
  PROVE  ConsentInv'
<1>0. Arrives(p, "control") /\ TypeOK /\ PacketInv /\ ReceiverInv /\ RequestsCurrent
  BY DEF FileControlled, Consents, ConsentInv
<1>. PICK m \in Packets, n \in Numbers, q \in Peers :
       m = Head(net[p]) /\ n = m.number /\ q = Other(p)
  BY <1>0, Handles, TwoPeers
<1>1. /\ Alive(p) /\ isFriend[p] /\ UNCHANGED <<asked, isFriend, sends, resumed>>
      /\ net[p] \in Seq(Packets) /\ net[p] # <<>> /\ net[q] \in Seq(Packets)
      /\ 1 \in DOMAIN net[p] /\ net[p][1] = m /\ m.type = "control"
  BY <1>0, Handles
<1>2. /\ m.receive_send \in {0, 1} /\ m.control \in {"ACCEPT", "PAUSE", "FINISHED"}
      /\ ArrivesFor(m, NewFileNumber(m.receive_send, n)) /\ Made(m)
      /\ ~IsRequest(m, n) /\ ~IsData(m, n)
  BY <1>0, <1>1, PacketsFor DEF PacketInv, IsRequest, IsData
<1>. PICK fn \in FileNumbers : fn = NewFileNumber(m.receive_send, n)
  BY <1>2, FileNumber
<1>3. /\ m.receive_send = 1 => fn = n
      /\ m.receive_send = 0 => fn = Incoming + n
      /\ n \in FileNumbers /\ Incoming + n \in FileNumbers
      /\ \A k \in Numbers : /\ k \in FileNumbers /\ Incoming + k \in FileNumbers
                            /\ Incoming + k # n /\ k # Incoming + n
                            /\ Incoming + k = Incoming + n => k = n
  BY FileNumber DEF NewFileNumber, Incoming
<1>4. q # p /\ (Answer(p, <<>>) => net'[p] = Tail(net[p]) /\ net'[q] = net[q])
  BY <1>0, TwoPeers, PacketsAre
<1>5. /\ Bond(Alive(p), transfers[p][n], transfers[q][Incoming + n], slots[q][Incoming + n],
              net[q], net[p], resumed[q], n)
      /\ Bond(Alive(q), transfers[q][n], transfers[p][Incoming + n], slots[p][Incoming + n],
              net[p], net[q], resumed[p], n)
  BY Bonds DEF Consents, ConsentInv
\* A packet is gone.
<1>t. /\ Bond(Alive(p), transfers[p][n], transfers[q][Incoming + n], slots[q][Incoming + n],
              net[q], Tail(net[p]), resumed[q], n)
      /\ Bond(Alive(q), transfers[q][n], transfers[p][Incoming + n], slots[p][Incoming + n],
              Tail(net[p]), net[q], resumed[p], n)
  <2>. PICK s \in Seq(Packets), z \in Seq(Packets) : s = net[p] /\ z = net[q]
    BY <1>1
  <2>1. s # <<>> /\ ~IsData(Head(s), n)
    BY <1>1, <1>2
  <2>2. /\ Bond(Alive(p), transfers[p][n], transfers[q][Incoming + n], slots[q][Incoming + n],
                z, s, resumed[q], n)
        /\ Bond(Alive(q), transfers[q][n], transfers[p][Incoming + n], slots[p][Incoming + n],
                s, z, resumed[p], n)
    BY <1>5
  <2>. QED  BY ONLY <2>1, <2>2, BondTail, s = net[p], z = net[q]
\* The file that p sends.
<1>6. ASSUME m.receive_send = 1, net'[p] = Tail(net[p]), net'[q] = net[q],
             Alive(p)' = Alive(p) \/ Alive(p)' = FALSE, Alive(q)' = Alive(q),
             \A r \in Peers, k \in FileNumbers : r # p \/ k # n =>
               transfers'[r][k] = transfers[r][k] /\ slots'[r][k] = slots[r][k],
             transfers'[p][n] # None =>
               /\ transfers[p][n] # None /\ transfers'[p][n].id = transfers[p][n].id
               /\ transfers'[p][n].position = transfers[p][n].position
               /\ transfers'[p][n].event_pending = transfers[p][n].event_pending,
             transfers[p][n] # None /\ transfers[p][n].event_pending => transfers'[p][n] # None,
             Bond(Alive(p)', transfers'[p][n], transfers[q][Incoming + n],
                  slots[q][Incoming + n], net[q], Tail(net[p]), resumed[q], n)
      PROVE  ConsentInv'
  <2>1. BondBy(p, n)'
    <3>1. /\ transfers'[q][Incoming + n] = transfers[q][Incoming + n]
          /\ slots'[q][Incoming + n] = slots[q][Incoming + n]
      BY <1>3, <1>4, <1>6
    <3>2. resumed' = resumed
      BY <1>1
    <3>. QED  BY <1>6, <3>1, <3>2, Bonds
  <2>2. RequestsCurrent'
    <3>1. ASSUME NEW r \in Peers, NEW k \in FileNumbers,
                 transfers[r][k] # None, transfers[r][k].event_pending
          PROVE  /\ transfers'[r][k] # None /\ transfers'[r][k].event_pending
                 /\ transfers'[r][k].id = transfers[r][k].id
                 /\ transfers'[r][k].position = transfers[r][k].position
      <4>1. CASE r = p /\ k = n
        BY <1>6, <3>1, <4>1
      <4>2. CASE r # p \/ k # n
        <5>1. transfers'[r][k] = transfers[r][k]
          BY ONLY <1>6, <3>1, <4>2
        <5>. QED  BY <3>1, <5>1
      <4>. QED  BY <4>1, <4>2
    <3>. QED  BY <1>0, <1>1, <3>1, CurrentKept
  <2>3. transfers'[p][n] # None => Stems(transfers[p][n], transfers'[p][n], net[p], n)
    BY <1>6 DEF Stems
  <2>4. TypeOK /\ ConsentInv /\ n \in FileNumbers /\ ArrivesFor(m, n)
    BY <1>2, <1>3, <1>6 DEF Consents
  <2>5. /\ \A r \in Peers, k \in FileNumbers : r # p \/ k # n =>
             transfers'[r][k] = transfers[r][k] /\ slots'[r][k] = slots[r][k]
        /\ net'[Other(p)] = net[Other(p)] /\ resumed'[Other(p)] = resumed[Other(p)]
        /\ resumed'[p] = resumed[p] /\ Alive(Other(p))' = Alive(Other(p))
        /\ net[p] # <<>> /\ net'[p] = Tail(net[p]) /\ ArrivesFor(Head(net[p]), n)
        /\ UNCHANGED <<isFriend, sends>> /\ isFriend[p]
        /\ Alive(p)' = Alive(p) \/ Alive(p)' = FALSE
        /\ \A k \in Numbers : k = n => BondBy(p, k)'
        /\ \A k \in Numbers : Incoming + k # n
    BY <1>1, <1>3, <1>6, <2>1, <2>4
  <2>. QED  BY ONLY <2>2, <2>3, <2>4, <2>5, p \in Peers, ConsentMoves
\* The file that p receives.
<1>7. ASSUME m.receive_send = 0, net'[p] = Tail(net[p]), net'[q] = net[q],
             Alive(p)' = Alive(p) \/ Alive(p)' = FALSE, Alive(q)' = Alive(q),
             \A r \in Peers, k \in FileNumbers : r # p \/ k # fn =>
               transfers'[r][k] = transfers[r][k] /\ slots'[r][k] = slots[r][k],
             transfers'[p][fn] # None =>
               transfers[p][fn] # None /\ transfers'[p][fn].id = transfers[p][fn].id,
             Bond(Alive(q), transfers[q][n], transfers'[p][fn], slots'[p][fn],
                  Tail(net[p]), net[q], resumed[p], n)
      PROVE  ConsentInv'
  <2>1. BondBy(q, n)'
    <3>1. transfers'[q][n] = transfers[q][n] /\ resumed'[p] = resumed[p]
      <4>1. q \in Peers /\ q # p /\ n \in FileNumbers /\ UNCHANGED resumed
        BY <1>1, <1>3, <1>4
      <4>. QED  BY ONLY <1>7, <4>1
    <3>. QED  BY <1>3, <1>7, <3>1, Bonds
  <2>2. transfers'[p][fn] # None => Stems(transfers[p][fn], transfers'[p][fn], net[p], fn)
    BY <1>7 DEF Stems
  <2>3. ArrivesFor(m, fn)
    BY <1>2
  <2>5. /\ \A r \in Peers, k \in FileNumbers : r # p \/ k # Incoming + n =>
             transfers'[r][k] = transfers[r][k] /\ slots'[r][k] = slots[r][k]
        /\ net'[Other(p)] = net[Other(p)] /\ Alive(Other(p))' = Alive(Other(p))
        /\ net[p] # <<>> /\ net'[p] = Tail(net[p]) /\ ArrivesFor(Head(net[p]), Incoming + n)
        /\ UNCHANGED <<asked, isFriend, sends, resumed>> /\ isFriend[p]
        /\ Alive(p)' = Alive(p) \/ Alive(p)' = FALSE
        /\ BondBy(Other(p), n)'
        /\ transfers'[p][Incoming + n] # None =>
             Stems(transfers[p][Incoming + n], transfers'[p][Incoming + n], net[p], Incoming + n)
    <3>1. fn = Incoming + n /\ q = Other(p) /\ m = Head(net[p])
      BY <1>3, <1>7
    <3>. QED  BY ONLY <1>1, <1>7, <2>1, <2>2, <2>3, <3>1
  <2>. QED  BY ONLY <2>5, Consents, p \in Peers, n \in Numbers, ConsentReceives
<1>8. CASE Ignore(p) \/ Abort(p)
  <2>1. /\ UNCHANGED <<transfers, slots>> /\ net'[p] = Tail(net[p]) /\ net'[q] = net[q]
        /\ Alive(p)' = Alive(p) \/ Alive(p)' = FALSE
        /\ Alive(q)' = Alive(q)
    BY <1>0, <1>4, <1>8 DEF Abort, Ignore, Alive, TypeOK
  <2>2. CASE m.receive_send = 1
    <3>1. Bond(Alive(p), transfers[p][n], transfers[q][Incoming + n], slots[q][Incoming + n],
               net[q], Tail(net[p]), resumed[q], n)
      BY <1>t
    <3>2. Bond(Alive(p)', transfers[p][n], transfers[q][Incoming + n], slots[q][Incoming + n],
               net[q], Tail(net[p]), resumed[q], n)
      <4>1. CASE Alive(p)' = FALSE
        BY <3>1, <4>1 DEF Bond
      <4>2. CASE Alive(p)' = Alive(p)
        BY <3>1, <4>2
      <4>. QED  BY <2>1, <4>1, <4>2
    <3>. QED  BY <1>6, <2>1, <2>2, <3>2
  <2>3. CASE m.receive_send = 0
    <3>1. Bond(Alive(q), transfers[q][n], transfers[p][Incoming + n], slots[p][Incoming + n],
               Tail(net[p]), net[q], resumed[p], n)
      BY <1>t
    <3>. QED  BY <1>3, <1>7, <2>1, <2>3, <3>1
  <2>. QED  BY <1>2, <2>2, <2>3
<1>9. ASSUME m.control = "FINISHED", Forget(p, fn), Answer(p, <<>>), UNCHANGED aborted
      PROVE  ConsentInv'
  <2>1. /\ net'[p] = Tail(net[p]) /\ net'[q] = net[q]
        /\ Alive(p)' = Alive(p) /\ Alive(q)' = Alive(q)
        /\ transfers'[p][fn] = None /\ slots'[p][fn] = "none"
        /\ \A r \in Peers, k \in FileNumbers : r # p \/ k # fn =>
             transfers'[r][k] = transfers[r][k] /\ slots'[r][k] = slots[r][k]
    BY <1>0, <1>4, <1>9, Changed DEF Forget, Alive, TypeOK
  <2>2. CASE m.receive_send = 1
    <3>1. IsReceipt(m, n)
      BY <1>1, <1>9, <2>2 DEF IsReceipt
    <3>2. /\ transfers[p][n] # None /\ transfers[p][n].position = transfers[p][n].file_size
          /\ Bond(TRUE, None, transfers[q][Incoming + n], slots[q][Incoming + n],
                  net[q], Tail(net[p]), resumed[q], n)
      <4>1. Bond(TRUE, transfers[p][n], transfers[q][Incoming + n], slots[q][Incoming + n],
                 net[q], net[p], resumed[q], n)
        BY <1>1, <1>5 DEF Bond
      <4>2. net[q] \in Seq(Packets) /\ net[p] \in Seq(Packets) /\ net[p] # <<>>
            /\ IsReceipt(Head(net[p]), n)
        BY <1>1, <3>1
      <4>. PICK a, b, sb, F, B, h :
             /\ a = transfers[p][n] /\ b = transfers[q][Incoming + n]
             /\ sb = slots[q][Incoming + n] /\ F = net[q] /\ B = net[p] /\ h = resumed[q]
        OBVIOUS
      <4>3. /\ a # None /\ a.position = a.file_size
            /\ Bond(TRUE, None, b, sb, F, Tail(B), h, n)
        <5>1. /\ Bond(TRUE, a, b, sb, F, B, h, n) /\ F \in Seq(Packets) /\ B \in Seq(Packets)
              /\ B # <<>> /\ IsReceipt(Head(B), n)
          BY <4>1, <4>2
        <5>. QED  BY ONLY <5>1, BondEnds
      <4>. QED  BY <4>3
    <3>3. ~transfers[p][n].event_pending
      BY <1>5, <3>2 DEF Bond, Waits
    <3>4. Bond(Alive(p)', transfers'[p][n], transfers[q][Incoming + n], slots[q][Incoming + n],
               net[q], Tail(net[p]), resumed[q], n)
      BY <1>1, <1>3, <2>1, <2>2, <3>2 DEF Bond
    <3>. QED  BY <1>3, <1>6, <2>1, <2>2, <3>3, <3>4
  <2>3. CASE m.receive_send = 0
    <3>1. Bond(Alive(q), transfers[q][n], transfers[p][Incoming + n], slots[p][Incoming + n],
               Tail(net[p]), net[q], resumed[p], n)
      BY <1>t
    <3>2. Bond(Alive(q), transfers[q][n], None, "none", Tail(net[p]), net[q], resumed[p], n)
      BY <3>1, BondLost
    <3>. QED  BY <1>7, <2>1, <2>3, <3>2
  <2>. QED  BY <1>2, <2>2, <2>3
<1>10. ASSUME m.control = "ACCEPT", transfers[p][fn] # None,
              transfers' = [transfers EXCEPT ![p][fn].state = "RUNNING"],
              slots' = [slots EXCEPT ![p][fn] = IF m.receive_send = 1 THEN "accepted" ELSE @],
              Answer(p, <<>>), UNCHANGED aborted
       PROVE  ConsentInv'
  <2>1. m.receive_send = 1 /\ fn = n
    BY <1>1, <1>2, <1>3, <1>10 DEF Made
  <2>. PICK t \in Transfers : t = transfers[p][n]
    BY <1>0, <1>10, <2>1 DEF TypeOK
  <2>. PICK u : u = [t EXCEPT !.state = "RUNNING"]
    OBVIOUS
  <2>2. /\ u # None /\ t # None /\ u.id = t.id /\ u.state = "RUNNING" /\ u.position = t.position
        /\ u.file_size = t.file_size /\ u.event_pending = t.event_pending
    <3>1. u \in Transfers
      BY TransferTypes
    <3>2. /\ u.id = t.id /\ u.state = "RUNNING" /\ u.position = t.position
          /\ u.file_size = t.file_size /\ u.event_pending = t.event_pending
      BY DEF Transfers
    <3>. QED  BY <3>1, <3>2, NoneAssumption
  <2>3. /\ transfers' = [transfers EXCEPT ![p][n] = u]
        /\ slots' = [slots EXCEPT ![p][n] = "accepted"]
    BY <1>0, <1>10, <2>1 DEF TypeOK
  <2>4. /\ net'[p] = Tail(net[p]) /\ net'[q] = net[q]
        /\ Alive(p)' = Alive(p) /\ Alive(q)' = Alive(q)
        /\ transfers'[p][n] = u
        /\ \A r \in Peers, k \in FileNumbers : r # p \/ k # n =>
             transfers'[r][k] = transfers[r][k] /\ slots'[r][k] = slots[r][k]
    <3>1. /\ transfers \in [Peers -> [FileNumbers -> Transfers \cup {None}]]
          /\ slots \in [Peers -> [FileNumbers -> {"none", "offered", "accepted"}]]
      BY <1>0 DEF TypeOK
    <3>2. /\ transfers'[p][n] = u
          /\ \A r \in Peers, k \in FileNumbers : r # p \/ k # n =>
               transfers'[r][k] = transfers[r][k]
      BY ONLY <1>3, <2>3, <3>1, p \in Peers, Changed
    <3>3. \A r \in Peers, k \in FileNumbers : r # p \/ k # n => slots'[r][k] = slots[r][k]
      BY ONLY <1>3, <2>3, <3>1, p \in Peers, Changed
    <3>4. net'[p] = Tail(net[p]) /\ net'[q] = net[q]
      BY <1>4, <1>10
    <3>5. Alive(p)' = Alive(p) /\ Alive(q)' = Alive(q)
      BY <1>10 DEF Alive
    <3>. QED  BY ONLY <3>2, <3>3, <3>4, <3>5
  <2>5. IsAccept(m, n)
    BY <1>1, <1>10, <2>1 DEF IsAccept
  <2>6. Bond(Alive(p)', u, transfers[q][Incoming + n], slots[q][Incoming + n],
             net[q], Tail(net[p]), resumed[q], n)
    <3>1. Bond(TRUE, t, transfers[q][Incoming + n], slots[q][Incoming + n],
               net[q], net[p], resumed[q], n)
      BY <1>1, <1>5 DEF Bond
    <3>2. Bond(TRUE, u, transfers[q][Incoming + n], slots[q][Incoming + n],
               net[q], Tail(net[p]), resumed[q], n)
      <4>1. net[q] \in Seq(Packets) /\ net[p] \in Seq(Packets) /\ net[p] # <<>>
            /\ IsAccept(Head(net[p]), n) /\ t \in Transfers
        BY <1>1, <2>5
      <4>. QED  BY ONLY <2>2, <3>1, <4>1, BondAccepted
    <3>. QED  BY <1>1, <2>4, <3>2 DEF Bond
  <2>. QED  BY <1>6, <2>1, <2>2, <2>4, <2>6
<1>. QED  BY <1>8, <1>9, <1>10 DEF FileControlled

\* A request is made of the client.
LEMMA CurrentAsked ==
  ASSUME TypeOK, RequestsCurrent, NEW p \in Peers, NEW fn \in FileNumbers,
         NEW r \in Requests, r.number = fn,
         transfers[p][fn] # None => ~transfers[p][fn].event_pending,
         asked' = [asked EXCEPT ![p] = Append(asked[p], r)],
         transfers'[p][fn] # None, transfers'[p][fn].id = r.id,
         transfers'[p][fn].position = r.position, transfers'[p][fn].event_pending,
         \A q \in Peers, k \in FileNumbers : q # p \/ k # fn =>
           transfers'[q][k] = transfers[q][k]
  PROVE  RequestsCurrent'
<1>1. asked \in [Peers -> Seq(Requests)]
  BY DEF TypeOK
<1>2. asked'[p] = Append(asked[p], r) /\ \A q \in Peers : q # p => asked'[q] = asked[q]
  BY <1>1
<1>3. \A i \in DOMAIN asked'[p] :
        \/ i \in DOMAIN asked[p] /\ asked'[p][i] = asked[p][i]
        \/ i = Len(asked[p]) + 1 /\ asked'[p][i] = r
  BY <1>1, <1>2
<1>4. \A i \in DOMAIN asked[p] : asked[p][i].number # fn
  BY DEF RequestsCurrent
<1>5. ASSUME NEW q \in Peers, NEW i \in DOMAIN asked[q], q # p \/ asked[q][i].number # fn
      PROVE  transfers'[q][asked[q][i].number] = transfers[q][asked[q][i].number]
  BY <1>5, RequestsAre
<1>6. \A q \in Peers : \A i \in DOMAIN asked[q] :
        LET t == transfers[q][asked[q][i].number]
        IN /\ t # None /\ t.id = asked[q][i].id
           /\ t.position = asked[q][i].position /\ t.event_pending
  BY DEF RequestsCurrent
<1>7. \A q \in Peers : \A i, j \in DOMAIN asked[q] : asked[q][i].number = asked[q][j].number => i = j
  BY DEF RequestsCurrent
<1>8. ASSUME NEW q \in Peers, NEW i \in DOMAIN asked'[q]
      PROVE  LET t == transfers'[q][asked'[q][i].number]
             IN /\ t # None /\ t.id = asked'[q][i].id
                /\ t.position = asked'[q][i].position /\ t.event_pending
  <2>1. CASE q # p
    BY <1>2, <1>5, <1>6, <2>1
  <2>2. CASE q = p /\ i \in DOMAIN asked[p] /\ asked'[p][i] = asked[p][i]
    BY <1>4, <1>5, <1>6, <2>2
  <2>3. CASE q = p /\ asked'[p][i] = r
    BY <2>3
  <2>. QED  BY <1>3, <2>1, <2>2, <2>3
<1>9. ASSUME NEW q \in Peers, NEW i \in DOMAIN asked'[q], NEW j \in DOMAIN asked'[q],
             asked'[q][i].number = asked'[q][j].number
      PROVE  i = j
  <2>1. CASE q # p
    BY <1>2, <1>7, <1>9, <2>1
  <2>2. CASE q = p
    BY <1>3, <1>4, <1>7, <1>9, <2>2
  <2>. QED  BY <2>1, <2>2
<1>. QED  BY ONLY <1>8, <1>9 DEF RequestsCurrent

\* A request is answered.
LEMMA CurrentAnswered ==
  ASSUME TypeOK, RequestsCurrent, NEW p \in Peers, NEW i \in DOMAIN asked[p],
         asked' = [asked EXCEPT ![p] = RemoveAt(asked[p], i)],
         \A q \in Peers, k \in FileNumbers :
           q # p \/ k # asked[p][i].number => transfers'[q][k] = transfers[q][k]
  PROVE  RequestsCurrent'
<1>0. asked \in [Peers -> Seq(Requests)]
  BY DEF TypeOK
<1>1. asked[p] \in Seq(Requests) /\ i \in 1..Len(asked[p]) /\ Len(asked[p]) \in Nat
  BY <1>0
<1>2. asked'[p] = RemoveAt(asked[p], i) /\ \A q \in Peers : q # p => asked'[q] = asked[q]
  BY <1>0
<1>3. /\ asked'[p] \in Seq(Requests) /\ Len(asked'[p]) = Len(asked[p]) - 1
      /\ \A j \in DOMAIN asked'[p] : asked'[p][j] = asked[p][IF j < i THEN j ELSE j + 1]
  BY <1>1, <1>2, Removed
<1>4. ASSUME NEW j \in DOMAIN asked'[p]
      PROVE  /\ (IF j < i THEN j ELSE j + 1) \in DOMAIN asked[p]
             /\ (IF j < i THEN j ELSE j + 1) # i /\ j \in Nat
  BY <1>1, <1>3
<1>5. \A q \in Peers : \A k \in DOMAIN asked[q] :
        LET t == transfers[q][asked[q][k].number]
        IN /\ t # None /\ t.id = asked[q][k].id
           /\ t.position = asked[q][k].position /\ t.event_pending
  BY DEF RequestsCurrent
<1>6. \A q \in Peers : \A j, k \in DOMAIN asked[q] : asked[q][j].number = asked[q][k].number => j = k
  BY DEF RequestsCurrent
<1>7. ASSUME NEW q \in Peers, NEW j \in DOMAIN asked'[q]
      PROVE  \E k \in DOMAIN asked[q] : /\ asked'[q][j] = asked[q][k] /\ (q = p => k # i)
                                        /\ q = p => k = IF j < i THEN j ELSE j + 1
  BY <1>2, <1>3, <1>4
<1>8. ASSUME NEW q \in Peers, NEW k \in DOMAIN asked[q], q = p => k # i
      PROVE  transfers'[q][asked[q][k].number] = transfers[q][asked[q][k].number]
  <2>1. asked[q][k].number \in FileNumbers
    BY RequestsAre
  <2>2. q = p => asked[q][k].number # asked[p][i].number
    BY <1>6, <1>8
  <2>. QED  BY <2>1, <2>2
<1>9. ASSUME NEW q \in Peers, NEW j \in DOMAIN asked'[q]
      PROVE  LET t == transfers'[q][asked'[q][j].number]
             IN /\ t # None /\ t.id = asked'[q][j].id
                /\ t.position = asked'[q][j].position /\ t.event_pending
  <2>1. PICK k \in DOMAIN asked[q] : asked'[q][j] = asked[q][k] /\ (q = p => k # i)
    BY <1>7
  <2>. QED  BY <1>5, <1>8, <2>1
<1>10. ASSUME NEW q \in Peers, NEW j \in DOMAIN asked'[q], NEW k \in DOMAIN asked'[q],
              asked'[q][j].number = asked'[q][k].number
       PROVE  j = k
  <2>1. CASE q # p
    BY <1>2, <1>6, <1>10, <2>1
  <2>2. CASE q = p
    <3>1. j \in Nat /\ k \in Nat /\ i \in Nat
      BY <1>1, <1>4, <2>2
    <3>2. (IF j < i THEN j ELSE j + 1) = (IF k < i THEN k ELSE k + 1)
      BY <1>3, <1>4, <1>6, <1>10, <2>2
    <3>. QED  BY ONLY <3>1, <3>2
  <2>. QED  BY <2>1, <2>2
<1>. QED  BY ONLY <1>9, <1>10 DEF RequestsCurrent

\* Nothing happens to the files.
LEMMA ConsentStands ==
  ASSUME ConsentInv, RequestsCurrent', NEW p \in Peers,
         UNCHANGED <<transfers, slots, net, isFriend, sends, resumed>>,
         Alive(p)' = Alive(p) \/ Alive(p)' = FALSE, Alive(Other(p))' = Alive(Other(p))
  PROVE  ConsentInv'
<1>1. ASSUME NEW r \in Peers, NEW n \in Numbers  PROVE BondBy(r, n)'
  <2>1. Bond(Alive(r), transfers[r][n], transfers[Other(r)][Incoming + n],
             slots[Other(r)][Incoming + n], net[Other(r)], net[r], resumed[Other(r)], n)
    BY Bonds DEF ConsentInv
  <2>2. Alive(r)' = Alive(r) \/ Alive(r)' = FALSE
    BY TwoPeers
  <2>3. Bond(Alive(r)', transfers[r][n], transfers[Other(r)][Incoming + n],
             slots[Other(r)][Incoming + n], net[Other(r)], net[r], resumed[Other(r)], n)
    BY <2>1, <2>2 DEF Bond
  <2>. QED  BY <2>3, Bonds
<1>2. UsedInv'
  BY DEF ConsentInv, UsedInv, Uses
<1>3. StrangerInv'
  BY DEF ConsentInv, StrangerInv
<1>. QED  BY <1>1, <1>2, <1>3 DEF ConsentInv

LEMMA ConsentAsks ==
  ASSUME Consents, NEW p \in Peers, NEW fn \in FileNumbers, AskChunk(p, fn)
  PROVE  ConsentInv'
<1>0. TypeOK /\ ReceiverInv /\ RequestsCurrent /\ ConsentInv
  BY DEF Consents, ConsentInv
<1>. PICK q \in Peers : q = Other(p) /\ q # p
  BY TwoPeers
<1>. PICK t : t = transfers[p][fn]
  OBVIOUS
<1>1. t \in Transfers /\ Wants(t) /\ t # None /\ t.state = "RUNNING" /\ ~t.event_pending
  BY <1>0 DEF AskChunk, Wants, TypeOK
<1>. PICK n \in Numbers : n = fn /\ fn < Incoming
  <2>1. CASE ~(fn < Incoming)
    <3>1. fn = Incoming + OldFileNumber(fn) /\ OldFileNumber(fn) \in Numbers
      BY <2>1, FileNumberIs
    <3>2. t.state = "PAUSED"
      BY <1>0, <1>1, <3>1 DEF ReceiverInv
    <3>. QED  BY <1>1, <3>2
  <2>. QED  BY <2>1, FileNumberIs
<1>. PICK u : u = Asked(t)
  OBVIOUS
<1>2. /\ u # None /\ u.id = t.id /\ u.state = t.state /\ u.position = t.position
      /\ u.file_size = t.file_size /\ u.event_pending
  <2>1. u \in Transfers
    BY <1>1, TransferTypes DEF Asked
  <2>2. /\ u.id = t.id /\ u.state = t.state /\ u.position = t.position
        /\ u.file_size = t.file_size /\ u.event_pending
    BY <1>1 DEF Asked, Transfers
  <2>. QED  BY <2>1, <2>2, NoneAssumption
<1>. PICK r \in Requests : /\ r = ChunkRequest(t, fn) /\ r.number = fn /\ r.id = t.id
                           /\ r.position = t.position
  BY <1>1, RequestTypes DEF ChunkRequest
<1>3. /\ transfers' = [transfers EXCEPT ![p][fn] = u]
      /\ asked' = [asked EXCEPT ![p] = Append(asked[p], r)]
      /\ UNCHANGED <<slots, net, isFriend, sends, resumed, aborted>>
  BY DEF AskChunk, client
<1>4. /\ transfers'[p][fn] = u
      /\ \A s \in Peers, k \in FileNumbers : s # p \/ k # fn =>
           transfers'[s][k] = transfers[s][k] /\ slots'[s][k] = slots[s][k]
  BY <1>0, <1>3, Changed DEF TypeOK
<1>5. Alive(p)' = Alive(p) /\ Alive(q)' = Alive(q)
  BY <1>3 DEF Alive
<1>6. /\ \A k \in Numbers : Incoming + k # n
      /\ Incoming + n \in FileNumbers /\ n \in FileNumbers
  BY FileNumber DEF Incoming
<1>7. BondBy(p, n)'
  <2>1. Bond(Alive(p), t, transfers[q][Incoming + n], slots[q][Incoming + n],
             net[q], net[p], resumed[q], n)
    BY <1>0, Bonds DEF ConsentInv
  <2>2. Bond(Alive(p), u, transfers[q][Incoming + n], slots[q][Incoming + n],
             net[q], net[p], resumed[q], n)
    BY <1>1, <1>2, <2>1, BondAsked
  <2>3. /\ transfers'[q][Incoming + n] = transfers[q][Incoming + n] /\ transfers'[p][n] = u
        /\ slots'[q][Incoming + n] = slots[q][Incoming + n]
        /\ net' = net /\ resumed' = resumed
    BY <1>3, <1>4, <1>6
  <2>. QED  BY <1>5, <2>2, <2>3, Bonds
<1>8. RequestsCurrent'
  <2>1. /\ transfers'[p][fn] # None /\ transfers'[p][fn].id = r.id
        /\ transfers'[p][fn].position = r.position /\ transfers'[p][fn].event_pending
        /\ ~transfers[p][fn].event_pending /\ r.number = fn
        /\ \A s \in Peers, k \in FileNumbers : s # p \/ k # fn => transfers'[s][k] = transfers[s][k]
    BY <1>1, <1>2, <1>4
  <2>. QED  BY ONLY <1>0, <1>3, <2>1, p \in Peers, fn \in FileNumbers, r \in Requests, CurrentAsked
<1>10. Stems(transfers[p][fn], transfers'[p][fn], net[p], fn)
  BY <1>1, <1>2, <1>4 DEF Stems
<1>11. /\ \A k \in Numbers : k = fn => BondBy(p, k)'
       /\ \A k \in Numbers : Incoming + k # fn
       /\ net'[p] = net[p] /\ net'[Other(p)] = net[Other(p)]
       /\ resumed'[p] = resumed[p] /\ resumed'[Other(p)] = resumed[Other(p)]
       /\ slots'[p][fn] = slots[p][fn] /\ UNCHANGED <<isFriend, sends>>
       /\ Alive(p)' = Alive(p) /\ Alive(Other(p))' = Alive(Other(p))
  BY <1>3, <1>5, <1>6, <1>7
<1>. QED  BY ONLY <1>0, <1>4, <1>8, <1>10, <1>11, p \in Peers, fn \in FileNumbers, ConsentMoves

\* What the sender's client sends follows what it sent before.
LEMMA ConsentSends ==
  ASSUME Consents, NEW p \in Peers, NEW i \in DOMAIN asked[p],
         NEW length \in ChunkLengths(asked[p][i]), SendChunk(p, i, length)
  PROVE  ConsentInv'
<1>0. TypeOK /\ RequestsCurrent /\ DataOnlyOutgoing /\ ConsentInv
  BY DEF Consents, ConsentInv
<1>. PICK q \in Peers : q = Other(p) /\ q # p
  BY TwoPeers
<1>. PICK r \in Requests : r = asked[p][i]
  BY <1>0, RequestsAre
<1>. PICK n \in Numbers : n = r.number /\ n \in FileNumbers /\ OldFileNumber(n) = n
  <2>1. r.number \in FileNumbers /\ r.number < Incoming
    BY <1>0, RequestsAre DEF DataOnlyOutgoing
  <2>. QED  BY <2>1, FileNumberIs
<1>. PICK t : t = transfers[p][n]
  OBVIOUS
<1>1. /\ t \in Transfers /\ t # None /\ t.event_pending
      /\ t.id = r.id /\ t.position = r.position
  BY <1>0 DEF RequestsCurrent, TypeOK
<1>2. /\ asked' = [asked EXCEPT ![p] = RemoveAt(asked[p], i)]
      /\ UNCHANGED <<slots, isFriend, sends, resumed>> /\ isFriend[p] /\ Alive(p)
  BY DEF SendChunk, AtRest, client
<1>3. ASSUME \A s \in Peers, k \in FileNumbers : s # p \/ k # n => transfers'[s][k] = transfers[s][k]
      PROVE  RequestsCurrent'
  <2>1. \A s \in Peers, k \in FileNumbers :
          s # p \/ k # asked[p][i].number => transfers'[s][k] = transfers[s][k]
    BY <1>3
  <2>. QED  BY ONLY <1>0, <1>2, <2>1, p \in Peers, i \in DOMAIN asked[p], CurrentAnswered
<1>4. CASE UNCHANGED <<transfers, net>> /\ SendFails(p, r, length)
                                        /\ aborted' = [aborted EXCEPT ![p] = TRUE]
  <2>1. Alive(p)' = FALSE /\ Alive(q)' = Alive(q)
    BY <1>0, <1>4 DEF Alive, TypeOK
  <2>. QED  BY <1>0, <1>2, <1>3, <1>4, <2>1, ConsentStands
<1>5. CASE /\ length > 0 /\ slots[p][n] = "accepted"
           /\ transfers' = [transfers EXCEPT
                ![p][n].position = (t.position + length) % WordSize, ![p][n].event_pending = FALSE]
           /\ Send(p, <<Data(t.id, n, r.position, length)>> \o
                      IF (t.position + length) % WordSize = t.file_size
                      THEN SendControl(p, n, "FINISHED") ELSE <<>>)
           /\ aborted' = [aborted EXCEPT ![p] = (t.position + length) % WordSize = t.file_size
                                                  /\ slots[p][n] = "none"]
  <2>. PICK u : u = [t EXCEPT !.position = (t.position + length) % WordSize,
                              !.event_pending = FALSE]
    OBVIOUS
  <2>. PICK m : m = Data(t.id, n, t.position, length)
    OBVIOUS
  <2>. PICK fin \in Packets : fin = Control(n, "FINISHED")
    BY ControlTypes
  <2>1. length \in 1..DataSize /\ DataSize \in Nat /\ length \in 0..DataSize
    <3>1. r.length \in 1..DataSize /\ DataSize \in Nat \ {0}
      BY <1>0, RequestsAre, TransfersAssumption
    <3>2. length \in 1..DataSize \/ length \in 1..r.length
      <4>1. length \in ChunkLengths(r)
        OBVIOUS
      <4>2. length > 0
        BY <1>5
      <4>3. length \in {0} \cup (1..DataSize) \/ length \in {0} \cup (1..r.length)
        BY ONLY <4>1 DEF ChunkLengths
      <4>4. length # 0
        BY ONLY <4>2
      <4>. QED  BY <4>3, <4>4
    <3>3. length \in 1..DataSize
      BY ONLY <3>1, <3>2
    <3>. QED  BY ONLY <3>1, <3>3
  <2>2. /\ u # None /\ u \in Transfers /\ u.id = t.id /\ u.file_size = t.file_size
        /\ ~u.event_pending /\ u.position = (t.position + length) % WordSize
    <3>1. u \in Transfers
      BY <1>1, <2>1, TransferTypes
    <3>2. /\ u.id = t.id /\ u.file_size = t.file_size /\ ~u.event_pending
          /\ u.position = (t.position + length) % WordSize
      BY <1>1 DEF Transfers
    <3>. QED  BY <3>1, <3>2, NoneAssumption
  <2>3. /\ m \in Packets /\ IsData(m, n) /\ m.at = t.position /\ After(m) = u.position
        /\ m.type = "data" /\ m.number = n
    <3>1. t.position \in 0..(WordSize - 1) /\ t.id \in Ids
      BY <1>1 DEF Transfers
    <3>2. m \in Packets
      BY <2>1, <3>1 DEF Data, Packets
    <3>. QED  BY <2>2, <3>2 DEF Data, IsData, After
  <2>4. /\ transfers'[p][n] = u
        /\ \A s \in Peers, k \in FileNumbers : s # p \/ k # n =>
             transfers'[s][k] = transfers[s][k]
    <3>1. transfers' = [transfers EXCEPT ![p][n] = u]
      <4>1. n \in DOMAIN transfers[p] /\ p \in DOMAIN transfers
        BY <1>0 DEF TypeOK
      <4>. QED  BY <1>5, <4>1
    <3>2. transfers \in [Peers -> [FileNumbers -> Transfers \cup {None}]]
      BY <1>0 DEF TypeOK
    <3>. QED  BY ONLY <3>1, <3>2, p \in Peers, n \in FileNumbers, Changed
  <2>5. Alive(p)' /\ Alive(p) /\ Alive(p)' = Alive(p) /\ Alive(q)' = Alive(q)
    <3>1. aborted'[p] = FALSE /\ aborted'[q] = aborted[q]
      BY <1>0, <1>5 DEF TypeOK
    <3>. QED  BY <1>0, <1>2, <3>1 DEF Alive, TypeOK
  <2>6. /\ net'[p] = net[p] /\ net[p] \in Seq(Packets) /\ net[q] \in Seq(Packets)
        /\ net'[q] = IF u.position = u.file_size THEN Append(Append(net[q], m), fin)
                                                 ELSE Append(net[q], m)
    <3>1. Send(p, <<m>> \o IF u.position = u.file_size THEN <<fin>> ELSE <<>>)
      BY <1>1, <1>5, <2>2 DEF SendControl
    <3>2. CASE u.position = u.file_size
      <4>1. Send(p, <<m>> \o <<fin>>)
        BY <3>1, <3>2
      <4>2. /\ net[p] \in Seq(Packets) /\ net[Other(p)] \in Seq(Packets) /\ net'[p] = net[p]
            /\ net'[Other(p)] = Append(Append(net[Other(p)], m), fin)
        BY ONLY <1>0, <2>3, <4>1, p \in Peers, fin \in Packets, PacketsAre
      <4>. QED  BY <3>2, <4>2
    <3>3. CASE u.position # u.file_size
      <4>1. Send(p, <<m>> \o <<>>)
        BY <3>1, <3>3
      <4>. QED  BY <1>0, <2>3, <3>3, <4>1, PacketsAre
    <3>. QED  BY <3>2, <3>3
  <2>7. SentFor(m, n) /\ SentFor(fin, n) /\ m.type # "request" /\ fin.type # "request"
    BY <2>3, PacketsFor, ControlFor DEF Control
  <2>8. BondBy(p, n)'
    <3>. PICK b, sb, F, B, h :
           /\ b = transfers[q][Incoming + n] /\ sb = slots[q][Incoming + n]
           /\ F = net[q] /\ B = net[p] /\ h = resumed[q]
      OBVIOUS
    <3>1. Bond(TRUE, t, b, sb, F, B, h, n)
      <4>1. Bond(Alive(p), t, b, sb, F, B, h, n)
        BY <1>0, Bonds DEF ConsentInv
      <4>. QED  BY <1>2, <4>1 DEF Bond
    <3>2. F \in Seq(Packets) /\ Append(F, m) \in Seq(Packets)
      BY <2>3, <2>6, AppendProperties
    <3>3. Bond(TRUE, u, b, sb, Append(F, m), B, h, n)
      BY ONLY <1>1, <2>2, <2>3, <3>1, <3>2, BondSends
    <3>4. Bond(TRUE, u, b, sb, net'[q], B, h, n)
      <4>1. ~IsRequest(fin, n) /\ ~IsData(fin, n)
        BY DEF Control, IsRequest, IsData
      <4>2. Bond(TRUE, u, b, sb, Append(Append(F, m), fin), B, h, n)
        BY <2>6, <3>2, <3>3, <4>1, BondAppend
      <4>. QED  BY <2>6, <3>3, <4>2
    <3>5. Bond(Alive(p)', u, b, sb, net'[q], B, h, n)
      BY <2>5, <3>4 DEF Bond
    <3>6. /\ transfers'[q][Incoming + n] = b /\ slots'[q][Incoming + n] = sb
          /\ resumed'[q] = h /\ net'[p] = B
      <4>1. Incoming + n \in FileNumbers
        BY FileNumber
      <4>2. UNCHANGED <<slots, resumed>> /\ q \in Peers /\ q # p
        BY <1>2
      <4>. QED  BY ONLY <2>4, <2>6, <4>1, <4>2, b = transfers[q][Incoming + n],
                        sb = slots[q][Incoming + n], h = resumed[q], B = net[p]
    <3>. QED  BY <2>4, <3>5, <3>6, Bonds
  <2>9. RequestsCurrent'
    BY <1>3, <2>4
  <2>10. Stems(t, u, net[p], n)
    BY <1>1, <2>2 DEF Stems
  <2>11. \/ net'[Other(p)] = net[Other(p)]
         \/ \E x \in Packets : /\ SentFor(x, n) /\ x.type # "request"
                               /\ net'[Other(p)] = Append(net[Other(p)], x)
         \/ \E x, y \in Packets : /\ SentFor(x, n) /\ x.type # "request"
                                  /\ SentFor(y, n) /\ y.type # "request"
                                  /\ net'[Other(p)] = Append(Append(net[Other(p)], x), y)
    BY <2>3, <2>6, <2>7
  <2>12. /\ \A s \in Peers, k \in FileNumbers : s # p \/ k # n =>
              transfers'[s][k] = transfers[s][k] /\ slots'[s][k] = slots[s][k]
         /\ UNCHANGED <<isFriend, sends>> /\ isFriend[p]
         /\ Alive(p)' = Alive(p) /\ Alive(Other(p))' = Alive(Other(p))
         /\ resumed'[Other(p)] = resumed[Other(p)] /\ resumed'[p] = resumed[p]
         /\ net'[p] = net[p] /\ Stems(transfers[p][n], transfers'[p][n], net[p], n)
         /\ \A k \in Numbers : k = n => BondBy(p, k)'
         /\ \A k \in Numbers : Incoming + k # n
    <3>1. ASSUME NEW k \in Numbers  PROVE Incoming + k # n
      <4>1. k \in 0..255 /\ n \in 0..255
        BY FileNumber
      <4>. QED  BY ONLY <4>1 DEF Incoming
    <3>2. Stems(transfers[p][n], transfers'[p][n], net[p], n)
      BY <2>4, <2>10
    <3>3. UNCHANGED <<slots, isFriend, sends, resumed>> /\ isFriend[p]
      BY <1>2
    <3>4. \A s \in Peers, k \in FileNumbers : s # p \/ k # n =>
            transfers'[s][k] = transfers[s][k] /\ slots'[s][k] = slots[s][k]
      BY ONLY <2>4, <3>3
    <3>5. /\ Alive(p)' = Alive(p) /\ Alive(Other(p))' = Alive(Other(p))
          /\ resumed'[Other(p)] = resumed[Other(p)] /\ resumed'[p] = resumed[p]
          /\ net'[p] = net[p] /\ \A k \in Numbers : k = n => BondBy(p, k)'
      BY <2>5, <2>6, <2>8, <3>3
    <3>. QED  BY ONLY <3>1, <3>2, <3>3, <3>4, <3>5
  <2>. QED  BY ONLY <1>0, <2>9, <2>11, <2>12, p \in Peers, n \in FileNumbers, ConsentMoves
<1>. QED
  <2>1. \/ /\ SendFails(p, r, length) /\ aborted' = [aborted EXCEPT ![p] = TRUE]
           /\ UNCHANGED <<transfers, net>>
        \/ /\ length > 0 /\ slots[p][n] = "accepted"
           /\ transfers' = [transfers EXCEPT
                ![p][n].position = (t.position + length) % WordSize, ![p][n].event_pending = FALSE]
           /\ Send(p, <<Data(t.id, n, r.position, length)>> \o
                      IF (t.position + length) % WordSize = t.file_size
                      THEN SendControl(p, n, "FINISHED") ELSE <<>>)
           /\ aborted' = [aborted EXCEPT ![p] = (t.position + length) % WordSize = t.file_size
                                                  /\ slots[p][n] = "none"]
    BY <1>1 DEF SendChunk
  <2>. QED  BY <1>4, <1>5, <2>1

\* A file that is offered has an id of its own.
LEMMA ConsentOffers ==
  ASSUME Consents, NEW p \in Peers, NEW n \in Numbers, NEW size \in Sizes, NEW cause \in Garbage,
         FileSend(p, n, size, cause)
  PROVE  ConsentInv'
<1>0. TypeOK /\ RequestsCurrent /\ ConsentInv /\ UsedInv
  BY DEF Consents, ConsentInv
<1>. PICK q \in Peers : q = Other(p) /\ q # p /\ p = Other(q) /\ \A r \in Peers : r = p \/ r = q
  BY TwoPeers
<1>. PICK id : id = <<p, sends[p] + 1>>
  OBVIOUS
<1>. PICK m : m = Request(id, n, size)
  OBVIOUS
<1>. PICK t : t = Transfer(id, size, cause)
  OBVIOUS
<1>1. /\ isFriend[p] /\ Alive(p) /\ UNCHANGED <<isFriend, asked, resumed>>
      /\ Send(p, <<m>>) /\ slots' = [slots EXCEPT ![p][n] = "offered"]
      /\ sends' = [sends EXCEPT ![p] = @ + 1]
      /\ \/ /\ transfers[p][n] # None /\ UNCHANGED transfers
            /\ aborted' = [aborted EXCEPT ![p] = TRUE]
         \/ /\ transfers[p][n] = None /\ UNCHANGED aborted
            /\ transfers' = [transfers EXCEPT ![p][n] = t]
  BY DEF FileSend, AtRest
<1>2. /\ sends[p] \in Nat /\ sends[p] < MaxSends[p] /\ id \in Ids
      /\ sends'[p] = sends[p] + 1 /\ sends'[q] = sends[q]
  <2>1. sends \in [Peers -> Nat] /\ sends[p] < MaxSends[p]
    BY <1>0 DEF TypeOK, FileSend
  <2>. QED  BY <1>1, <2>1, NewId
<1>3. /\ m \in Packets /\ IsRequest(m, n) /\ m.id = id /\ m.size = size
      /\ m.number = n /\ SentFor(m, n)
  <2>1. m \in Packets
    BY <1>2 DEF Request, Packets
  <2>2. m.type = "request" /\ m.number = n /\ m.id = id /\ m.size = size
    BY DEF Request
  <2>. QED  BY <2>1, <2>2, PacketsFor DEF IsRequest
<1>4. /\ net'[p] = net[p] /\ net'[q] = Append(net[q], m)
      /\ net[p] \in Seq(Packets) /\ net[q] \in Seq(Packets)
  BY <1>0, <1>1, <1>3, PacketsAre
<1>5. /\ n \in FileNumbers /\ Incoming + n \in FileNumbers
      /\ \A k \in Numbers : /\ k \in FileNumbers /\ Incoming + k \in FileNumbers
                            /\ Incoming + k # n
  <2>1. ASSUME NEW k \in Numbers
        PROVE  k \in FileNumbers /\ Incoming + k \in FileNumbers /\ Incoming + k # n
    <3>1. k \in 0..255 /\ n \in 0..255 /\ k \in FileNumbers /\ Incoming + k \in FileNumbers
      BY FileNumber
    <3>. QED  BY ONLY <3>1 DEF Incoming
  <2>. QED  BY <2>1
<1>6. /\ t # None /\ t.id = id
      /\ transfers'[p][n] = transfers[p][n] \/ transfers'[p][n] = t
      /\ transfers[p][n] # None => transfers'[p][n] = transfers[p][n] /\ Alive(p)' = FALSE
      /\ transfers[p][n] = None => transfers'[p][n] = t /\ Alive(p)' = Alive(p)
      /\ \A r \in Peers, k \in FileNumbers : r # p \/ k # n =>
           transfers'[r][k] = transfers[r][k] /\ slots'[r][k] = slots[r][k]
      /\ Alive(q)' = Alive(q)
  <2>1. t # None /\ t.id = id
    <3>1. t \in Transfers
      BY <1>2, TransferMade
    <3>. QED  BY <3>1, NoneAssumption DEF Transfer
  <2>2. \A r \in Peers, k \in FileNumbers : r # p \/ k # n => slots'[r][k] = slots[r][k]
    BY <1>0, <1>1, <1>5, Changed DEF TypeOK
  <2>3. CASE transfers[p][n] # None
    <3>1. UNCHANGED transfers /\ aborted' = [aborted EXCEPT ![p] = TRUE]
      BY <1>1, <2>3
    <3>2. Alive(p)' = FALSE /\ Alive(q)' = Alive(q)
      BY <1>0, <3>1 DEF Alive, TypeOK
    <3>. QED  BY <2>1, <2>2, <2>3, <3>1, <3>2
  <2>4. CASE transfers[p][n] = None
    <3>1. UNCHANGED aborted /\ transfers' = [transfers EXCEPT ![p][n] = t]
      BY <1>1, <2>4
    <3>2. Alive(p)' = Alive(p) /\ Alive(q)' = Alive(q)
      BY <3>1 DEF Alive
    <3>3. transfers \in [Peers -> [FileNumbers -> Transfers \cup {None}]]
      BY <1>0 DEF TypeOK
    <3>4. /\ transfers'[p][n] = t
          /\ \A r \in Peers, k \in FileNumbers : r # p \/ k # n => transfers'[r][k] = transfers[r][k]
      BY ONLY <1>5, <3>1, <3>3, p \in Peers, Changed
    <3>. QED  BY <2>1, <2>2, <2>4, <3>2, <3>4
  <2>. QED  BY <2>3, <2>4
\* Nobody has heard of the id.
<1>7. /\ \A k \in Numbers : ~Uses(p, k, id)
      /\ id \notin resumed[q] /\ id \notin GivenIds(p, sends[p])
      /\ GivenIds(p, sends[p]) \subseteq GivenIds(p, sends[p] + 1)
      /\ id \in GivenIds(p, sends[p] + 1)
  <2>1. /\ id \notin GivenIds(p, sends[p]) /\ id \in GivenIds(p, sends[p] + 1)
        /\ GivenIds(p, sends[p]) \subseteq GivenIds(p, sends[p] + 1)
    BY <1>2 DEF GivenIds
  <2>. QED  BY <1>0, <1>2, <2>1 DEF UsedInv
<1>8. BondBy(p, n)'
  <2>. PICK b, sb, F, B, h :
         /\ b = transfers[q][Incoming + n] /\ sb = slots[q][Incoming + n]
         /\ F = net[q] /\ B = net[p] /\ h = resumed[q]
    OBVIOUS
  <2>1. /\ b # None => b.id # id
        /\ \A i \in DOMAIN F : IsRequest(F[i], n) => F[i].id # id
    BY <1>7 DEF Uses
  <2>2. Bond(TRUE, transfers[p][n], b, sb, F, B, h, n)
    <3>1. Bond(Alive(p), transfers[p][n], b, sb, F, B, h, n)
      BY <1>0, Bonds DEF ConsentInv
    <3>. QED  BY <1>1, <3>1 DEF Bond
  <2>3. /\ transfers[p][n] = None => Bond(TRUE, t, b, sb, Append(F, m), B, h, n)
        /\ Bond(FALSE, transfers[p][n], b, sb, Append(F, m), B, h, n)
    <3>1. F \in Seq(Packets) /\ id \notin h
      BY <1>4, <1>7
    <3>2. /\ t = Transfer(m.id, m.size, cause) /\ m \in Packets /\ IsRequest(m, n)
          /\ b # None => b.id # m.id
          /\ m.id \notin h
          /\ \A i \in DOMAIN F : IsRequest(F[i], n) => F[i].id # m.id
      BY <1>3, <2>1, <3>1
    <3>. QED  BY ONLY <2>2, <3>1, <3>2, cause \in Garbage, BondOffers
  <2>4. Bond(Alive(p)', transfers'[p][n], b, sb, Append(F, m), B, h, n)
    <3>1. CASE transfers[p][n] = None
      BY <1>1, <1>6, <2>3, <3>1 DEF Bond
    <3>2. CASE transfers[p][n] # None
      BY <1>6, <2>3, <3>2 DEF Bond
    <3>. QED  BY <3>1, <3>2
  <2>5. /\ transfers'[q][Incoming + n] = b /\ slots'[q][Incoming + n] = sb
        /\ resumed'[q] = h /\ net'[p] = B /\ net'[q] = Append(F, m)
    BY <1>1, <1>4, <1>5, <1>6
  <2>. QED  BY <2>4, <2>5, Bonds
<1>9. \A r \in Peers, k \in Numbers : BondBy(r, k)'
  <2>1. /\ \E x \in Packets : SentFor(x, n) /\ net'[Other(p)] = Append(net[Other(p)], x)
        /\ net'[p] = net[p] /\ resumed'[p] = resumed[p] /\ resumed'[Other(p)] = resumed[Other(p)]
        /\ Alive(p)' = Alive(p) \/ Alive(p)' = FALSE
        /\ Alive(Other(p))' = Alive(Other(p))
        /\ \A r \in Peers, k \in FileNumbers : r # p \/ k # n =>
             transfers'[r][k] = transfers[r][k] /\ slots'[r][k] = slots[r][k]
        /\ \A k \in Numbers : (k = n => BondBy(p, k)') /\ Incoming + k # n
    <3>1. resumed' = resumed
      BY <1>1
    <3>2. Alive(p)' = Alive(p) \/ Alive(p)' = FALSE
      BY <1>6
    <3>. QED  BY <1>3, <1>4, <1>5, <1>6, <1>8, <3>1, <3>2
  <2>. QED  BY ONLY <1>0, <1>5, <2>1, p \in Peers, OtherBonds
<1>10. UsedInv'
  <2>1. ASSUME NEW k \in Numbers, NEW x, Uses(p, k, x)'
        PROVE  (x = id /\ k = n) \/ Uses(p, k, x)
    <3>1. CASE transfers'[p][k] # None /\ transfers'[p][k].id = x
      <4>1. CASE k = n /\ transfers'[p][n] = t
        BY <1>6, <3>1, <4>1
      <4>2. CASE transfers'[p][k] = transfers[p][k]
        BY <3>1, <4>2 DEF Uses
      <4>. QED  BY <1>5, <1>6, <4>1, <4>2
    <3>2. CASE transfers'[q][Incoming + k] # None /\ transfers'[q][Incoming + k].id = x
      <4>1. transfers'[q][Incoming + k] = transfers[q][Incoming + k]
        BY <1>5, <1>6
      <4>. QED  BY <3>2, <4>1 DEF Uses
    <3>3. CASE \E i \in DOMAIN net'[q] : IsRequest(net'[q][i], k) /\ net'[q][i].id = x
      <4>1. PICK i \in DOMAIN net'[q] : IsRequest(net'[q][i], k) /\ net'[q][i].id = x
        BY <3>3
      <4>2. (i \in DOMAIN net[q] /\ net'[q][i] = net[q][i]) \/ net'[q][i] = m
        <5>. PICK s, z : s = net[q] /\ z = net'[q]
          OBVIOUS
        <5>1. s \in Seq(Packets) /\ m \in Packets /\ z = Append(s, m) /\ i \in DOMAIN z
          BY <1>3, <1>4, <4>1
        <5>2. (i \in DOMAIN s /\ z[i] = s[i]) \/ z[i] = m
          BY ONLY <5>1, InAppend
        <5>. QED  BY <5>2
      <4>3. CASE i \in DOMAIN net[q] /\ net'[q][i] = net[q][i]
        BY <4>1, <4>3 DEF Uses
      <4>4. CASE net'[q][i] = m
        BY <1>3, <4>1, <4>4 DEF IsRequest
      <4>. QED  BY <4>2, <4>3, <4>4
    <3>. QED  BY <2>1, <3>1, <3>2, <3>3 DEF Uses
  <2>2. ASSUME NEW k \in Numbers, NEW x, Uses(q, k, x)'  PROVE Uses(q, k, x)
    <3>1. /\ transfers'[q][k] = transfers[q][k]
          /\ transfers'[p][Incoming + k] = transfers[p][Incoming + k]
      BY <1>5, <1>6
    <3>. QED  BY <1>4, <2>2, <3>1 DEF Uses
  <2>3. ASSUME NEW k \in Numbers, NEW x \in Ids, Uses(p, k, x)'
        PROVE  /\ x \in GivenIds(p, sends'[p])
               /\ \A l \in Numbers : Uses(p, l, x)' => l = k
    <3>1. x \in GivenIds(p, sends[p] + 1)
      BY <1>0, <1>7, <2>1, <2>3 DEF UsedInv
    <3>2. ASSUME NEW l \in Numbers, Uses(p, l, x)'  PROVE l = k
      <4>1. CASE x = id
        BY <1>7, <2>1, <2>3, <3>2, <4>1
      <4>2. CASE x # id
        BY <1>0, <2>1, <2>3, <3>2, <4>2 DEF UsedInv
      <4>. QED  BY <4>1, <4>2
    <3>. QED  BY <1>2, <3>1, <3>2
  <2>4. ASSUME NEW k \in Numbers, NEW x \in Ids, Uses(q, k, x)'
        PROVE  /\ x \in GivenIds(q, sends'[q])
               /\ \A l \in Numbers : Uses(q, l, x)' => l = k
    BY <1>0, <1>2, <2>2, <2>4 DEF UsedInv
  <2>5. resumed'[q] \subseteq GivenIds(p, sends'[p]) /\ resumed'[p] \subseteq GivenIds(q, sends'[q])
    <3>1. resumed[q] \subseteq GivenIds(p, sends[p]) /\ resumed[p] \subseteq GivenIds(q, sends[q])
      BY <1>0 DEF UsedInv
    <3>2. resumed' = resumed
      BY <1>1
    <3>. QED  BY <1>2, <1>7, <3>1, <3>2
  <2>6. ASSUME NEW r \in Peers
        PROVE  /\ \A k \in Numbers, x \in Ids : Uses(r, k, x)' =>
                    /\ x \in GivenIds(r, sends'[r])
                    /\ \A l \in Numbers : Uses(r, l, x)' => l = k
               /\ resumed'[Other(r)] \subseteq GivenIds(r, sends'[r])
    <3>1. CASE r = p
      BY <2>3, <2>5, <3>1
    <3>2. CASE r = q
      BY <2>4, <2>5, <3>2
    <3>. QED  BY <3>1, <3>2
  <2>. QED  BY <2>6 DEF UsedInv
<1>11. StrangerInv'
  <2>1. ASSUME NEW r \in Peers, NEW k \in FileNumbers, ~isFriend[r]  PROVE slots'[r][k] = "none"
    <3>1. slots'[r][k] = slots[r][k]
      BY <1>1, <1>6, <2>1
    <3>. QED  BY <1>0, <2>1, <3>1 DEF ConsentInv, StrangerInv
  <2>. QED  BY <1>1, <2>1 DEF StrangerInv
<1>12. RequestsCurrent'
  <2>1. ASSUME NEW r \in Peers, NEW k \in FileNumbers, transfers[r][k] # None
        PROVE  transfers'[r][k] = transfers[r][k]
    <3>1. CASE r = p /\ k = n
      BY <1>6, <2>1, <3>1
    <3>2. CASE r # p \/ k # n
      BY ONLY <1>6, <2>1, <3>2
    <3>. QED  BY <3>1, <3>2
  <2>. QED  BY <1>0, <1>1, <2>1, CurrentKept
<1>. QED  BY <1>9, <1>10, <1>11, <1>12 DEF ConsentInv

LEMMA NothingSent ==
  ASSUME TypeOK, NEW p \in Peers, Send(p, <<>>)
  PROVE  net' = net
<1>1. /\ net \in [Peers -> Seq(Packets)] /\ Other(p) \in Peers
      /\ net' = [net EXCEPT ![Other(p)] = net[Other(p)] \o <<>>]
  BY TwoPeers DEF TypeOK, Send
<1>2. net[Other(p)] \o <<>> = net[Other(p)]
  BY <1>1
<1>. QED  BY <1>1, <1>2

\* The receiver's client resumes a file: it says so to a sender that knows nothing else of it.
LEMMA ConsentResumes ==
  ASSUME "resume-any" \notin Allowed, Consents, NEW p \in Peers, NEW fn \in FileNumbers,
         Resume(p, fn)
  PROVE  ConsentInv'
<1>0. TypeOK /\ RequestsCurrent /\ ConsentInv
  BY DEF Consents, ConsentInv
<1>. PICK q \in Peers : q = Other(p) /\ q # p
  BY TwoPeers
<1>. PICK b : b = transfers[p][fn]
  OBVIOUS
<1>1. /\ isFriend[p] /\ UNCHANGED <<transfers, asked, isFriend, aborted, sends>>
      /\ b # None /\ b.id \notin resumed[p] /\ ~(fn < Incoming)
      /\ resumed' = [resumed EXCEPT ![p] = @ \cup {b.id}]
      /\ Send(p, SendControl(p, fn, "ACCEPT"))
      /\ slots' = [slots EXCEPT ![p][fn] = IF @ = "offered" /\ fn >= Incoming THEN "accepted" ELSE @]
  <2>1. fn >= Incoming => ~(fn < Incoming)
    BY FileNumberIs DEF Incoming
  <2>. QED  BY <2>1 DEF Resume, Controls, MayResume
<1>. PICK n \in Numbers : fn = Incoming + n
  BY <1>1, FileNumberIs
<1>. PICK sb, sb2 : /\ sb = slots[p][fn]
                    /\ sb2 = IF sb = "offered" THEN "accepted" ELSE sb
  OBVIOUS
<1>. PICK m \in Packets : m = Control(fn, "ACCEPT")
  BY ControlTypes
<1>2. /\ sb \in {"none", "offered", "accepted"}
      /\ slots'[p][fn] = sb2
      /\ \A r \in Peers, k \in FileNumbers : r # p \/ k # fn =>
           transfers'[r][k] = transfers[r][k] /\ slots'[r][k] = slots[r][k]
  <2>1. fn >= Incoming
    BY <1>1, FileNumberIs DEF Incoming
  <2>2. slots \in [Peers -> [FileNumbers -> {"none", "offered", "accepted"}]]
    BY <1>0 DEF TypeOK
  <2>3. slots' = [slots EXCEPT ![p][fn] = sb2]
    BY <1>1, <2>1, <2>2
  <2>4. /\ slots'[p][fn] = sb2
        /\ \A r \in Peers, k \in FileNumbers : r # p \/ k # fn => slots'[r][k] = slots[r][k]
    BY ONLY <2>2, <2>3, p \in Peers, fn \in FileNumbers, Changed
  <2>. QED  BY <1>1, <2>2, <2>4
<1>3. resumed'[p] = resumed[p] \cup {b.id} /\ resumed'[q] = resumed[q]
  BY <1>0, <1>1 DEF TypeOK
<1>4. Alive(p)' = Alive(p) /\ Alive(q)' = Alive(q)
  BY <1>1 DEF Alive
<1>5. /\ SentFor(m, fn) /\ m.type # "request" /\ ~IsReceipt(m, n)
  BY ControlFor DEF Control, IsReceipt
<1>6. /\ net'[p] = net[p] /\ net[p] \in Seq(Packets) /\ net[q] \in Seq(Packets)
      /\ sb = "none" => net'[q] = net[q]
      /\ sb # "none" => net'[q] = Append(net[q], m)
  <2>1. CASE sb = "none"
    <3>1. Send(p, <<>>)
      BY <1>1, <2>1 DEF SendControl
    <3>. QED  BY <1>0, <2>1, <3>1, NothingSent, PacketsAre
  <2>2. CASE sb # "none"
    <3>1. Send(p, <<m>>)
      BY <1>1, <2>2 DEF SendControl
    <3>. QED  BY <1>0, <2>2, <3>1, PacketsAre
  <2>. QED  BY <2>1, <2>2
<1>7. BondBy(q, n)'
  <2>. PICK al, a, F, B, h :
         /\ al = Alive(q) /\ a = transfers[q][n] /\ F = net[p] /\ B = net[q] /\ h = resumed[p]
    OBVIOUS
  <2>1. Bond(al, a, b, sb, F, B, h, n)
    BY <1>0, Bonds DEF ConsentInv
  <2>2. /\ F \in Seq(Packets) /\ B \in Seq(Packets) /\ b.id \notin h /\ b # None
    BY <1>1, <1>6
  <2>3. /\ sb # "accepted"
        /\ Bond(al, a, b, sb, F, B, h \cup {b.id}, n)
        /\ sb = "offered" => Bond(al, a, b, "accepted", F, Append(B, m), h \cup {b.id}, n)
    BY ONLY <1>5, <2>1, <2>2, m \in Packets, BondResumes
  <2>4. Bond(al, a, b, sb2, F, net'[q], h \cup {b.id}, n)
    BY <1>2, <1>6, <2>3
  <2>5. /\ transfers'[q][n] = a /\ transfers'[p][Incoming + n] = b
        /\ slots'[p][Incoming + n] = sb2 /\ resumed'[p] = h \cup {b.id} /\ net'[p] = F
        /\ Alive(q)' = al
    BY <1>1, <1>2, <1>3, <1>4, <1>6
  <2>. QED  BY <2>4, <2>5, Bonds
<1>8. RequestsCurrent'
  BY <1>0, <1>1, CurrentKept
<1>9. /\ isFriend[p] /\ UNCHANGED <<isFriend, sends>>
      /\ \A r \in Peers, k \in FileNumbers : r # p \/ k # fn =>
           transfers'[r][k] = transfers[r][k] /\ slots'[r][k] = slots[r][k]
      /\ Alive(p)' = Alive(p) /\ Alive(Other(p))' = Alive(Other(p))
      /\ net'[p] = net[p]
      /\ \/ net'[Other(p)] = net[Other(p)]
         \/ \E x \in Packets : /\ SentFor(x, fn) /\ x.type # "request"
                               /\ net'[Other(p)] = Append(net[Other(p)], x)
      /\ transfers'[p][fn] # None => Stems(transfers[p][fn], transfers'[p][fn], net[p], fn)
      /\ resumed'[Other(p)] = resumed[Other(p)]
      /\ ~(fn < Incoming) /\ transfers[p][fn] # None
      /\ resumed'[p] = resumed[p] \cup {transfers[p][fn].id}
      /\ \A k \in Numbers : k = fn => BondBy(p, k)'
      /\ \A k \in Numbers : Incoming + k = fn => BondBy(Other(p), k)'
  <2>1. \A k \in Numbers : k # fn /\ (Incoming + k = fn => k = n)
    <3>1. ASSUME NEW k \in Numbers  PROVE k # fn /\ (Incoming + k = fn => k = n)
      <4>1. k \in 0..255 /\ n \in 0..255
        BY FileNumber
      <4>. QED  BY <4>1 DEF Incoming
    <3>. QED  BY <3>1
  <2>2. transfers'[p][fn] # None => Stems(transfers[p][fn], transfers'[p][fn], net[p], fn)
    BY <1>1 DEF Stems
  <2>. QED  BY <1>1, <1>2, <1>3, <1>4, <1>5, <1>6, <1>7, <2>1, <2>2
<1>. QED  BY ONLY <1>0, <1>8, <1>9, p \in Peers, fn \in FileNumbers, ConsentMoves

LEMMA ConsentPauses ==
  ASSUME Consents, NEW p \in Peers, NEW fn \in FileNumbers, Pause(p, fn)
  PROVE  ConsentInv'
<1>0. TypeOK /\ RequestsCurrent /\ ConsentInv
  BY DEF Consents, ConsentInv
<1>. PICK q \in Peers : q = Other(p) /\ q # p
  BY TwoPeers
<1>. PICK m \in Packets : m = Control(fn, "PAUSE")
  BY ControlTypes
<1>1. /\ isFriend[p] /\ UNCHANGED <<transfers, slots, asked, isFriend, sends, resumed>>
      /\ Send(p, SendControl(p, fn, "PAUSE"))
      /\ Alive(p)' = Alive(p) \/ Alive(p)' = FALSE
      /\ Alive(q)' = Alive(q)
  <2>1. /\ isFriend[p] /\ UNCHANGED <<transfers, slots, asked, isFriend, sends, resumed>>
        /\ Send(p, SendControl(p, fn, "PAUSE")) /\ Alive(p)
        /\ aborted' = [aborted EXCEPT ![p] = slots[p][fn] = "none"]
    BY DEF Pause, Controls, AtRest, client
  <2>2. /\ aborted \in [Peers -> BOOLEAN] /\ aborted'[p] = (slots[p][fn] = "none")
        /\ aborted'[q] = aborted[q]
    BY <1>0, <2>1 DEF TypeOK
  <2>. QED  BY <2>1, <2>2 DEF Alive
<1>2. /\ SentFor(m, fn) /\ m.type # "request"
      /\ \A k : ~Onward(m, k) /\ ~Back(m, k)
  BY ControlFor
     DEF Control, Onward, Back, IsRequest, IsData, IsEnd, IsAccept, IsReceipt
<1>3. /\ net'[p] = net[p] /\ net[p] \in Seq(Packets) /\ net[q] \in Seq(Packets)
      /\ net'[q] = net[q] \/ net'[q] = Append(net[q], m)
  <2>1. CASE slots[p][fn] = "none"
    <3>1. Send(p, <<>>)
      BY <1>1, <2>1 DEF SendControl
    <3>. QED  BY <1>0, <3>1, NothingSent, PacketsAre
  <2>2. CASE slots[p][fn] # "none"
    <3>1. Send(p, <<m>>)
      BY <1>1, <2>2 DEF SendControl
    <3>. QED  BY <1>0, <3>1, PacketsAre
  <2>. QED  BY <2>1, <2>2
<1>4. RequestsCurrent'
  BY <1>0, <1>1, CurrentKept
<1>5. ASSUME NEW n \in Numbers  PROVE BondBy(p, n)' /\ BondBy(q, n)'
  <2>. PICK al, al2, dl, F, G : /\ al = Alive(p) /\ al2 = Alive(p)' /\ dl = Alive(q)
                                /\ F = net[q] /\ G = net'[q]
    OBVIOUS
  <2>. PICK a, b, sb, h, B : /\ a = transfers[p][n] /\ b = transfers[q][Incoming + n]
                             /\ sb = slots[q][Incoming + n] /\ h = resumed[q] /\ B = net[p]
    OBVIOUS
  <2>. PICK c, d, sd, g : /\ c = transfers[q][n] /\ d = transfers[p][Incoming + n]
                          /\ sd = slots[p][Incoming + n] /\ g = resumed[p]
    OBVIOUS
  <2>1. Bond(al, a, b, sb, F, B, h, n) /\ Bond(dl, c, d, sd, B, F, g, n)
    BY <1>0, Bonds DEF ConsentInv
  <2>2. /\ al2 = al \/ al2 = FALSE
        /\ G = F \/ (\E k \in Packets : ~Onward(k, n) /\ ~Back(k, n) /\ G = Append(F, k))
        /\ F \in Seq(Packets) /\ B \in Seq(Packets)
    BY <1>1, <1>2, <1>3
  <2>3. Bond(al2, a, b, sb, G, B, h, n)
    BY ONLY <2>1, <2>2, BondKept
  <2>4. Bond(dl, c, d, sd, B, G, g, n)
    BY ONLY <2>1, <2>2, BondKept
  <2>5. /\ transfers' = transfers /\ slots' = slots /\ resumed' = resumed
        /\ net'[p] = B /\ Alive(q)' = dl
    BY <1>1, <1>3
  <2>. QED  BY <2>3, <2>4, <2>5, Bonds
<1>6. /\ \A r \in Peers, k \in FileNumbers : r # p \/ k # fn =>
           transfers'[r][k] = transfers[r][k] /\ slots'[r][k] = slots[r][k]
      /\ \/ net'[Other(p)] = net[Other(p)]
         \/ \E x \in Packets : /\ SentFor(x, fn) /\ x.type # "request"
                               /\ net'[Other(p)] = Append(net[Other(p)], x)
      /\ isFriend[p] /\ UNCHANGED <<isFriend, sends>>
      /\ Alive(p)' = Alive(p) \/ Alive(p)' = FALSE
      /\ Alive(Other(p))' = Alive(Other(p)) /\ net'[p] = net[p]
      /\ transfers'[p][fn] # None => Stems(transfers[p][fn], transfers'[p][fn], net[p], fn)
      /\ resumed'[p] = resumed[p] /\ resumed'[Other(p)] = resumed[Other(p)]
      /\ \A k \in Numbers : BondBy(p, k)' /\ BondBy(Other(p), k)'
  <2>1. transfers'[p][fn] # None => Stems(transfers[p][fn], transfers'[p][fn], net[p], fn)
    BY <1>1 DEF Stems
  <2>. QED  BY <1>1, <1>2, <1>3, <1>5, <2>1
<1>. QED  BY ONLY <1>0, <1>4, <1>6, p \in Peers, fn \in FileNumbers, ConsentMoves

\* A friend is deleted, or added again.
LEMMA ConsentFriends ==
  ASSUME Consents, NEW p \in Peers, FriendDelete(p) \/ FriendAdd(p)
  PROVE  ConsentInv'
<1>0. TypeOK /\ RequestsCurrent /\ ConsentInv /\ UsedInv /\ StrangerInv
  BY DEF Consents, ConsentInv
<1>. PICK q \in Peers : q = Other(p) /\ q # p /\ \A r \in Peers : r = p \/ r = q
  BY TwoPeers
<1>1. UNCHANGED <<transfers, asked, aborted, sends, resumed>>
  BY DEF FriendDelete, FriendAdd, client
<1>2. RequestsCurrent'
  BY <1>0, <1>1, CurrentKept
<1>3. \A r \in Peers : Alive(r)' = Alive(r)
  BY <1>1 DEF Alive
<1>4. CASE FriendDelete(p)
  <2>1. /\ net' = net /\ slots'[q] = slots[q] /\ \A k \in FileNumbers : slots'[p][k] = "none"
        /\ \A r \in Peers : r # p => isFriend'[r] = isFriend[r]
    BY <1>0, <1>4 DEF FriendDelete, TypeOK
  <2>2. ASSUME NEW n \in Numbers  PROVE BondBy(p, n)' /\ BondBy(q, n)'
    <3>1. Incoming + n \in FileNumbers
      BY FileNumber
    <3>2. /\ Bond(Alive(p), transfers[p][n], transfers[q][Incoming + n],
                  slots[q][Incoming + n], net[q], net[p], resumed[q], n)
          /\ Bond(Alive(q), transfers[q][n], transfers[p][Incoming + n],
                  slots[p][Incoming + n], net[p], net[q], resumed[p], n)
      BY <1>0, Bonds DEF ConsentInv
    <3>3. Bond(Alive(q), transfers[q][n], transfers[p][Incoming + n], "none",
               net[p], net[q], resumed[p], n)
      BY <3>2, BondLost
    <3>. QED  BY <1>1, <1>3, <2>1, <3>1, <3>2, <3>3, Bonds
  <2>3. UsedInv'
    BY <1>0, <1>1, <2>1 DEF UsedInv, Uses
  <2>4. StrangerInv'
    <3>1. ASSUME NEW r \in Peers, NEW k \in FileNumbers, ~isFriend'[r]  PROVE slots'[r][k] = "none"
      BY <1>0, <2>1, <3>1 DEF StrangerInv
    <3>. QED  BY <3>1 DEF StrangerInv
  <2>. QED  BY <1>2, <2>2, <2>3, <2>4, BondsOf DEF ConsentInv
<1>5. CASE FriendAdd(p)
  <2>1. /\ slots' = slots /\ ~isFriend[p] /\ net'[p] = <<>> /\ net'[q] = net[q]
        /\ \A r \in Peers : ~isFriend'[r] => ~isFriend[r]
    BY <1>0, <1>5 DEF FriendAdd, TypeOK
  <2>2. ASSUME NEW n \in Numbers  PROVE BondBy(p, n)' /\ BondBy(q, n)'
    <3>1. slots[p][Incoming + n] = "none"
      BY <1>0, <2>1, FileNumber DEF StrangerInv
    <3>2. /\ Bond(Alive(p), transfers[p][n], transfers[q][Incoming + n],
                  slots[q][Incoming + n], net[q], net[p], resumed[q], n)
          /\ Bond(Alive(q), transfers[q][n], transfers[p][Incoming + n],
                  slots[p][Incoming + n], net[p], net[q], resumed[p], n)
      BY <1>0, Bonds DEF ConsentInv
    <3>3. /\ Bond(Alive(p), transfers[p][n], transfers[q][Incoming + n],
                  slots[q][Incoming + n], net[q], <<>>, resumed[q], n)
          /\ Bond(Alive(q), transfers[q][n], transfers[p][Incoming + n],
                  slots[p][Incoming + n], <<>>, net[q], resumed[p], n)
      BY <3>1, <3>2, BondCleared
    <3>. QED  BY <1>1, <1>3, <2>1, <3>3, Bonds
  <2>3. UsedInv'
    <3>1. ASSUME NEW r \in Peers, NEW k \in Numbers, NEW x, Uses(r, k, x)'  PROVE Uses(r, k, x)
      <4>1. net'[Other(r)] = net[Other(r)] \/ net'[Other(r)] = <<>>
        BY <2>1, TwoPeers
      <4>2. net'[Other(r)] = <<>> => DOMAIN net'[Other(r)] = {}
        OBVIOUS
      <4>. QED  BY <1>1, <3>1, <4>1, <4>2 DEF Uses
    <3>. QED  BY <1>0, <1>1, <3>1 DEF UsedInv
  <2>4. StrangerInv'
    BY <1>0, <2>1 DEF StrangerInv
  <2>. QED  BY <1>2, <2>2, <2>3, <2>4, BondsOf DEF ConsentInv
<1>. QED  BY <1>4, <1>5

LEMMA ConsentStep ==
  ASSUME "resume-any" \notin Allowed, Consents, [Next]_vars
  PROVE  ConsentInv'
<1>1. TypeOK /\ ConsentInv /\ RequestsCurrent
  BY DEF Consents, ConsentInv
<1>2. ASSUME NEW p \in Peers, Receives(p)  PROVE ConsentInv'
  BY <1>2, ConsentRequest, ConsentData, ConsentControl DEF Receives
<1>3. ASSUME NEW p \in Peers, IterationReturns(p)  PROVE ConsentInv'
  <2>1. /\ UNCHANGED <<transfers, slots, net, asked, isFriend, sends, resumed>>
        /\ \A q \in Peers : Alive(q)' = Alive(q)
    BY <1>3 DEF IterationReturns, Alive, client
  <2>2. RequestsCurrent'
    BY ONLY <1>1, <2>1, CurrentKept
  <2>. QED  BY ONLY <1>1, <2>1, <2>2, p \in Peers, TwoPeers, ConsentStands
<1>4. ASSUME NEW p \in Peers, Asks(p)  PROVE ConsentInv'
  BY <1>3, <1>4, ConsentAsks DEF Asks
<1>5. ASSUME NEW p \in Peers, Answers(p)  PROVE ConsentInv'
  BY <1>5, ConsentSends DEF Answers
<1>6. ASSUME NEW p \in Peers, Offers(p)  PROVE ConsentInv'
  BY <1>6, ConsentOffers DEF Offers
<1>7. ASSUME NEW p \in Peers, NEW fn \in FileNumbers, Calls(p, fn)  PROVE ConsentInv'
  BY <1>7, ConsentResumes, ConsentPauses DEF Calls
<1>8. ASSUME NEW p \in Peers, FriendDelete(p) \/ FriendAdd(p)  PROVE ConsentInv'
  BY <1>8, ConsentFriends
<1>9. CASE UNCHANGED vars
  <2>1. /\ UNCHANGED <<transfers, slots, net, asked, isFriend, sends, resumed>>
        /\ \A q \in Peers : Alive(q)' = Alive(q)
    BY <1>9 DEF vars, client, Alive
  <2>2. RequestsCurrent'
    BY ONLY <1>1, <2>1, CurrentKept
  <2>3. PICK p \in Peers : TRUE
    BY TransfersAssumption, FS_EmptySet
  <2>. QED  BY ONLY <1>1, <2>1, <2>2, p \in Peers, TwoPeers, ConsentStands
<1>. QED  BY <1>2, <1>4, <1>5, <1>6, <1>7, <1>8, <1>9 DEF Next

LEMMA ConsentStarts == Init => ConsentInv
<1> SUFFICES ASSUME Init  PROVE ConsentInv
  OBVIOUS
<1>1. /\ \A p \in Peers : net[p] = <<>> /\ asked[p] = <<>> /\ resumed[p] = {} /\ isFriend[p]
      /\ \A p \in Peers, fn \in FileNumbers : transfers[p][fn] = None /\ slots[p][fn] = "none"
  BY DEF Init
<1>2. ASSUME NEW p \in Peers, NEW n \in Numbers
      PROVE  /\ transfers[p][n] = None /\ transfers[Other(p)][Incoming + n] = None
             /\ net[p] = <<>> /\ net[Other(p)] = <<>>
  BY <1>1, TwoPeers, FileNumber
<1>3. DOMAIN <<>> = {}
  OBVIOUS
<1>4. \A p \in Peers, n \in Numbers : BondBy(p, n)
  BY <1>2, <1>3 DEF BondBy, Bond, Waits, Distinct, Answered, Open, Kept
<1>5. UsedInv
  BY <1>1, <1>2, <1>3, TwoPeers DEF UsedInv, Uses
<1>6. StrangerInv /\ RequestsCurrent
  BY <1>1, <1>3 DEF StrangerInv, RequestsCurrent
<1>. QED  BY <1>4, <1>5, <1>6 DEF ConsentInv

LEMMA ConsentHolds ==
  ASSUME "resume-any" \notin Allowed
  PROVE  Spec => []Consents
<1>1. Init => Consents
  <2>1. Init => ReceiverInv /\ DataOnlyOutgoing
    BY FileNumber DEF Init, ReceiverInv, DataOnlyOutgoing
  <2>. QED  BY <2>1, TypeStarts, PacketsStart, ConsentStarts DEF Consents
<1>2. Consents /\ [Next]_vars => Consents'
  BY TypeStep, PacketStep, OutgoingStep, ConsentStep DEF Consents
<1>. QED  BY <1>1, <1>2, PTL DEF Spec

\* A file is sent only after the receiving client has resumed that transfer, not one that
\* had its number before, as long as clients resume only what is offered to them: they may
\* delete friends and send more than was asked for.
THEOREM FilesConsent ==
  ASSUME "resume-any" \notin Allowed
  PROVE  Spec => []Consent
<1>1. ASSUME Consents, NEW p \in Peers, NEW n \in Numbers
      PROVE  Waits(transfers[p][n], resumed[Other(p)])
  BY <1>1 DEF Consents, ConsentInv, BondBy, Bond
<1>2. Consents => Consent
  BY <1>1 DEF Consent, Waits
<1>. QED  BY <1>2, ConsentHolds, PTL

\* A request for a chunk that the client has not answered is the only one for its
\* transfer, and for its position: answering late never sends old data, whatever else
\* clients do that resume only what is offered to them.
THEOREM FilesRequestsCurrent ==
  ASSUME "resume-any" \notin Allowed
  PROVE  Spec => []RequestsCurrent
<1>1. Consents => RequestsCurrent
  BY DEF Consents, ConsentInv
<1>. QED  BY <1>1, ConsentHolds, PTL
=============================================================================
