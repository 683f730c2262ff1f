--------------------------- MODULE FileRefinement ---------------------------
(***************************************************************************)
(* FileTransfers implements FileDelivery, for clients that resume only     *)
(* what is offered to them, send no more than they are asked for and       *)
(* delete no friend.                                                       *)
(***************************************************************************)
EXTENDS FileTransfers

\* The transfer of file f in the map of peer p.
Entry(p, f) ==
  LET numbers == {fn \in FileNumbers : transfers[p][fn] # None /\ transfers[p][fn].id = f}
  IN IF numbers = {} THEN None ELSE transfers[p][CHOOSE fn \in numbers : TRUE]

\* What toxcore knows of f at the peer that receives it.
Slot(p, f) ==
  slots[p][CHOOSE fn \in FileNumbers : transfers[p][fn] # None /\ transfers[p][fn].id = f]

\* The packet that announces f, while it is on its way to p.
Announcements(p, f) == {m \in Range(net[p]) : m.type = "request" /\ m.id = f}

Left(t) == IF t = None THEN 0 ELSE Remaining(t)

FileOf(f) ==
  LET p == f[1]
      q == Other(p)
      t == Entry(p, f)
      u == Entry(q, f)
      announcements == Announcements(q, f)
  IN IF sends[p] < f[2]
     THEN [sender |-> "none", receiver |-> "none", unsent |-> 0, unreceived |-> 0]
     ELSE [sender     |-> CASE t = None -> "done"
                            [] t # None /\ t.state = "PAUSED"  -> "waiting"
                            [] t # None /\ t.state = "RUNNING" -> "sending",
           receiver   |-> CASE announcements # {} -> "none"
                            [] announcements = {} /\ u = None -> "done"
                            [] OTHER -> Slot(q, f),
           unsent     |-> Left(t),
           unreceived |-> IF announcements = {} THEN Left(u)
                          ELSE (CHOOSE m \in announcements : TRUE).size]

Delivery ==
  INSTANCE FileDelivery WITH
    Files <- Ids, Lengths <- Sizes, file <- [f \in Ids |-> FileOf(f)]

(***************************************************************************)
(* Every file is delivered whole: no data is sent before the receiver      *)
(* accepted, nothing is received that was not sent, and neither side gives *)
(* the transfer up before the receiver has the last byte, although file    *)
(* numbers are reused and the two ends cross on the way.                   *)
(***************************************************************************)
ImplementsDelivery == Delivery!DSpec
=============================================================================
