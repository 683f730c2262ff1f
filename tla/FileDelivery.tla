---------------------------- MODULE FileDelivery ----------------------------
(***************************************************************************)
(* What file transfers promise two clients, without numbers, packets and   *)
(* requests: a file is offered, announced, accepted, sent, received, and   *)
(* given up by each side only when the receiver has all of it.             *)
(***************************************************************************)
EXTENDS Naturals

CONSTANTS Files, Lengths  \* lengths in bytes, natural numbers

VARIABLE file  \* of each file how far both sides are, and what remains to be done

NotOffered == [sender |-> "none", receiver |-> "none", unsent |-> 0, unreceived |-> 0]

Offer(f) ==
  /\ file[f] = NotOffered
  /\ \E n \in Lengths :
       file' = [file EXCEPT ![f] =
         [sender |-> "waiting", receiver |-> "none", unsent |-> n, unreceived |-> n]]

\* The receiver's client hears of the file, ...
Announce(f) ==
  /\ file[f].sender # "none" /\ file[f].receiver = "none"
  /\ file' = [file EXCEPT ![f].receiver = "offered"]

\* ... wants it, ...
Accept(f) ==
  /\ file[f].receiver = "offered"
  /\ file' = [file EXCEPT ![f].receiver = "accepted"]

\* ... and the sender hears of that.
Start(f) ==
  /\ file[f].sender = "waiting" /\ file[f].receiver = "accepted"
  /\ file' = [file EXCEPT ![f].sender = "sending"]

\* Some bytes leave, ...
SendBytes(f) ==
  /\ file[f].sender = "sending"
  /\ \E n \in 0..(file[f].unsent - 1) : file' = [file EXCEPT ![f].unsent = n]

\* ... and those that have left arrive.
ReceiveBytes(f) ==
  /\ file[f].receiver = "accepted"
  /\ \E n \in file[f].unsent..(file[f].unreceived - 1) :
       file' = [file EXCEPT ![f].unreceived = n]

SenderEnds(f) ==
  /\ file[f].sender = "sending" /\ file[f].unreceived = 0
  /\ file' = [file EXCEPT ![f].sender = "done"]

ReceiverEnds(f) ==
  /\ file[f].receiver = "accepted" /\ file[f].unreceived = 0
  /\ file' = [file EXCEPT ![f].receiver = "done"]

DInit == file = [f \in Files |-> NotOffered]

DNext ==
  \E f \in Files :
    \/ Offer(f) \/ Announce(f) \/ Accept(f) \/ Start(f)
    \/ SendBytes(f) \/ ReceiveBytes(f) \/ SenderEnds(f) \/ ReceiverEnds(f)

DSpec == DInit /\ [][DNext]_file
=============================================================================
