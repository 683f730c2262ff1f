-------------------------------- MODULE NewTox --------------------------------
(***************************************************************************)
(* The functions of core.cpp on one new_Tox, except iteration and what     *)
(* they do to file transfers (CoreEvents, FileTransfers).  A function is   *)
(* an operator from the instance s and its arguments to a Result: the      *)
(* instance after it, the value returned and the error code set.           *)
(*                                                                         *)
(* toxcore is external: e.up says whether it is connected to the friend,   *)
(* e.accepts whether it takes what it is asked to send.  A failed          *)
(* assertion is the error "assert".                                        *)
(***************************************************************************)
EXTENDS Naturals, SequencesExt

CONSTANTS
  Numbers,              \* toxcore's friend numbers
  Keys,                 \* public keys of possible friends
  OwnKey, BadKey,       \* our own key, and one whose checksum is wrong
  MaxLength,            \* every limit on a length: of names, messages, chunks
  Garbage, Encrypted,   \* save data that cannot be loaded
  None                  \* a null pointer, a free friend number

ASSUME NewToxAssumption ==
  /\ Numbers \subseteq Nat
  /\ None \notin Keys /\ OwnKey \notin Keys /\ BadKey \notin Keys
  /\ MaxLength \in Nat \ {0}
  /\ None \notin {Garbage, Encrypted} /\ Garbage # Encrypted

Environment == [up : BOOLEAN, accepts : BOOLEAN]

Length(a) == IF a = None THEN 0 ELSE Len(a)

Result(s, value, error) == [tox |-> s, value |-> value, error |-> error]

\* checks: <<condition, code>> in the order of the early returns.
FirstError(checks) ==
  LET failed == {i \in DOMAIN checks : checks[i][1]}
  IN IF failed = {} THEN "OK" ELSE checks[Min(failed)][2]

Checked(s, value, checks) == Result(s, value, FirstError(checks))

-----------------------------------------------------------------------------
\* Friend numbers and keys.
FriendExists(s, n) == s.friends[n] # None
FriendList(s)      == {n \in Numbers : FriendExists(s, n)}

\* A friend whose number is free is not connected, whatever toxcore says.
GetConnectionStatus(s, n, e) == FriendExists(s, n) /\ e.up

NotFound(s, n)        == <<~FriendExists(s, n), "FRIEND_NOT_FOUND">>
NotConnected(s, n, e) == <<~GetConnectionStatus(s, n, e), "FRIEND_NOT_CONNECTED">>

\* Faulty: packets of the friend are not listened to.
RegisterNothing(s, n) == s

\* new_Tox::register_custom_packet_handlers, for one friend.
RegisterHandlers(s, n) == [s EXCEPT !.handlers = @ \cup {n}]

\* register_custom_packet_handlers of core.cpp, for the whole friend list.
RegisterAllHandlers(s) == [s EXCEPT !.handlers = @ \cup FriendList(s)]

\* toxcore's FAERR codes, success among them, for adding key.
AddResults(s, key) ==
  LET code == FirstError(<< <<key = BadKey, "BADCHECKSUM">>, <<key = OwnKey, "OWNKEY">> >>)
      Fails(c) == [code |-> c, number |-> 0]
  IN CASE code # "OK" -> {Fails(code)}
       [] code = "OK" /\ \E n \in Numbers : s.friends[n] = key ->
            {Fails("ALREADYSENT"), Fails("SETNEWNOSPAM")}
       [] OTHER -> {Fails("NOMEM")} \cup
                   {[code |-> "OK", number |-> n] : n \in Numbers \ FriendList(s)}

AddRequestResults(s, key, length) ==
  LET code == FirstError(<< <<length > MaxLength, "TOOLONG">>, <<length = 0, "NOMESSAGE">> >>)
  IN IF code = "OK" THEN AddResults(s, key) ELSE {[code |-> code, number |-> 0]}

FriendAddErrors ==
  [TOOLONG |-> "TOO_LONG", NOMESSAGE |-> "NO_MESSAGE", OWNKEY |-> "OWN_KEY",
   ALREADYSENT |-> "ALREADY_SENT", BADCHECKSUM |-> "BAD_CHECKSUM",
   SETNEWNOSPAM |-> "SET_NEW_NOSPAM", NOMEM |-> "MALLOC", OK |-> "OK"]

\* Faulty: an error code is taken for a friend number.
AddedAnyway(s, key, r) ==
  Result(RegisterHandlers([s EXCEPT !.friends[r.number] = key], r.number), r.number, "OK")

Added(s, key, r) ==
  IF r.code # "OK" THEN Result(s, 0, FriendAddErrors[r.code])
  ELSE Result(RegisterHandlers([s EXCEPT !.friends[r.number] = key], r.number),
              r.number, "OK")

FriendAdd(s, key, message, r) ==
  IF key = None \/ message = None THEN Result(s, 0, "NULL") ELSE Added(s, key, r)

\* The key is not tested: toxcore reads through a null pointer.
FriendAddNorequest(s, key, r) ==
  IF key = None THEN Result(s, 0, "assert") ELSE Added(s, key, r)

\* tox_del_friend also answers 0 for a free number below one in use.
DelFriend(s, n) == IF \E m \in FriendList(s) : m >= n THEN 0 ELSE 1

\* Faulty: toxcore's answer is passed on.
FriendDeleteUnchecked(s, n) ==
  Checked([s EXCEPT !.friends[n] = None, !.handlers = @ \ {n}], 1,
          << <<DelFriend(s, n) # 0, "FRIEND_NOT_FOUND">> >>)

FriendDelete(s, n) ==
  Checked([s EXCEPT !.friends[n] = None, !.handlers = @ \ {n}], 1,
          << <<DelFriend(s, n) # 0, "FRIEND_NOT_FOUND">>,
             <<n \notin FriendList(s), "FRIEND_NOT_FOUND">> >>)

FriendByPublicKey(s, key) ==
  LET found == {n \in Numbers : s.friends[n] = key}
  IN Checked(s, IF found = {} THEN 0 ELSE Min(found),
             << <<key = None, "NULL">>, <<found = {}, "NOT_FOUND">> >>)

FriendGetPublicKey(s, n) ==
  Checked(s, s.friends[n], << NotFound(s, n) >>)

-----------------------------------------------------------------------------
\* What the client says of itself.  An empty text is stored as one zero byte.
Stored(a) == IF Length(a) = 0 THEN <<0>> ELSE a

\* Faulty: the zero byte is taken for a text.
StoredSizeExact(text) == Len(text)

StoredSize(text) == IF text = <<0>> THEN 0 ELSE Len(text)

\* tox_set_name and tox_set_status_message refuse a text of length 0.
SetInfo(s, field, a) ==
  LET error == FirstError(<< <<Length(a) > MaxLength, "TOO_LONG">>,
                             <<Length(a) > 0 /\ a = None, "NULL">>,
                             <<Len(Stored(a)) = 0, "NULL">> >>)
  IN Result(IF error = "OK" THEN [s EXCEPT ![field] = Stored(a)] ELSE s, 1, error)

SelfSetName(s, a)          == SetInfo(s, "name", a)
SelfSetStatusMessage(s, a) == SetInfo(s, "status_message", a)

SelfGetNameSize(s)          == StoredSize(s.name)
SelfGetStatusMessageSize(s) == StoredSize(s.status_message)

SelfSetNospam(s, nospam) == Result([s EXCEPT !.nospam = nospam], 1, "OK")
SelfSetStatus(s, status) == Result([s EXCEPT !.status = status], 1, "OK")
SelfGetAddress(s)        == <<OwnKey, s.nospam>>
SelfSetTyping(s, n)      == Checked(s, 1, << NotFound(s, n) >>)

-----------------------------------------------------------------------------
\* Connections, messages, packets and files.
Bootstrap(s, address, port, key, e) ==
  Checked(s, 1, << <<address = None \/ key = None, "NULL">>, <<port = 0, "BAD_PORT">>,
                      <<~e.accepts, "BAD_ADDRESS">> >>)

GetPort(s) == Result(s, 0, "NOT_BOUND")

SendSomething(s, n, message, e) ==
  Checked(s, 1,
    << <<message = None, "NULL">>, <<Length(message) = 0, "EMPTY">>,
       <<Length(message) > MaxLength, "TOO_LONG">>,
       NotFound(s, n), NotConnected(s, n, e), <<~e.accepts, "SENDQ">> >>)

SendCustomPacket(s, n, e) ==
  Checked(s, 1, << NotFound(s, n), NotConnected(s, n, e), <<~e.accepts, "SENDQ">> >>)

\* transfer: what get_transfer finds, its state and cause.
Paused(transfer) == transfer # None /\ transfer.state = "PAUSED"
Denied(transfer) == transfer # None /\ transfer.cause = "FRIEND"

FileControl(s, n, transfer, control, e) ==
  Checked(s, 1,
    << NotFound(s, n), NotConnected(s, n, e), <<transfer = None, "NOT_FOUND">>,
       <<control = "PAUSE" /\ Paused(transfer), "ALREADY_PAUSED">>,
       <<control = "PAUSE" /\ ~e.accepts, "assert">>,
       <<control = "RESUME" /\ ~Paused(transfer), "NOT_PAUSED">>,
       <<control = "RESUME" /\ Denied(transfer), "DENIED">> >>)

FileSend(s, n, kind, filename, e) ==
  Checked(s, 0,
    << <<Length(filename) > MaxLength, "NAME_TOO_LONG">>,
       <<Length(filename) = 0 /\ kind # "AVATAR", "NAME_EMPTY">>,
       <<filename = None /\ kind # "AVATAR", "NULL">>,
       NotFound(s, n), NotConnected(s, n, e), <<~e.accepts, "TOO_MANY">> >>)

FileSendChunk(s, n, transfer, data, e) ==
  Checked(s, 1,
    << <<Length(data) = 0, "assert">>, <<Length(data) > MaxLength, "TOO_LARGE">>,
       <<Length(data) # 0 /\ data = None, "NULL">>,
       NotFound(s, n), NotConnected(s, n, e),
       <<transfer = None, "NOT_FOUND">>, <<~e.accepts, "assert">> >>)

-----------------------------------------------------------------------------
\* Creation, saving and loading.
Fresh ==
  [friends |-> [n \in Numbers |-> None], handlers |-> {}, name |-> << >>,
   status_message |-> << >>, nospam |-> 0, status |-> "NONE"]

ProxyError(o) ==
  IF o.proxy_type = "NONE" THEN "OK"
  ELSE FirstError(<< <<o.address = "null", "NULL">>,
                     <<o.address = "unprintable", "PROXY_BAD_HOST">>,
                     <<o.address \in {"empty", "dot"}, "PROXY_BAD_HOST">>,
                     <<o.port = 0, "PROXY_BAD_PORT">> >>)

\* Faulty: the instance is created before the proxy is looked at.
RefusedLate(error) == Result(Fresh, 0, error)

Refused(error) == Result(None, 0, error)

\* tox_load numbers the saved friends anew, in some order.
Renumberings(saved) ==
  {f \in [Numbers -> Keys \cup {None}] :
     /\ {f[n] : n \in Numbers} \ {None} = {saved.friends[n] : n \in Numbers} \ {None}
     /\ \A m, n \in Numbers : m # n => f[m] = None \/ f[m] # f[n]}

Load(s, data, friends) ==
  CASE data = None      -> Result(s, 0, "OK")
    [] data = Garbage   -> Result(s, 0, "LOAD_BAD_FORMAT")
    [] data = Encrypted -> Result(s, 0, "LOAD_ENCRYPTED")
    [] OTHER            -> Result([data EXCEPT !.friends = friends, !.handlers = s.handlers],
                                  0, "OK")

\* tox_new fails for a reason the wrapper guesses: memory or ports.
New(o, data, friends, toxcore) ==
  CASE ProxyError(o) # "OK" -> Refused(ProxyError(o))
    [] ProxyError(o) = "OK" /\ toxcore = "no_memory" -> Refused("MALLOC")
    [] ProxyError(o) = "OK" /\ toxcore = "no_ports" -> Refused("PORT_ALLOC")
    [] OTHER -> Load(RegisterAllHandlers(Fresh), data, friends)

Save(s) == [s EXCEPT !.handlers = {}]
=============================================================================
