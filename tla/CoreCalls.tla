------------------------------ MODULE CoreCalls ------------------------------
(***************************************************************************)
(* What a client does with a core apart from iterating: it creates one,    *)
(* from scratch or from saved data, calls its methods, saves and closes    *)
(* it.  A native method (ToxCore/*.cpp, here under its name) calls a       *)
(* function of core.cpp (NewTox) and turns its error code into an          *)
(* exception.  One call is one action (InstanceHandles).                   *)
(***************************************************************************)
EXTENDS NewTox

CONSTANTS
  OddKey,     \* a byte array that has not the size of a key
  Nospams, Statuses,
  MaxBad,     \* bound: how often the client loads data that is not its own
  Allowed     \* what the client does beyond the usual, see Practices

Practices == {
  "bad-save",        \* load data that cannot be loaded
  "zero-byte",       \* a name or status message of a single zero byte
  "null-key",        \* addFriendNoRequest(null)
  "odd-key",         \* getFriendByPublicKey with a key of another length
  "oversized-chunk", \* fileSendChunk with more bytes than fit into a packet
  "empty-chunk",     \* fileSendChunk with no bytes
  "busy"}            \* pause or send a chunk while toxcore's queue is full

\* What a new_Tox contains.
Instance ==
  [friends : [Numbers -> Keys \cup {None}], handlers : SUBSET Numbers,
   name : Seq({0, 1}), status_message : Seq({0, 1}), nospam : Nospams, status : Statuses]

ASSUME CoreCallsAssumption ==
  /\ Allowed \subseteq Practices
  /\ OddKey \notin Keys \cup {None, OwnKey, BadKey}
  /\ 0 \in Nospams /\ "NONE" \in Statuses /\ MaxBad \in Nat
  /\ {None, Garbage, Encrypted} \cap Instance = {} /\ None \notin Seq({0, 1})

VARIABLES
  tox,        \* the native instance of the open core, None if none is open
  saved,      \* the data saved last, with what the client had given until then
  given,      \* history: what the client has told the core and got from it
  loaded,     \* history: numbers of friends that came with the saved data
  instances,  \* how many new_Tox exist
  badLoads    \* history: how often the client loaded bad data

vars == <<tox, saved, given, loaded, instances, badLoads>>

May(practice, set) == IF practice \in Allowed THEN set ELSE {}

Repeated(n) == [i \in 1..n |-> 1]
Texts == {None, << >>, Repeated(MaxLength), Repeated(MaxLength + 1)} \cup May("zero-byte", {<<0>>})
Chunks == {Repeated(MaxLength)} \cup May("oversized-chunk", {Repeated(MaxLength + 1)})
          \cup May("empty-chunk", {None, << >>})
AddressKeys == Keys \cup {OwnKey, BadKey, None}

Accepting == {e \in Environment : e.accepts} \cup May("busy", Environment)

Transfers == {None} \cup [state : {"PAUSED", "RUNNING"}, cause : {"FRIEND", "SELF"}]

Proxies == [proxy_type : {"NONE", "SOCKS5"}, port : {0, 1},
            address : {"null", "unprintable", "empty", "dot", "host"}]

-----------------------------------------------------------------------------
\* Error handling: the codes a native method's switch names.
set_info           == {"NULL", "TOO_LONG"}

\* Faulty: a case is missing.
friend_add_short   == {"NULL", "TOO_LONG", "NO_MESSAGE", "OWN_KEY", "ALREADY_SENT",
                       "BAD_CHECKSUM", "MALLOC"}

friend_add         == {"NULL", "TOO_LONG", "NO_MESSAGE", "OWN_KEY", "ALREADY_SENT",
                       "BAD_CHECKSUM", "SET_NEW_NOSPAM", "MALLOC"}
send_message       == {"NULL", "FRIEND_NOT_FOUND", "FRIEND_NOT_CONNECTED", "SENDQ",
                       "TOO_LONG", "EMPTY"}
send_custom_packet == {"NULL", "FRIEND_NOT_FOUND", "FRIEND_NOT_CONNECTED", "INVALID",
                       "EMPTY", "TOO_LONG", "SENDQ"}

\* Only this enumeration, ToxFileSendChunkException.Code, lacks a code of its switch.
FileSendChunkCode == {"NULL", "FRIEND_NOT_FOUND", "FRIEND_NOT_CONNECTED", "NOT_FOUND"}

\* success_case, failure_case and unhandled.
Handle(handled, error) ==
  CASE error = "OK"       -> "SUCCESS"
    [] error \in handled  -> "FAILURE"
    [] OTHER              -> "UNHANDLED"

\* assert(enumCode): the exception's enumeration has a constant of that name.
throw_tox_exception(codes, error) == IF error \in codes THEN "throws" ELSE "aborts"

with_error_handling(handled, codes, r) ==
  LET h == Handle(handled, r.error)
  IN [tox |-> r.tox, value |-> r.value, error |-> r.error,
      outcome |-> CASE r.error = "assert" -> "aborts"
                    [] h = "SUCCESS"      -> "returns"
                    [] h = "FAILURE"      -> throw_tox_exception(codes, r.error)
                    [] OTHER              -> "IllegalStateException"]

Call(handled, r) == with_error_handling(handled, handled, r)

-----------------------------------------------------------------------------
\* The native methods.
toxNew(o, data, friends, toxcore) ==
  Call({"NULL", "MALLOC", "PORT_ALLOC", "PROXY_BAD_HOST", "PROXY_BAD_PORT",
        "PROXY_NOT_FOUND", "LOAD_ENCRYPTED", "LOAD_BAD_FORMAT"},
       New(o, data, friends, toxcore))

toxSave(s) == Save(s)

toxSelfSetName(s, name)              == Call(set_info, SelfSetName(s, name))
toxSelfSetStatusMessage(s, message)  == Call(set_info, SelfSetStatusMessage(s, message))
toxSelfSetNospam(s, nospam)          == Call({}, SelfSetNospam(s, nospam))
toxSelfSetStatus(s, status)          == Call({}, SelfSetStatus(s, status))
toxSelfGetNospam(s)                  == s.nospam
toxSelfGetStatus(s)                  == s.status
toxSelfGetAddress(s)                 == SelfGetAddress(s)

\* notNull of ToxCoreImpl makes an empty array of the null returned for size 0.
toxSelfGetName(s) == IF SelfGetNameSize(s) = 0 THEN << >> ELSE s.name
toxSelfGetStatusMessage(s) ==
  IF SelfGetStatusMessageSize(s) = 0 THEN << >> ELSE s.status_message

toxFriendAdd(s, key, message, r)     == Call(friend_add, FriendAdd(s, key, message, r))
toxFriendAddNorequest(s, key, r)     == Call(friend_add, FriendAddNorequest(s, key, r))
toxFriendDelete(s, n)                == Call({"FRIEND_NOT_FOUND"}, FriendDelete(s, n))
toxFriendByPublicKey(s, key) ==
  Call({"NULL", "NOT_FOUND"},
       IF key = OddKey THEN Result(s, 0, "assert") ELSE FriendByPublicKey(s, key))
toxFriendGetPublicKey(s, n)          == Call({"FRIEND_NOT_FOUND"}, FriendGetPublicKey(s, n))
toxFriendExists(s, n)                == FriendExists(s, n)
toxFriendList(s)                     == FriendList(s)

toxSelfSetTyping(s, n)               == Call({"FRIEND_NOT_FOUND"}, SelfSetTyping(s, n))
toxSendMessage(s, n, message, e)     == Call(send_message, SendSomething(s, n, message, e))
toxSendPacket(s, n, e)               == Call(send_custom_packet, SendCustomPacket(s, n, e))
toxBootstrapLike(s, address, port, key, e) ==
  Call({"NULL", "BAD_ADDRESS", "BAD_PORT"}, Bootstrap(s, address, port, key, e))
toxGetUdpPort(s)                     == Call({"NOT_BOUND"}, GetPort(s))
toxGetTcpPort(s)                     == Call({"NOT_BOUND"}, GetPort(s))

toxFileControl(s, n, transfer, control, e) ==
  Call({"FRIEND_NOT_FOUND", "FRIEND_NOT_CONNECTED", "NOT_FOUND", "NOT_PAUSED", "DENIED",
        "ALREADY_PAUSED"}, FileControl(s, n, transfer, control, e))
toxFileSend(s, n, kind, filename, e) ==
  Call({"NULL", "FRIEND_NOT_FOUND", "FRIEND_NOT_CONNECTED", "NAME_EMPTY", "NAME_TOO_LONG",
        "TOO_MANY"}, FileSend(s, n, kind, filename, e))
toxFileSendChunk(s, n, transfer, chunk, e) ==
  with_error_handling(FileSendChunkCode \cup {"TOO_LARGE"}, FileSendChunkCode,
                      FileSendChunk(s, n, transfer, chunk, e))

-----------------------------------------------------------------------------
\* What a client sees of its core, and what it expects of a new one.
View(s) ==
  [name |-> toxSelfGetName(s), status_message |-> toxSelfGetStatusMessage(s),
   nospam |-> toxSelfGetNospam(s), status |-> toxSelfGetStatus(s),
   address |-> toxSelfGetAddress(s),
   friends |-> [n \in Numbers |-> IF n \in toxFriendList(s)
                                  THEN toxFriendGetPublicKey(s, n).value ELSE None]]

Nothing ==
  [name |-> << >>, status_message |-> << >>, nospam |-> 0, status |-> "NONE",
   address |-> <<OwnKey, 0>>, friends |-> [n \in Numbers |-> None]]

Init ==
  /\ tox = None /\ saved = None /\ given = Nothing /\ loaded = {}
  /\ instances = 0 /\ badLoads = 0

Construct(o, data, friends, toxcore) ==
  LET r    == toxNew(o, data, friends, toxcore)
      open == r.outcome = "returns"
      own  == data \notin {None, Garbage, Encrypted}
  IN /\ tox = None
     /\ data \in {Garbage, Encrypted} => badLoads < MaxBad
     /\ tox' = IF open THEN r.tox ELSE None
     /\ given' = IF open /\ own THEN [saved.given EXCEPT !.friends = friends] ELSE Nothing
     /\ loaded' = IF open /\ own THEN {n \in Numbers : friends[n] # None} ELSE {}
     /\ instances' = instances + (IF r.tox = None THEN 0 ELSE 1)
     /\ badLoads' = badLoads + (IF data \in {Garbage, Encrypted} THEN 1 ELSE 0)
     /\ UNCHANGED saved

ConstructSome ==
  \E o \in Proxies, toxcore \in {"created", "no_memory", "no_ports"} :
    \/ \E data \in {None} \cup May("bad-save", {Garbage, Encrypted}) :
         Construct(o, data, Nothing.friends, toxcore)
    \/ /\ saved # None
       /\ \E friends \in Renumberings(saved.tox) : Construct(o, saved.tox, friends, toxcore)

Close ==
  /\ tox # None
  /\ tox' = None /\ given' = Nothing /\ loaded' = {}
  /\ instances' = instances - 1
  /\ UNCHANGED <<saved, badLoads>>

SaveCore ==
  /\ tox # None
  /\ saved' = [tox |-> toxSave(tox), given |-> given]
  /\ UNCHANGED <<tox, given, loaded, instances, badLoads>>

\* A call that returned or threw; told is what the client knows if it returned.
Perform(o, told) ==
  /\ o.outcome # "aborts"
  /\ tox' = o.tox
  /\ given' = IF o.outcome = "returns" THEN told ELSE given
  /\ UNCHANGED <<saved, instances, badLoads>>

SetName ==
  \E a \in Texts : /\ Perform(toxSelfSetName(tox, a),
                              [given EXCEPT !.name = IF a = None THEN << >> ELSE a])
                   /\ UNCHANGED loaded

SetStatusMessage ==
  \E a \in Texts : /\ Perform(toxSelfSetStatusMessage(tox, a),
                              [given EXCEPT !.status_message = IF a = None THEN << >> ELSE a])
                   /\ UNCHANGED loaded

SetStatus ==
  \E x \in Statuses : /\ Perform(toxSelfSetStatus(tox, x), [given EXCEPT !.status = x])
                      /\ UNCHANGED loaded

SetNospam ==
  \E x \in Nospams : /\ Perform(toxSelfSetNospam(tox, x),
                                [given EXCEPT !.nospam = x, !.address = <<OwnKey, x>>])
                     /\ UNCHANGED loaded

Befriend(o, key) == /\ Perform(o, [given EXCEPT !.friends[o.value] = key])
                    /\ UNCHANGED loaded

AddFriend ==
  \E key \in AddressKeys, message \in Texts :
    \E r \in AddRequestResults(tox, key, Length(message)) :
      Befriend(toxFriendAdd(tox, key, message, r), key)

AddFriendNorequest ==
  \E key \in AddressKeys : \E r \in AddResults(tox, key) :
    Befriend(toxFriendAddNorequest(tox, key, r), key)

DeleteFriend ==
  \E n \in Numbers :
    /\ Perform(toxFriendDelete(tox, n), [given EXCEPT !.friends[n] = None])
    /\ loaded' = loaded \ {n}

Next ==
  \/ ConstructSome \/ Close \/ SaveCore
  \/ /\ tox # None
     /\ \/ SetName \/ SetStatusMessage \/ SetStatus \/ SetNospam
        \/ AddFriend \/ AddFriendNorequest \/ DeleteFriend

Spec == Init /\ [][Next]_vars

-----------------------------------------------------------------------------
\* Every other call the client can make now; they leave the core as it is.
Queries ==
  UNION {
    {toxFriendByPublicKey(tox, key) : key \in Keys \cup {None} \cup May("odd-key", {OddKey})},
    {toxGetUdpPort(tox), toxGetTcpPort(tox)},
    {toxBootstrapLike(tox, a, p, k, e) :
       a \in {None, "host"}, p \in {0, 1}, k \in {None, OwnKey}, e \in Environment},
    UNION {
      {toxFriendGetPublicKey(tox, n), toxSelfSetTyping(tox, n)}
      \cup {toxSendMessage(tox, n, a, e) : a \in Texts, e \in Environment}
      \cup {toxSendPacket(tox, n, e) : e \in Environment}
      \cup {toxFileControl(tox, n, t, c, e) :
              t \in Transfers, c \in {"RESUME", "PAUSE", "CANCEL"}, e \in Accepting}
      \cup {toxFileSend(tox, n, k, a, e) :
              k \in {"AVATAR", "DATA"}, a \in Texts, e \in Environment}
      \cup {toxFileSendChunk(tox, n, t, a, e) :
              t \in Transfers, a \in Chunks, e \in Accepting} : n \in Numbers}}

\* Every call that changes the core.
Changes ==
  UNION {
    {toxSelfSetName(tox, a) : a \in Texts}, {toxSelfSetStatusMessage(tox, a) : a \in Texts},
    {toxFriendDelete(tox, n) : n \in Numbers},
    UNION {{toxFriendAdd(tox, key, a, r) : r \in AddRequestResults(tox, key, Length(a))} :
             key \in AddressKeys, a \in Texts},
    UNION {{toxFriendAddNorequest(tox, key, r) : r \in AddResults(tox, key)} :
             key \in AddressKeys \ (IF "null-key" \in Allowed THEN {} ELSE {None})}}

TypeOK ==
  /\ tox = None \/ tox \in Instance
  /\ saved = None \/ saved.tox \in Instance
  /\ loaded \subseteq Numbers
  /\ instances \in Nat /\ badLoads \in 0..MaxBad

(***************************************************************************)
(* Whatever the client calls, it gets an answer or the exception of the    *)
(* method: no error code of core.cpp is unknown to the native method or to *)
(* the Java enumeration it is looked up in, and no assertion fails.        *)
(***************************************************************************)
CodesReachJava ==
  tox # None => \A o \in Queries \cup Changes : o.outcome \in {"returns", "throws"}

(***************************************************************************)
(* The client sees what it gave: name, status message, nospam and status   *)
(* set last, and the friends it added, under the numbers it was told;      *)
(* also after saving and loading.                                          *)
(***************************************************************************)
SeesWhatItGave == tox # None => View(tox) = given

(***************************************************************************)
(* deleteFriend succeeds for the friends there are and for no other        *)
(* number, and removes that friend only.                                   *)
(***************************************************************************)
DeleteReports ==
  tox # None =>
    \A n \in Numbers :
      LET o == toxFriendDelete(tox, n)
      IN /\ o.outcome = "returns" <=> given.friends[n] # None
         /\ o.tox.friends = [tox.friends EXCEPT ![n] = None]

(***************************************************************************)
(* Custom packets are listened to from every friend added to this core,    *)
(* also under the number of a deleted one, and from nobody who is not, or  *)
(* is no longer, a friend.                                                 *)
(***************************************************************************)
AddedAreHeard ==
  tox # None => /\ FriendList(tox) \ loaded \subseteq tox.handlers
                /\ tox.handlers \subseteq FriendList(tox)

(***************************************************************************)
(* A custom packet of any friend is an event, says core.h.  The code does  *)
(* not listen to the friends that came with the saved data.                *)
(***************************************************************************)
FriendsAreHeard == tox # None => FriendList(tox) \subseteq tox.handlers

(***************************************************************************)
(* A native instance that no object refers to exists only after bad data   *)
(* was loaded, one for each time.                                          *)
(***************************************************************************)
LostOnlyByBadLoads == instances <= badLoads + (IF tox = None THEN 0 ELSE 1)
=============================================================================
