--------------------------- MODULE CoreCallsProofs ---------------------------
(***************************************************************************)
(* Proofs about CoreCalls, for any friend numbers, keys and bounds: types, *)
(* what the client sees of its core, the answers to deleteFriend, whose    *)
(* packets are listened to, the number of native instances, and that every *)
(* error code reaches Java.                                                *)
(***************************************************************************)
EXTENDS CoreCalls, TLAPS

-----------------------------------------------------------------------------
(* Early returns.                                                          *)

LEMMA LeastOf ==
  ASSUME NEW S \in SUBSET (1..7), S # {}
  PROVE  Min(S) \in S /\ \A i \in S : Min(S) <= i
<1>. DEFINE HasLeast(T) == \E i \in T : \A j \in T : i <= j
<1>1. ASSUME NEW T \in SUBSET (5..7), T # {}  PROVE HasLeast(T)
  <2>1. CASE 5 \in T
    BY <2>1
  <2>2. CASE 5 \notin T /\ 6 \in T
    BY <2>2
  <2>3. CASE 5 \notin T /\ 6 \notin T
    <3>1. \A i \in T : i = 7
      BY <1>1, <2>3
    <3>2. PICK i \in T : TRUE
      BY <1>1
    <3>. QED  BY <3>1, <3>2
  <2>. QED  BY <1>1, <2>1, <2>2, <2>3
<1>2. ASSUME NEW T \in SUBSET (3..7), T # {}  PROVE HasLeast(T)
  <2>1. CASE 3 \in T
    BY <2>1
  <2>2. CASE 3 \notin T /\ 4 \in T
    BY <2>2
  <2>3. CASE 3 \notin T /\ 4 \notin T
    <3>1. T \in SUBSET (5..7)
      BY <2>3
    <3>. QED  BY <1>1, <1>2, <3>1
  <2>. QED  BY <2>1, <2>2, <2>3
<1>3. HasLeast(S)
  <2>1. CASE 1 \in S
    BY <2>1
  <2>2. CASE 1 \notin S /\ 2 \in S
    BY <2>2
  <2>3. CASE 1 \notin S /\ 2 \notin S
    <3>1. S \in SUBSET (3..7)
      BY <2>3
    <3>. QED  BY <1>2, <3>1
  <2>. QED  BY <2>1, <2>2, <2>3
<1>. QED  BY <1>3 DEF Min

\* The error is that of the first check that fails, "OK" if none does.
LEMMA FirstErrorIn ==
  ASSUME NEW checks, DOMAIN checks \subseteq 1..7
  PROVE  \/ FirstError(checks) = "OK" /\ \A i \in DOMAIN checks : ~checks[i][1]
         \/ \E i \in DOMAIN checks : /\ checks[i][1] /\ FirstError(checks) = checks[i][2]
                                     /\ \A j \in DOMAIN checks : j < i => ~checks[j][1]
<1>. DEFINE failed == {i \in DOMAIN checks : checks[i][1]}
<1>1. CASE failed = {}
  BY <1>1 DEF FirstError
<1>2. CASE failed # {}
  <2>1. failed \in SUBSET (1..7)
    OBVIOUS
  <2>2. Min(failed) \in failed /\ \A i \in failed : Min(failed) <= i
    <3>. HIDE DEF failed
    <3>. QED  BY <1>2, <2>1, LeastOf
  <2>3. FirstError(checks) = checks[Min(failed)][2]
    BY <1>2 DEF FirstError
  <2>. DEFINE i == Min(failed)
  <2>4. i \in DOMAIN checks /\ checks[i][1] /\ i \in 1..7
    BY <2>1, <2>2
  <2>5. \A j \in DOMAIN checks : j < i => ~checks[j][1]
    BY <2>2, <2>4
  <2>. HIDE DEF i
  <2>. QED  BY <2>3, <2>4, <2>5 DEF i
<1>. QED  BY <1>1, <1>2

LEMMA OneCheck ==
  ASSUME NEW a, NEW x
  PROVE  FirstError(<< <<a, x>> >>) = IF a THEN x ELSE "OK"
BY FirstErrorIn

LEMMA TwoChecks ==
  ASSUME NEW a, NEW x, NEW b, NEW y
  PROVE  FirstError(<< <<a, x>>, <<b, y>> >>) = IF a THEN x ELSE IF b THEN y ELSE "OK"
<1>. DEFINE checks == << <<a, x>>, <<b, y>> >>
<1>1. DOMAIN checks = {1, 2} /\ DOMAIN checks \subseteq 1..7
  OBVIOUS
<1>2. /\ checks[1][1] = a /\ checks[1][2] = x
      /\ checks[2][1] = b /\ checks[2][2] = y
  OBVIOUS
<1>. HIDE DEF checks
<1>3. FirstError(checks) = IF a THEN x ELSE IF b THEN y ELSE "OK"
  BY <1>1, <1>2, FirstErrorIn
<1>. QED  BY <1>3 DEF checks

LEMMA ThreeChecks ==
  ASSUME NEW a, NEW x, NEW b, NEW y, NEW c, NEW z
  PROVE  FirstError(<< <<a, x>>, <<b, y>>, <<c, z>> >>)
         = IF a THEN x ELSE IF b THEN y ELSE IF c THEN z ELSE "OK"
<1>. DEFINE checks == << <<a, x>>, <<b, y>>, <<c, z>> >>
<1>1. DOMAIN checks = {1, 2, 3} /\ DOMAIN checks \subseteq 1..7
  OBVIOUS
<1>2. /\ checks[1][1] = a /\ checks[1][2] = x
      /\ checks[2][1] = b /\ checks[2][2] = y
      /\ checks[3][1] = c /\ checks[3][2] = z
  OBVIOUS
<1>. HIDE DEF checks
<1>3. FirstError(checks) = IF a THEN x ELSE IF b THEN y ELSE IF c THEN z ELSE "OK"
  BY <1>1, <1>2, FirstErrorIn
<1>. QED  BY <1>3 DEF checks

-----------------------------------------------------------------------------
(* Error handling.                                                         *)

\* A method returns where its function of core.cpp succeeds, and throws where the code
\* is one its switch names.
LEMMA CallOf ==
  ASSUME NEW handled, "OK" \notin handled, "assert" \notin handled,
         NEW r, NEW o, o = Call(handled, r)
  PROVE  /\ o.tox = r.tox /\ o.value = r.value /\ o.error = r.error
         /\ o.outcome = "returns" <=> r.error = "OK"
         /\ o.outcome = "aborts" <=> r.error = "assert"
         /\ r.error \in handled => o.outcome = "throws"
<1>1. PICK error : error = r.error
  OBVIOUS
<1>2. /\ o.tox = r.tox /\ o.value = r.value /\ o.error = error
      /\ o.outcome = CASE error = "assert"                     -> "aborts"
                       [] Handle(handled, error) = "SUCCESS"  -> "returns"
                       [] Handle(handled, error) = "FAILURE"  ->
                            throw_tox_exception(handled, error)
                       [] OTHER                               -> "IllegalStateException"
  BY <1>1 DEF Call, with_error_handling
<1>3. /\ o.outcome = "returns" <=> error = "OK"
      /\ o.outcome = "aborts" <=> error = "assert"
      /\ error \in handled => o.outcome = "throws"
  <2>1. CASE error = "assert"
    <3>1. Handle(handled, error) = "UNHANDLED"
      BY <2>1 DEF Handle
    <3>. QED  BY <1>2, <2>1, <3>1
  <2>2. CASE error = "OK"
    <3>1. Handle(handled, error) = "SUCCESS"
      BY <2>2 DEF Handle
    <3>. QED  BY <1>2, <2>2, <3>1
  <2>3. CASE error \notin {"OK", "assert"} /\ error \in handled
    <3>1. Handle(handled, error) = "FAILURE"
      BY <2>3 DEF Handle
    <3>. QED  BY <1>2, <2>3, <3>1 DEF throw_tox_exception
  <2>4. CASE error \notin {"OK", "assert"} /\ error \notin handled
    <3>1. Handle(handled, error) = "UNHANDLED"
      BY <2>4 DEF Handle
    <3>. QED  BY <1>2, <2>4, <3>1
  <2>. QED  BY <2>1, <2>2, <2>3, <2>4
<1>. QED  BY <1>1, <1>2, <1>3

-----------------------------------------------------------------------------
(* What the functions of core.cpp make of an instance.                     *)

\* The texts of a client, and what is stored of them.
LEMMA TextTypes ==
  ASSUME NEW a \in Texts
  PROVE  /\ a = None \/ a \in Seq({0, 1})
         /\ Stored(a) \in Seq({0, 1})
<1>1. ASSUME NEW n \in Nat  PROVE Repeated(n) \in Seq({0, 1})
  BY DEF Repeated
<1>2. a = None \/ a \in Seq({0, 1})
  <2>1. MaxLength \in Nat
    BY NewToxAssumption
  <2>2. << >> \in Seq({0, 1}) /\ <<0>> \in Seq({0, 1})
    OBVIOUS
  <2>3. a \in {None, << >>, <<0>>} \/ a = Repeated(MaxLength) \/ a = Repeated(MaxLength + 1)
    BY DEF Texts, May
  <2>4. Repeated(MaxLength) \in Seq({0, 1}) /\ Repeated(MaxLength + 1) \in Seq({0, 1})
    BY <1>1, <2>1
  <2>. QED  BY <2>2, <2>3, <2>4
<1>3. <<0>> \in Seq({0, 1})
  OBVIOUS
<1>. QED  BY <1>2, <1>3 DEF Stored, Length

\* A text that is not one zero byte reads back as it was given, null as an empty one.
LEMMA ReadsBack ==
  ASSUME "zero-byte" \notin Allowed, NEW a \in Texts
  PROVE  (IF StoredSize(Stored(a)) = 0 THEN << >> ELSE Stored(a))
           = IF a = None THEN << >> ELSE a
<1>1. CASE a = None
  BY <1>1 DEF Stored, Length, StoredSize
<1>2. CASE a # None /\ a = << >>
  BY <1>2 DEF Stored, Length, StoredSize
<1>3. ASSUME a # None, NEW n \in Nat \ {0}, a = Repeated(n)
      PROVE  StoredSize(Stored(a)) # 0 /\ Stored(a) = a
  <2>1. a \in Seq({1}) /\ Len(a) = n /\ a[1] = 1
    BY <1>3 DEF Repeated
  <2>2. a # <<0>>
    BY <2>1
  <2>. QED  BY <1>3, <2>1, <2>2 DEF Stored, Length, StoredSize
<1>4. a # None => a = << >> \/ \E n \in Nat \ {0} : a = Repeated(n)
  BY NewToxAssumption DEF Texts, May
<1>. QED  BY <1>1, <1>2, <1>3, <1>4

\* A text that is refused changes nothing.
LEMMA SetNameMakes ==
  ASSUME NEW s \in Instance, NEW a \in Texts,
         NEW r, r = SelfSetName(s, a)
  PROVE  /\ r.tox \in Instance
         /\ r.tox.friends = s.friends /\ r.tox.handlers = s.handlers
         /\ r.tox.status_message = s.status_message
         /\ r.tox.nospam = s.nospam /\ r.tox.status = s.status
         /\ r.tox.name = IF r.error = "OK" THEN Stored(a) ELSE s.name
         /\ r = Result(r.tox, 1, r.error) /\ r.error \in {"OK"} \cup set_info
<1>1. PICK error : error = FirstError(<< <<Length(a) > MaxLength, "TOO_LONG">>,
                             <<Length(a) > 0 /\ a = None, "NULL">>,
                             <<Len(Stored(a)) = 0, "NULL">> >>)
  OBVIOUS
<1>2. error \in {"OK"} \cup set_info
  BY <1>1, ThreeChecks DEF set_info
<1>3. r = Result(IF error = "OK" THEN [s EXCEPT !["name"] = Stored(a)] ELSE s, 1, error)
  BY <1>1 DEF SelfSetName, SetInfo
<1>4. Stored(a) \in Seq({0, 1})
  BY TextTypes
<1>5. CASE error = "OK"
  <2>1. r = Result([s EXCEPT !["name"] = Stored(a)], 1, "OK")
    BY <1>3, <1>5
  <2>2. PICK t : t = [s EXCEPT !["name"] = Stored(a)]
    OBVIOUS
  <2>3. /\ t \in Instance /\ t.name = Stored(a)
        /\ t.friends = s.friends /\ t.handlers = s.handlers /\ t.status_message = s.status_message
        /\ t.nospam = s.nospam /\ t.status = s.status
    BY <1>4, <2>2 DEF Instance
  <2>. QED  BY <2>1, <2>2, <2>3 DEF Result
<1>6. CASE error # "OK"
  <2>1. r = Result(s, 1, error)
    BY <1>3, <1>6
  <2>. QED  BY <1>2, <1>6, <2>1 DEF Result
<1>. QED  BY <1>5, <1>6

LEMMA SetStatusMessageMakes ==
  ASSUME NEW s \in Instance, NEW a \in Texts,
         NEW r, r = SelfSetStatusMessage(s, a)
  PROVE  /\ r.tox \in Instance
         /\ r.tox.friends = s.friends /\ r.tox.handlers = s.handlers
         /\ r.tox.name = s.name
         /\ r.tox.nospam = s.nospam /\ r.tox.status = s.status
         /\ r.tox.status_message = IF r.error = "OK" THEN Stored(a) ELSE s.status_message
         /\ r = Result(r.tox, 1, r.error) /\ r.error \in {"OK"} \cup set_info
<1>1. PICK error : error = FirstError(<< <<Length(a) > MaxLength, "TOO_LONG">>,
                             <<Length(a) > 0 /\ a = None, "NULL">>,
                             <<Len(Stored(a)) = 0, "NULL">> >>)
  OBVIOUS
<1>2. error \in {"OK"} \cup set_info
  BY <1>1, ThreeChecks DEF set_info
<1>3. r = Result(IF error = "OK" THEN [s EXCEPT !["status_message"] = Stored(a)] ELSE s, 1, error)
  BY <1>1 DEF SelfSetStatusMessage, SetInfo
<1>4. Stored(a) \in Seq({0, 1})
  BY TextTypes
<1>5. CASE error = "OK"
  <2>1. r = Result([s EXCEPT !["status_message"] = Stored(a)], 1, "OK")
    BY <1>3, <1>5
  <2>2. PICK t : t = [s EXCEPT !["status_message"] = Stored(a)]
    OBVIOUS
  <2>3. /\ t \in Instance /\ t.status_message = Stored(a)
        /\ t.friends = s.friends /\ t.handlers = s.handlers /\ t.name = s.name
        /\ t.nospam = s.nospam /\ t.status = s.status
    BY <1>4, <2>2 DEF Instance
  <2>. QED  BY <2>1, <2>2, <2>3 DEF Result
<1>6. CASE error # "OK"
  <2>1. r = Result(s, 1, error)
    BY <1>3, <1>6
  <2>. QED  BY <1>2, <1>6, <2>1 DEF Result
<1>. QED  BY <1>5, <1>6

\* What toxcore answers to the addition of a key.
LEMMA AddAnswers ==
  ASSUME NEW s \in Instance, NEW key \in AddressKeys, NEW r \in AddResults(s, key)
  PROVE  /\ r.code = "OK" => /\ r.number \in Numbers \ FriendList(s)
                             /\ key \in Keys \cup {None}
         /\ r.code \in {"OK", "BADCHECKSUM", "OWNKEY", "ALREADYSENT", "SETNEWNOSPAM", "NOMEM"}
<1>. DEFINE code == FirstError(<< <<key = BadKey, "BADCHECKSUM">>, <<key = OwnKey, "OWNKEY">> >>)
            Fails(c) == [code |-> c, number |-> 0]
<1>1. code = IF key = BadKey THEN "BADCHECKSUM" ELSE IF key = OwnKey THEN "OWNKEY" ELSE "OK"
  <2>1. ASSUME NEW a, NEW b
        PROVE  FirstError(<< <<a, "BADCHECKSUM">>, <<b, "OWNKEY">> >>)
               = IF a THEN "BADCHECKSUM" ELSE IF b THEN "OWNKEY" ELSE "OK"
    BY TwoChecks
  <2>. QED  BY <2>1
<1>2. r \in CASE code # "OK" -> {Fails(code)}
              [] code = "OK" /\ \E n \in Numbers : s.friends[n] = key ->
                   {Fails("ALREADYSENT"), Fails("SETNEWNOSPAM")}
              [] OTHER -> {Fails("NOMEM")} \cup
                          {[code |-> "OK", number |-> n] : n \in Numbers \ FriendList(s)}
  BY DEF AddResults
<1>. HIDE DEF code
<1>3. CASE code # "OK"
  <2>1. r = Fails(code)
    BY <1>2, <1>3
  <2>. QED  BY <1>1, <1>3, <2>1
<1>4. CASE code = "OK"
  <2>1. key \in Keys \cup {None}
    BY <1>1, <1>4 DEF AddressKeys
  <2>2. \/ r \in {Fails("ALREADYSENT"), Fails("SETNEWNOSPAM"), Fails("NOMEM")}
        \/ \E n \in Numbers \ FriendList(s) : r = [code |-> "OK", number |-> n]
    BY <1>2, <1>4
  <2>. QED  BY <2>1, <2>2
<1>. QED  BY <1>3, <1>4

\* A request is looked at before the key is.
LEMMA RequestAnswers ==
  ASSUME NEW s, NEW key, NEW length, NEW r \in AddRequestResults(s, key, length)
  PROVE  r \in AddResults(s, key) \/ r.code \in {"TOOLONG", "NOMESSAGE"}
<1>1. PICK code : code = FirstError(<< <<length > MaxLength, "TOOLONG">>,
                                      <<length = 0, "NOMESSAGE">> >>)
  OBVIOUS
<1>2. code \in {"OK", "TOOLONG", "NOMESSAGE"}
  BY <1>1, TwoChecks
<1>3. r \in IF code = "OK" THEN AddResults(s, key) ELSE {[code |-> code, number |-> 0]}
  BY <1>1 DEF AddRequestResults
<1>. QED  BY <1>2, <1>3

\* A friend is added under a free number, and listened to.
LEMMA AddedMakes ==
  ASSUME NEW s \in Instance, NEW key \in AddressKeys, key # None,
         NEW r, r \in AddResults(s, key) \/ r.code \in {"TOOLONG", "NOMESSAGE"},
         NEW x, x = Added(s, key, r)
  PROVE  /\ x.tox \in Instance
         /\ x.tox.name = s.name /\ x.tox.status_message = s.status_message
         /\ x.tox.nospam = s.nospam /\ x.tox.status = s.status
         /\ x = Result(x.tox, x.value, x.error)
         /\ \/ x.error \in friend_add /\ x.tox = s
            \/ /\ x.error = "OK" /\ x.value \in Numbers \ FriendList(s)
               /\ key \in Keys
               /\ x.tox.friends = [s.friends EXCEPT ![x.value] = key]
               /\ x.tox.handlers = s.handlers \cup {x.value}
<1>1. CASE r.code # "OK"
  <2>1. x = Result(s, 0, FriendAddErrors[r.code])
    BY <1>1 DEF Added
  <2>2. r.code \in {"TOOLONG", "NOMESSAGE", "BADCHECKSUM", "OWNKEY", "ALREADYSENT",
                   "SETNEWNOSPAM", "NOMEM"}
    BY <1>1, AddAnswers
  <2>3. FriendAddErrors[r.code] \in friend_add
    BY <2>2 DEF FriendAddErrors, friend_add
  <2>. QED  BY <2>1, <2>3 DEF Result
<1>2. CASE r.code = "OK"
  <2>1. PICK n \in Numbers \ FriendList(s) : n = r.number /\ key \in Keys
    BY <1>2, AddAnswers
  <2>2. PICK t : t = [s EXCEPT !.friends[n] = key]
    OBVIOUS
  <2>3. /\ t \in Instance /\ t.handlers = s.handlers
        /\ t.friends = [s.friends EXCEPT ![n] = key]
        /\ t.name = s.name /\ t.status_message = s.status_message
        /\ t.nospam = s.nospam /\ t.status = s.status
    BY <2>1, <2>2 DEF Instance
  <2>4. PICK u : u = [t EXCEPT !.handlers = t.handlers \cup {n}]
    OBVIOUS
  <2>5. /\ u \in Instance /\ u.handlers = t.handlers \cup {n} /\ u.friends = t.friends
        /\ u.name = t.name /\ u.status_message = t.status_message
        /\ u.nospam = t.nospam /\ u.status = t.status
    BY <2>1, <2>3, <2>4 DEF Instance
  <2>6. RegisterHandlers(t, n) = u
    BY <2>4 DEF RegisterHandlers
  <2>7. x = Result(u, n, "OK")
    BY <1>2, <2>1, <2>2, <2>6 DEF Added
  <2>. QED  BY <2>1, <2>3, <2>5, <2>7 DEF Result
<1>. QED  BY <1>1, <1>2

\* The friend is gone, if there was one.
LEMMA DeleteMakes ==
  ASSUME NEW s \in Instance, NEW n \in Numbers,
         NEW x, x = FriendDelete(s, n)
  PROVE  /\ x.tox \in Instance
         /\ x.tox.name = s.name /\ x.tox.status_message = s.status_message
         /\ x.tox.nospam = s.nospam /\ x.tox.status = s.status
         /\ x = Result(x.tox, 1, x.error)
         /\ x.error = IF s.friends[n] # None THEN "OK" ELSE "FRIEND_NOT_FOUND"
         /\ x.tox.friends = [s.friends EXCEPT ![n] = None]
         /\ x.tox.handlers = s.handlers \ {n}
<1>1. PICK t : t = [s EXCEPT !.friends[n] = None, !.handlers = @ \ {n}]
  OBVIOUS
<1>2. /\ t \in Instance
      /\ t.friends = [s.friends EXCEPT ![n] = None] /\ t.handlers = s.handlers \ {n}
      /\ t.name = s.name /\ t.status_message = s.status_message
      /\ t.nospam = s.nospam /\ t.status = s.status
  BY <1>1 DEF Instance
<1>3. PICK error :
        error = FirstError(<< <<DelFriend(s, n) # 0, "FRIEND_NOT_FOUND">>,
                              <<n \notin FriendList(s), "FRIEND_NOT_FOUND">> >>)
  OBVIOUS
<1>4. x = Result(t, 1, error)
  BY <1>1, <1>3 DEF FriendDelete, Checked
<1>5. error = IF s.friends[n] # None THEN "OK" ELSE "FRIEND_NOT_FOUND"
  <2>1. n \in FriendList(s) <=> s.friends[n] # None
    BY DEF FriendList, FriendExists
  <2>2. n \in FriendList(s) => DelFriend(s, n) = 0
    BY NewToxAssumption DEF DelFriend
  <2>3. ASSUME NEW a, NEW b
        PROVE  FirstError(<< <<a, "FRIEND_NOT_FOUND">>, <<b, "FRIEND_NOT_FOUND">> >>)
               = IF a \/ b THEN "FRIEND_NOT_FOUND" ELSE "OK"
    BY TwoChecks
  <2>4. error = IF DelFriend(s, n) # 0 \/ n \notin FriendList(s)
                THEN "FRIEND_NOT_FOUND" ELSE "OK"
    BY <1>3, <2>3
  <2>. QED  BY <2>1, <2>2, <2>4
<1>. QED  BY <1>2, <1>4, <1>5 DEF Result

\* A core from scratch has no friends, and a loaded one those of its data.
LEMMA NewMakes ==
  ASSUME NEW o, NEW data, NEW friends \in [Numbers -> Keys \cup {None}], NEW toxcore,
         data \in {None, Garbage, Encrypted} \cup Instance,
         NEW x, x = New(o, data, friends, toxcore)
  PROVE  /\ x = Result(x.tox, 0, x.error)
         /\ x.tox = None \/ x.tox \in Instance
         /\ x.error = "OK" =>
              /\ x.tox \in Instance
              /\ data = None \/ data \in Instance
              /\ x.tox.handlers = {}
              /\ data = None => x.tox = Fresh
              /\ data \in Instance =>
                   /\ x.tox.friends = friends
                   /\ x.tox.name = data.name
                   /\ x.tox.status_message = data.status_message
                   /\ x.tox.nospam = data.nospam /\ x.tox.status = data.status
         /\ x.error # "OK" /\ x.tox # None => data \in {Garbage, Encrypted}
<1>1. /\ Fresh \in Instance /\ Fresh.handlers = {}
      /\ Fresh.friends = [n \in Numbers |-> None]
  BY CoreCallsAssumption DEF Fresh, Instance
<1>2. RegisterAllHandlers(Fresh) = Fresh
  <2>1. FriendList(Fresh) = {}
    BY <1>1 DEF FriendList, FriendExists
  <2>. QED  BY <1>1, <2>1 DEF RegisterAllHandlers, Instance
<1>3. \/ \E error : error # "OK" /\ x = Refused(error)
      \/ x = Load(Fresh, data, friends)
  <2>1. CASE ProxyError(o) # "OK"
    BY <2>1 DEF New
  <2>2. CASE ProxyError(o) = "OK"
    BY <1>2, <2>2 DEF New
  <2>. QED  BY <2>1, <2>2
<1>4. CASE \E error : error # "OK" /\ x = Refused(error)
  BY <1>4 DEF Refused, Result
<1>5. CASE x = Load(Fresh, data, friends)
  <2>1. \/ data = None /\ x = Result(Fresh, 0, "OK")
        \/ data # None /\ data = Garbage /\ x = Result(Fresh, 0, "LOAD_BAD_FORMAT")
        \/ data # None /\ data = Encrypted /\ x = Result(Fresh, 0, "LOAD_ENCRYPTED")
        \/ /\ data \in Instance
           /\ x = Result([data EXCEPT !.friends = friends, !.handlers = {}], 0, "OK")
    BY <1>1, <1>5, NewToxAssumption, CoreCallsAssumption DEF Load
  <2>2. CASE data \in Instance
             /\ x = Result([data EXCEPT !.friends = friends, !.handlers = {}], 0, "OK")
    <3>1. PICK t : t = [data EXCEPT !.friends = friends, !.handlers = {}]
      OBVIOUS
    <3>2. /\ t \in Instance /\ t.handlers = {} /\ t.friends = friends
          /\ t.name = data.name /\ t.status_message = data.status_message
          /\ t.nospam = data.nospam /\ t.status = data.status
      BY <2>2, <3>1 DEF Instance
    <3>3. /\ x.tox = t /\ x.error = "OK" /\ x = Result(x.tox, 0, x.error)
          /\ data \notin {None, Garbage, Encrypted} /\ data \in Instance
      BY <2>2, <3>1, CoreCallsAssumption DEF Result
    <3>. QED  BY <3>2, <3>3
  <2>. QED  BY <1>1, <2>1, <2>2, CoreCallsAssumption DEF Result
<1>. QED  BY <1>3, <1>4, <1>5

-----------------------------------------------------------------------------
(* The inductive invariant.                                                *)

Given ==
  [name : Seq({0, 1}), status_message : Seq({0, 1}), nospam : Nospams, status : Statuses,
   address : {OwnKey} \X Nospams, friends : [Numbers -> Keys \cup {None}]]

\* What the client knows of a core.  A text of one zero byte does not read back.
Agrees(s, g) ==
  /\ g \in Given
  /\ g.friends = s.friends /\ g.nospam = s.nospam /\ g.status = s.status
  /\ g.address = <<OwnKey, s.nospam>>
  /\ "zero-byte" \notin Allowed => /\ g.name = toxSelfGetName(s)
                                  /\ g.status_message = toxSelfGetStatusMessage(s)

\* An open core is an instance of its own, agrees with what the client knows, and listens
\* to the friends that did not come with the saved data.
OpenInv ==
  tox # None => /\ instances > 0 /\ Agrees(tox, given)
                /\ loaded \subseteq FriendList(tox)
                /\ tox.handlers = FriendList(tox) \ loaded

SavedInv == saved # None => Agrees(saved.tox, saved.given)

CallsInv == TypeOK /\ OpenInv /\ SavedInv /\ LostOnlyByBadLoads

\* The getters depend on the texts stored only.
LEMMA SameTexts ==
  ASSUME NEW s, NEW t, s.name = t.name, s.status_message = t.status_message
  PROVE  /\ toxSelfGetName(s) = toxSelfGetName(t)
         /\ toxSelfGetStatusMessage(s) = toxSelfGetStatusMessage(t)
BY DEF toxSelfGetName, toxSelfGetStatusMessage, SelfGetNameSize, SelfGetStatusMessageSize

LEMMA FreshAgrees == Agrees(Fresh, Nothing) /\ FriendList(Fresh) = {}
<1>1. /\ Fresh.friends = [n \in Numbers |-> None] /\ Fresh.nospam = 0
      /\ Fresh.status = "NONE" /\ Fresh.name = << >> /\ Fresh.status_message = << >>
  BY DEF Fresh
<1>2. FriendList(Fresh) = {}
  BY <1>1 DEF FriendList, FriendExists
<1>3. toxSelfGetName(Fresh) = << >> /\ toxSelfGetStatusMessage(Fresh) = << >>
  BY <1>1 DEF toxSelfGetName, toxSelfGetStatusMessage
<1>4. /\ Nothing \in Given /\ Nothing.friends = Fresh.friends
      /\ Nothing.nospam = 0 /\ Nothing.status = "NONE" /\ Nothing.address = <<OwnKey, 0>>
      /\ Nothing.name = << >> /\ Nothing.status_message = << >>
  BY <1>1, CoreCallsAssumption DEF Nothing, Given
<1>. QED  BY <1>1, <1>2, <1>3, <1>4 DEF Agrees

\* A call that leaves no trace in the number of instances.
LEMMA PerformKeeps ==
  ASSUME CallsInv, tox # None,
         NEW o, NEW told, Perform(o, told),
         o.tox \in Instance, Agrees(o.tox, IF o.outcome = "returns" THEN told ELSE given),
         loaded' \subseteq FriendList(o.tox),
         o.tox.handlers = FriendList(o.tox) \ loaded'
  PROVE  CallsInv'
<1>1. /\ tox' = o.tox /\ tox' # None
      /\ given' = IF o.outcome = "returns" THEN told ELSE given
      /\ UNCHANGED <<saved, instances, badLoads>>
  BY CoreCallsAssumption DEF Perform
<1>2. TypeOK'
  BY <1>1 DEF CallsInv, TypeOK, FriendList
<1>3. OpenInv'
  BY <1>1 DEF CallsInv, OpenInv, FriendList, FriendExists, Agrees
<1>4. SavedInv'
  BY <1>1 DEF CallsInv, SavedInv, Agrees
<1>5. LostOnlyByBadLoads'
  BY <1>1 DEF CallsInv, LostOnlyByBadLoads
<1>. QED  BY <1>2, <1>3, <1>4, <1>5 DEF CallsInv

LEMMA InitCalls == Init => CallsInv
<1>. SUFFICES ASSUME Init  PROVE CallsInv
  OBVIOUS
<1>. USE DEF Init
<1>1. TypeOK
  BY CoreCallsAssumption DEF TypeOK
<1>. QED  BY <1>1 DEF CallsInv, OpenInv, SavedInv, LostOnlyByBadLoads

\* The steps of Next, one by one.
LEMMA ConstructStep ==
  ASSUME CallsInv, ConstructSome
  PROVE  CallsInv'
<1>1. TypeOK /\ OpenInv /\ SavedInv /\ LostOnlyByBadLoads
  BY DEF CallsInv
<1>2. PICK o \in Proxies, toxcore \in {"created", "no_memory", "no_ports"} :
        \/ \E data \in {None} \cup May("bad-save", {Garbage, Encrypted}) :
             Construct(o, data, Nothing.friends, toxcore)
        \/ /\ saved # None
           /\ \E friends \in Renumberings(saved.tox) : Construct(o, saved.tox, friends, toxcore)
  BY DEF ConstructSome
<1>3. ASSUME NEW data, NEW friends \in [Numbers -> Keys \cup {None}],
             \/ data \in {None, Garbage, Encrypted}
             \/ saved # None /\ data = saved.tox,
             Construct(o, data, friends, toxcore)
      PROVE  CallsInv'
  <2>1. data \in {None, Garbage, Encrypted} \cup Instance
    BY <1>1, <1>3 DEF TypeOK
  <2>2. PICK x : x = New(o, data, friends, toxcore)
    OBVIOUS
  <2>3. /\ x = Result(x.tox, 0, x.error)
        /\ x.tox = None \/ x.tox \in Instance
        /\ x.error = "OK" =>
             /\ x.tox \in Instance
             /\ data = None \/ data \in Instance
             /\ x.tox.handlers = {}
             /\ data = None => x.tox = Fresh
             /\ data \in Instance =>
                  /\ x.tox.friends = friends
                  /\ x.tox.name = data.name
                  /\ x.tox.status_message = data.status_message
                  /\ x.tox.nospam = data.nospam /\ x.tox.status = data.status
        /\ x.error # "OK" /\ x.tox # None => data \in {Garbage, Encrypted}
    BY <1>3, <2>1, <2>2, NewMakes
  <2>4. PICK r : /\ r = toxNew(o, data, friends, toxcore)
                 /\ r.tox = x.tox /\ (r.outcome = "returns" <=> x.error = "OK")
    <3>. DEFINE handled ==
           {"NULL", "MALLOC", "PORT_ALLOC", "PROXY_BAD_HOST", "PROXY_BAD_PORT",
            "PROXY_NOT_FOUND", "LOAD_ENCRYPTED", "LOAD_BAD_FORMAT"}
    <3>1. toxNew(o, data, friends, toxcore) = Call(handled, x)
      BY <2>2 DEF toxNew
    <3>2. "OK" \notin handled /\ "assert" \notin handled
      OBVIOUS
    <3>. HIDE DEF handled
    <3>. QED  BY <3>1, <3>2, CallOf
  <2>5. PICK open \in BOOLEAN, own \in BOOLEAN :
          /\ open <=> x.error = "OK"
          /\ own <=> data \notin {None, Garbage, Encrypted}
    OBVIOUS
  <2>6. /\ tox = None
        /\ tox' = IF open THEN x.tox ELSE None
        /\ given' = IF open /\ own THEN [saved.given EXCEPT !.friends = friends] ELSE Nothing
        /\ loaded' = IF open /\ own THEN {n \in Numbers : friends[n] # None} ELSE {}
        /\ instances' = instances + (IF x.tox = None THEN 0 ELSE 1)
        /\ badLoads' = badLoads + (IF data \in {Garbage, Encrypted} THEN 1 ELSE 0)
        /\ data \in {Garbage, Encrypted} => badLoads < MaxBad
        /\ saved' = saved
    BY <1>3, <2>4, <2>5 DEF Construct
  <2>7. instances \in Nat /\ badLoads \in 0..MaxBad /\ MaxBad \in Nat
    BY <1>1, CoreCallsAssumption DEF TypeOK
  <2>8. /\ instances' \in Nat /\ badLoads' \in 0..MaxBad
        /\ instances' = IF x.tox = None THEN instances ELSE instances + 1
        /\ badLoads' = IF data \in {Garbage, Encrypted} THEN badLoads + 1 ELSE badLoads
    BY <2>6, <2>7
  <2>9. TypeOK'
    <3>1. tox' = None \/ tox' \in Instance
      BY <2>3, <2>5, <2>6
    <3>2. loaded' \subseteq Numbers
      BY <2>6
    <3>. QED  BY <1>1, <2>6, <2>8, <3>1, <3>2 DEF TypeOK
  <2>10. OpenInv'
    <3>. SUFFICES ASSUME tox' # None  PROVE OpenInv'
      BY DEF OpenInv
    <3>1. open /\ tox' = x.tox /\ x.tox \in Instance /\ x.tox.handlers = {}
      BY <2>3, <2>5, <2>6
    <3>2. instances' > 0
      BY <2>7, <2>8, <3>1
    <3>3. CASE own
      <4>1. data \in Instance /\ saved # None /\ data = saved.tox
        BY <1>3, <2>1, <2>5, <3>3
      <4>2. Agrees(data, saved.given)
        BY <1>1, <4>1 DEF SavedInv
      <4>3. PICK g : g = [saved.given EXCEPT !.friends = friends]
        OBVIOUS
      <4>4. /\ g \in Given /\ g.friends = friends
            /\ g.name = saved.given.name /\ g.status_message = saved.given.status_message
            /\ g.nospam = saved.given.nospam /\ g.status = saved.given.status
            /\ g.address = saved.given.address
        BY <1>3, <4>2, <4>3 DEF Agrees, Given
      <4>5. /\ x.tox.friends = friends
            /\ x.tox.name = data.name /\ x.tox.status_message = data.status_message
            /\ x.tox.nospam = data.nospam /\ x.tox.status = data.status
        BY <2>3, <2>5, <3>1, <4>1
      <4>6. Agrees(x.tox, g)
        <5>1. /\ toxSelfGetName(x.tox) = toxSelfGetName(data)
              /\ toxSelfGetStatusMessage(x.tox) = toxSelfGetStatusMessage(data)
          BY <4>5, SameTexts
        <5>. QED  BY <4>2, <4>4, <4>5, <5>1 DEF Agrees
      <4>7. given' = g /\ loaded' = {n \in Numbers : friends[n] # None}
        BY <2>6, <3>1, <3>3, <4>3
      <4>8. loaded' = FriendList(x.tox)
        BY <4>5, <4>7 DEF FriendList, FriendExists
      <4>9. Agrees(tox', given')
        BY <3>1, <4>6, <4>7
      <4>10. loaded' = FriendList(tox') /\ tox'.handlers = {}
        BY <3>1, <4>8
      <4>. QED  BY <3>2, <4>9, <4>10 DEF OpenInv, Agrees, FriendList, FriendExists
    <3>4. CASE ~own
      <4>1. x.tox = Fresh /\ given' = Nothing /\ loaded' = {}
        BY <2>3, <2>5, <2>6, <3>1, <3>4, CoreCallsAssumption
      <4>2. Agrees(tox', given') /\ FriendList(tox') = {}
        BY <3>1, <4>1, FreshAgrees
      <4>3. tox'.handlers = {}
        BY <3>1
      <4>. QED  BY <3>2, <4>1, <4>2, <4>3 DEF OpenInv, Agrees, FriendList, FriendExists
    <3>. QED  BY <3>3, <3>4
  <2>11. SavedInv'
    BY <1>1, <2>6 DEF SavedInv, Agrees
  <2>12. LostOnlyByBadLoads'
    <3>1. instances <= badLoads
      BY <1>1, <2>6, <2>7 DEF LostOnlyByBadLoads
    <3>2. CASE x.tox = None
      <4>1. instances' <= badLoads'
        BY <2>7, <2>8, <3>1, <3>2
      <4>. QED  BY <2>8, <4>1 DEF LostOnlyByBadLoads
    <3>3. CASE x.tox # None /\ open
      <4>1. tox' # None
        BY <2>6, <3>3
      <4>. QED  BY <2>7, <2>8, <3>1, <4>1 DEF LostOnlyByBadLoads
    <3>4. CASE x.tox # None /\ ~open
      <4>1. data \in {Garbage, Encrypted}
        BY <2>3, <2>5, <3>4
      <4>2. instances' <= badLoads'
        BY <2>7, <2>8, <3>1, <3>4, <4>1
      <4>. QED  BY <2>8, <4>2 DEF LostOnlyByBadLoads
    <3>. QED  BY <3>2, <3>3, <3>4
  <2>. QED  BY <2>9, <2>10, <2>11, <2>12 DEF CallsInv
<1>4. Nothing.friends \in [Numbers -> Keys \cup {None}]
  BY DEF Nothing
<1>5. \A friends \in Renumberings(saved.tox) : friends \in [Numbers -> Keys \cup {None}]
  BY DEF Renumberings
<1>. QED  BY <1>2, <1>3, <1>4, <1>5 DEF May

LEMMA CloseStep ==
  ASSUME CallsInv, Close
  PROVE  CallsInv'
<1>1. TypeOK /\ OpenInv /\ SavedInv /\ LostOnlyByBadLoads
  BY DEF CallsInv
<1>2. /\ instances \in Nat /\ instances > 0 /\ instances <= badLoads + 1
      /\ badLoads \in Nat /\ instances' = instances - 1
      /\ tox' = None /\ loaded' = {} /\ saved' = saved /\ badLoads' = badLoads
  <2>1. MaxBad \in Nat
    BY CoreCallsAssumption
  <2>. QED  BY <1>1, <2>1 DEF Close, TypeOK, OpenInv, LostOnlyByBadLoads
<1>3. instances' \in Nat /\ instances' <= badLoads'
  BY <1>2
<1>4. TypeOK'
  BY <1>1, <1>2, <1>3 DEF TypeOK
<1>5. OpenInv' /\ SavedInv'
  BY <1>1, <1>2 DEF OpenInv, SavedInv, Agrees
<1>6. LostOnlyByBadLoads'
  BY <1>2, <1>3 DEF LostOnlyByBadLoads
<1>. QED  BY <1>4, <1>5, <1>6 DEF CallsInv

LEMMA SaveStep ==
  ASSUME CallsInv, SaveCore
  PROVE  CallsInv'
<1>1. TypeOK /\ OpenInv /\ SavedInv /\ LostOnlyByBadLoads
  BY DEF CallsInv
<1>2. PICK t : t = toxSave(tox)
  OBVIOUS
<1>3. /\ tox # None /\ saved' = [tox |-> t, given |-> given]
      /\ UNCHANGED <<tox, given, loaded, instances, badLoads>>
  BY <1>2 DEF SaveCore
<1>4. /\ t \in Instance /\ t.friends = tox.friends
      /\ t.name = tox.name /\ t.status_message = tox.status_message
      /\ t.nospam = tox.nospam /\ t.status = tox.status
  BY <1>1, <1>2, <1>3 DEF TypeOK, toxSave, Save, Instance
<1>5. saved'.tox = t /\ saved'.given = given
  BY <1>3
<1>6. Agrees(t, given)
  <2>1. Agrees(tox, given)
    BY <1>1, <1>3 DEF OpenInv
  <2>. QED  BY <1>4, <2>1, SameTexts DEF Agrees
<1>7. TypeOK'
  BY <1>1, <1>3, <1>4, <1>5 DEF TypeOK
<1>8. OpenInv'
  BY <1>1, <1>3 DEF OpenInv, Agrees, FriendList, FriendExists
<1>9. SavedInv'
  BY <1>5, <1>6 DEF SavedInv, Agrees
<1>10. LostOnlyByBadLoads'
  BY <1>1, <1>3 DEF LostOnlyByBadLoads
<1>. QED  BY <1>7, <1>8, <1>9, <1>10 DEF CallsInv

LEMMA SetNameStep ==
  ASSUME CallsInv, tox # None, SetName
  PROVE  CallsInv'
<1>. DEFINE Told(a) == [given EXCEPT !.name = IF a = None THEN << >> ELSE a]
<1>1. PICK a \in Texts : Perform(toxSelfSetName(tox, a), Told(a)) /\ loaded' = loaded
  BY DEF SetName
<1>2. PICK told : told = Told(a)
  OBVIOUS
<1>3. PICK r : r = SelfSetName(tox, a)
  OBVIOUS
<1>4. PICK o : o = Call(set_info, r) /\ Perform(o, told)
  BY <1>1, <1>2, <1>3 DEF toxSelfSetName
<1>5. o.tox = r.tox /\ (o.outcome = "returns" <=> r.error = "OK")
  <2>1. "OK" \notin set_info /\ "assert" \notin set_info
    BY DEF set_info
  <2>. QED  BY <1>4, <2>1, CallOf
<1>6. /\ tox \in Instance /\ Agrees(tox, given) /\ loaded \subseteq FriendList(tox)
      /\ tox.handlers = FriendList(tox) \ loaded
  BY DEF CallsInv, TypeOK, OpenInv
<1>7. /\ r.tox \in Instance
      /\ r.tox.friends = tox.friends /\ r.tox.handlers = tox.handlers
      /\ r.tox.status_message = tox.status_message
      /\ r.tox.nospam = tox.nospam /\ r.tox.status = tox.status
      /\ r.tox.name = IF r.error = "OK" THEN Stored(a) ELSE tox.name
  BY <1>3, <1>6, SetNameMakes
<1>8. FriendList(r.tox) = FriendList(tox)
  BY <1>7 DEF FriendList, FriendExists
<1>9. Agrees(r.tox, IF o.outcome = "returns" THEN told ELSE given)
  <2>1. CASE r.error = "OK"
    <3>1. /\ told \in Given /\ told.name = IF a = None THEN << >> ELSE a
          /\ told.status_message = given.status_message /\ told.friends = given.friends
          /\ told.nospam = given.nospam /\ told.status = given.status
          /\ told.address = given.address
      <4>1. (IF a = None THEN << >> ELSE a) \in Seq({0, 1})
        BY TextTypes
      <4>. QED  BY <1>2, <1>6, <4>1 DEF Agrees, Given
    <3>2. ASSUME "zero-byte" \notin Allowed
          PROVE  /\ told.name = toxSelfGetName(r.tox)
                 /\ told.status_message = toxSelfGetStatusMessage(r.tox)
      <4>1. toxSelfGetName(r.tox) = IF a = None THEN << >> ELSE a
        <5>1. r.tox.name = Stored(a)
          BY <1>7, <2>1
        <5>. QED  BY <3>2, <5>1, ReadsBack DEF toxSelfGetName, SelfGetNameSize
      <4>2. toxSelfGetStatusMessage(r.tox) = toxSelfGetStatusMessage(tox)
        BY <1>7 DEF toxSelfGetStatusMessage, SelfGetStatusMessageSize
      <4>. QED  BY <1>6, <3>1, <3>2, <4>1, <4>2 DEF Agrees
    <3>3. Agrees(r.tox, told)
      BY <1>6, <1>7, <3>1, <3>2 DEF Agrees
    <3>. QED  BY <1>5, <2>1, <3>3
  <2>2. CASE r.error # "OK"
    <3>1. r.tox.name = tox.name
      BY <1>7, <2>2
    <3>2. Agrees(r.tox, given)
      BY <1>6, <1>7, <3>1, SameTexts DEF Agrees
    <3>. QED  BY <1>5, <2>2, <3>2
  <2>. QED  BY <2>1, <2>2
<1>10. /\ o.tox \in Instance /\ Agrees(o.tox, IF o.outcome = "returns" THEN told ELSE given)
       /\ loaded' \subseteq FriendList(o.tox) /\ o.tox.handlers = FriendList(o.tox) \ loaded'
  BY <1>1, <1>5, <1>6, <1>7, <1>8, <1>9
<1>. QED  BY <1>4, <1>10, PerformKeeps

LEMMA SetStatusMessageStep ==
  ASSUME CallsInv, tox # None, SetStatusMessage
  PROVE  CallsInv'
<1>. DEFINE Told(a) == [given EXCEPT !.status_message = IF a = None THEN << >> ELSE a]
<1>1. PICK a \in Texts : Perform(toxSelfSetStatusMessage(tox, a), Told(a)) /\ loaded' = loaded
  BY DEF SetStatusMessage
<1>2. PICK told : told = Told(a)
  OBVIOUS
<1>3. PICK r : r = SelfSetStatusMessage(tox, a)
  OBVIOUS
<1>4. PICK o : o = Call(set_info, r) /\ Perform(o, told)
  BY <1>1, <1>2, <1>3 DEF toxSelfSetStatusMessage
<1>5. o.tox = r.tox /\ (o.outcome = "returns" <=> r.error = "OK")
  <2>1. "OK" \notin set_info /\ "assert" \notin set_info
    BY DEF set_info
  <2>. QED  BY <1>4, <2>1, CallOf
<1>6. /\ tox \in Instance /\ Agrees(tox, given) /\ loaded \subseteq FriendList(tox)
      /\ tox.handlers = FriendList(tox) \ loaded
  BY DEF CallsInv, TypeOK, OpenInv
<1>7. /\ r.tox \in Instance
      /\ r.tox.friends = tox.friends /\ r.tox.handlers = tox.handlers
      /\ r.tox.name = tox.name
      /\ r.tox.nospam = tox.nospam /\ r.tox.status = tox.status
      /\ r.tox.status_message = IF r.error = "OK" THEN Stored(a) ELSE tox.status_message
  BY <1>3, <1>6, SetStatusMessageMakes
<1>8. FriendList(r.tox) = FriendList(tox)
  BY <1>7 DEF FriendList, FriendExists
<1>9. Agrees(r.tox, IF o.outcome = "returns" THEN told ELSE given)
  <2>1. CASE r.error = "OK"
    <3>1. /\ told \in Given /\ told.status_message = IF a = None THEN << >> ELSE a
          /\ told.name = given.name /\ told.friends = given.friends
          /\ told.nospam = given.nospam /\ told.status = given.status
          /\ told.address = given.address
      <4>1. (IF a = None THEN << >> ELSE a) \in Seq({0, 1})
        BY TextTypes
      <4>. QED  BY <1>2, <1>6, <4>1 DEF Agrees, Given
    <3>2. ASSUME "zero-byte" \notin Allowed
          PROVE  /\ told.name = toxSelfGetName(r.tox)
                 /\ told.status_message = toxSelfGetStatusMessage(r.tox)
      <4>1. toxSelfGetStatusMessage(r.tox) = IF a = None THEN << >> ELSE a
        <5>1. r.tox.status_message = Stored(a)
          BY <1>7, <2>1
        <5>. QED  BY <3>2, <5>1, ReadsBack DEF toxSelfGetStatusMessage, SelfGetStatusMessageSize
      <4>2. toxSelfGetName(r.tox) = toxSelfGetName(tox)
        BY <1>7 DEF toxSelfGetName, SelfGetNameSize
      <4>. QED  BY <1>6, <3>1, <3>2, <4>1, <4>2 DEF Agrees
    <3>3. Agrees(r.tox, told)
      BY <1>6, <1>7, <3>1, <3>2 DEF Agrees
    <3>. QED  BY <1>5, <2>1, <3>3
  <2>2. CASE r.error # "OK"
    <3>1. r.tox.status_message = tox.status_message
      BY <1>7, <2>2
    <3>2. Agrees(r.tox, given)
      BY <1>6, <1>7, <3>1, SameTexts DEF Agrees
    <3>. QED  BY <1>5, <2>2, <3>2
  <2>. QED  BY <2>1, <2>2
<1>10. /\ o.tox \in Instance /\ Agrees(o.tox, IF o.outcome = "returns" THEN told ELSE given)
       /\ loaded' \subseteq FriendList(o.tox) /\ o.tox.handlers = FriendList(o.tox) \ loaded'
  BY <1>1, <1>5, <1>6, <1>7, <1>8, <1>9
<1>. QED  BY <1>4, <1>10, PerformKeeps

LEMMA SetStatusStep ==
  ASSUME CallsInv, tox # None, SetStatus
  PROVE  CallsInv'
<1>1. PICK v \in Statuses : /\ Perform(toxSelfSetStatus(tox, v), [given EXCEPT !.status = v])
                         /\ loaded' = loaded
  BY DEF SetStatus
<1>2. PICK told : told = [given EXCEPT !.status = v]
  OBVIOUS
<1>3. PICK t : t = [tox EXCEPT !.status = v]
  OBVIOUS
<1>4. PICK r : r = Result(t, 1, "OK")
  OBVIOUS
<1>5. PICK o : o = Call({}, r) /\ Perform(o, told)
  BY <1>1, <1>2, <1>3, <1>4 DEF toxSelfSetStatus, SelfSetStatus
<1>6. o.tox = t /\ o.outcome = "returns"
  <2>1. r.tox = t /\ r.error = "OK"
    BY <1>4 DEF Result
  <2>. QED  BY <1>5, <2>1, CallOf
<1>7. /\ tox \in Instance /\ Agrees(tox, given) /\ loaded \subseteq FriendList(tox)
      /\ tox.handlers = FriendList(tox) \ loaded
  BY DEF CallsInv, TypeOK, OpenInv
<1>8. /\ t \in Instance /\ t.status = v
      /\ t.friends = tox.friends /\ t.handlers = tox.handlers /\ t.nospam = tox.nospam
      /\ t.name = tox.name /\ t.status_message = tox.status_message
  BY <1>3, <1>7 DEF Instance
<1>9. /\ told \in Given /\ told.status = v /\ told.address = given.address
      /\ told.name = given.name /\ told.status_message = given.status_message
      /\ told.friends = given.friends /\ told.nospam = given.nospam
  BY <1>2, <1>7 DEF Agrees, Given
<1>10. Agrees(t, told)
  <2>1. /\ toxSelfGetName(t) = toxSelfGetName(tox)
        /\ toxSelfGetStatusMessage(t) = toxSelfGetStatusMessage(tox)
    BY <1>8, SameTexts
  <2>. QED  BY <1>7, <1>8, <1>9, <2>1 DEF Agrees
<1>11. FriendList(t) = FriendList(tox)
  BY <1>8 DEF FriendList, FriendExists
<1>12. /\ o.tox \in Instance /\ Agrees(o.tox, IF o.outcome = "returns" THEN told ELSE given)
       /\ loaded' \subseteq FriendList(o.tox) /\ o.tox.handlers = FriendList(o.tox) \ loaded'
  BY <1>1, <1>6, <1>7, <1>8, <1>10, <1>11
<1>. QED  BY <1>5, <1>12, PerformKeeps

LEMMA SetNospamStep ==
  ASSUME CallsInv, tox # None, SetNospam
  PROVE  CallsInv'
<1>1. PICK v \in Nospams :
        /\ Perform(toxSelfSetNospam(tox, v),
                   [given EXCEPT !.nospam = v, !.address = <<OwnKey, v>>])
        /\ loaded' = loaded
  BY DEF SetNospam
<1>2. PICK told : told = [given EXCEPT !.nospam = v, !.address = <<OwnKey, v>>]
  OBVIOUS
<1>3. PICK t : t = [tox EXCEPT !.nospam = v]
  OBVIOUS
<1>4. PICK r : r = Result(t, 1, "OK")
  OBVIOUS
<1>5. PICK o : o = Call({}, r) /\ Perform(o, told)
  BY <1>1, <1>2, <1>3, <1>4 DEF toxSelfSetNospam, SelfSetNospam
<1>6. o.tox = t /\ o.outcome = "returns"
  <2>1. r.tox = t /\ r.error = "OK"
    BY <1>4 DEF Result
  <2>. QED  BY <1>5, <2>1, CallOf
<1>7. /\ tox \in Instance /\ Agrees(tox, given) /\ loaded \subseteq FriendList(tox)
      /\ tox.handlers = FriendList(tox) \ loaded
  BY DEF CallsInv, TypeOK, OpenInv
<1>8. /\ t \in Instance /\ t.nospam = v
      /\ t.friends = tox.friends /\ t.handlers = tox.handlers /\ t.status = tox.status
      /\ t.name = tox.name /\ t.status_message = tox.status_message
  BY <1>3, <1>7 DEF Instance
<1>9. /\ told \in Given /\ told.nospam = v /\ told.address = <<OwnKey, v>>
      /\ told.name = given.name /\ told.status_message = given.status_message
      /\ told.friends = given.friends /\ told.status = given.status
  BY <1>2, <1>7 DEF Agrees, Given
<1>10. Agrees(t, told)
  <2>1. /\ toxSelfGetName(t) = toxSelfGetName(tox)
        /\ toxSelfGetStatusMessage(t) = toxSelfGetStatusMessage(tox)
    BY <1>8, SameTexts
  <2>. QED  BY <1>7, <1>8, <1>9, <2>1 DEF Agrees
<1>11. FriendList(t) = FriendList(tox)
  BY <1>8 DEF FriendList, FriendExists
<1>12. /\ o.tox \in Instance /\ Agrees(o.tox, IF o.outcome = "returns" THEN told ELSE given)
       /\ loaded' \subseteq FriendList(o.tox) /\ o.tox.handlers = FriendList(o.tox) \ loaded'
  BY <1>1, <1>6, <1>7, <1>8, <1>10, <1>11
<1>. QED  BY <1>5, <1>12, PerformKeeps

\* Whatever adds a friend adds it on both sides, or on neither.
LEMMA BefriendKeeps ==
  ASSUME CallsInv, tox # None, NEW key, NEW x,
         \/ x.tox = tox /\ x.error # "OK"
         \/ /\ x.error = "OK" /\ x.value \in Numbers \ FriendList(tox) /\ key \in Keys
            /\ x.tox \in Instance
            /\ x.tox.name = tox.name /\ x.tox.status_message = tox.status_message
            /\ x.tox.nospam = tox.nospam /\ x.tox.status = tox.status
            /\ x.tox.friends = [tox.friends EXCEPT ![x.value] = key]
            /\ x.tox.handlers = tox.handlers \cup {x.value},
         Befriend(Call(friend_add, x), key)
  PROVE  CallsInv'
<1>1. PICK o : o = Call(friend_add, x)
  OBVIOUS
<1>2. PICK told : told = [given EXCEPT !.friends[o.value] = key]
  OBVIOUS
<1>3. Perform(o, told) /\ loaded' = loaded
  BY <1>1, <1>2 DEF Befriend
<1>4. o.tox = x.tox /\ o.value = x.value /\ (o.outcome = "returns" <=> x.error = "OK")
  <2>1. "OK" \notin friend_add /\ "assert" \notin friend_add
    BY DEF friend_add
  <2>. QED  BY <1>1, <2>1, CallOf
<1>5. /\ tox \in Instance /\ Agrees(tox, given) /\ loaded \subseteq FriendList(tox)
      /\ tox.handlers = FriendList(tox) \ loaded
  BY DEF CallsInv, TypeOK, OpenInv
<1>6. CASE x.tox = tox /\ x.error # "OK"
  <2>1. /\ o.tox \in Instance /\ Agrees(o.tox, IF o.outcome = "returns" THEN told ELSE given)
        /\ loaded' \subseteq FriendList(o.tox) /\ o.tox.handlers = FriendList(o.tox) \ loaded'
    BY <1>3, <1>4, <1>5, <1>6
  <2>. QED  BY <1>3, <2>1, PerformKeeps
<1>7. CASE x.error = "OK"
  <2>1. PICK n \in Numbers \ FriendList(tox), t \in Instance :
          /\ n = x.value /\ t = x.tox /\ key \in Keys
          /\ t.name = tox.name /\ t.status_message = tox.status_message
          /\ t.nospam = tox.nospam /\ t.status = tox.status
          /\ t.friends = [tox.friends EXCEPT ![n] = key]
          /\ t.handlers = tox.handlers \cup {n}
    BY <1>7
  <2>2. o.tox = t /\ o.value = n /\ o.outcome = "returns"
    BY <1>4, <1>7, <2>1
  <2>3. /\ told \in Given /\ told.friends = [given.friends EXCEPT ![n] = key]
        /\ told.name = given.name /\ told.status_message = given.status_message
        /\ told.nospam = given.nospam /\ told.status = given.status
        /\ told.address = given.address
    <3>1. told = [given EXCEPT !.friends[n] = key]
      BY <1>2, <2>2
    <3>. QED  BY <1>5, <2>1, <3>1 DEF Agrees, Given
  <2>4. Agrees(t, told)
    <3>1. /\ toxSelfGetName(t) = toxSelfGetName(tox)
          /\ toxSelfGetStatusMessage(t) = toxSelfGetStatusMessage(tox)
      BY <2>1, SameTexts
    <3>. QED  BY <1>5, <2>1, <2>3, <3>1 DEF Agrees
  <2>5. FriendList(t) = FriendList(tox) \cup {n}
    <3>1. key # None
      BY <2>1, NewToxAssumption
    <3>2. tox.friends \in [Numbers -> Keys \cup {None}]
      BY <1>5 DEF Instance
    <3>. QED  BY <2>1, <3>1, <3>2 DEF FriendList, FriendExists
  <2>6. /\ o.tox \in Instance /\ Agrees(o.tox, IF o.outcome = "returns" THEN told ELSE given)
        /\ loaded' \subseteq FriendList(o.tox) /\ o.tox.handlers = FriendList(o.tox) \ loaded'
    BY <1>3, <1>5, <2>1, <2>2, <2>4, <2>5
  <2>. QED  BY <1>3, <2>6, PerformKeeps
<1>. QED  BY <1>6, <1>7

LEMMA AddFriendStep ==
  ASSUME CallsInv, tox # None, AddFriend
  PROVE  CallsInv'
<1>1. PICK key \in AddressKeys, message \in Texts :
        \E r \in AddRequestResults(tox, key, Length(message)) :
          Befriend(toxFriendAdd(tox, key, message, r), key)
  BY DEF AddFriend
<1>2. PICK r \in AddRequestResults(tox, key, Length(message)) :
        Befriend(toxFriendAdd(tox, key, message, r), key)
  BY <1>1
<1>3. PICK x : x = FriendAdd(tox, key, message, r)
  OBVIOUS
<1>4. Befriend(Call(friend_add, x), key)
  BY <1>2, <1>3 DEF toxFriendAdd
<1>5. CASE key = None \/ message = None
  <2>1. x = Result(tox, 0, "NULL")
    BY <1>3, <1>5 DEF FriendAdd
  <2>2. x.tox = tox /\ x.error # "OK"
    BY <2>1 DEF Result
  <2>. QED  BY <1>4, <2>2, BefriendKeeps
<1>6. CASE key # None /\ message # None
  <2>1. x = Added(tox, key, r)
    BY <1>3, <1>6 DEF FriendAdd
  <2>2. r \in AddResults(tox, key) \/ r.code \in {"TOOLONG", "NOMESSAGE"}
    BY <1>2, RequestAnswers
  <2>3. tox \in Instance
    BY DEF CallsInv, TypeOK
  <2>4. \/ x.tox = tox /\ x.error # "OK"
        \/ /\ x.error = "OK" /\ x.value \in Numbers \ FriendList(tox) /\ key \in Keys
           /\ x.tox \in Instance
           /\ x.tox.name = tox.name /\ x.tox.status_message = tox.status_message
           /\ x.tox.nospam = tox.nospam /\ x.tox.status = tox.status
           /\ x.tox.friends = [tox.friends EXCEPT ![x.value] = key]
           /\ x.tox.handlers = tox.handlers \cup {x.value}
    <3>1. "OK" \notin friend_add
      BY DEF friend_add
    <3>. QED  BY <1>6, <2>1, <2>2, <2>3, <3>1, AddedMakes
  <2>. QED  BY <1>4, <2>4, BefriendKeeps
<1>. QED  BY <1>5, <1>6

LEMMA AddFriendNorequestStep ==
  ASSUME CallsInv, tox # None, AddFriendNorequest
  PROVE  CallsInv'
<1>1. PICK key \in AddressKeys :
        \E r \in AddResults(tox, key) : Befriend(toxFriendAddNorequest(tox, key, r), key)
  BY DEF AddFriendNorequest
<1>2. PICK r \in AddResults(tox, key) : Befriend(toxFriendAddNorequest(tox, key, r), key)
  BY <1>1
<1>3. PICK x : x = FriendAddNorequest(tox, key, r)
  OBVIOUS
<1>4. Befriend(Call(friend_add, x), key)
  BY <1>2, <1>3 DEF toxFriendAddNorequest
<1>5. CASE key = None
  <2>1. x.error = "assert"
    BY <1>3, <1>5 DEF FriendAddNorequest, Result
  <2>2. "OK" \notin friend_add /\ "assert" \notin friend_add
    BY DEF friend_add
  <2>3. PICK o : o = Call(friend_add, x)
    OBVIOUS
  <2>4. o.outcome = "aborts"
    BY <2>1, <2>2, <2>3, CallOf
  <2>5. o.outcome # "aborts"
    BY <1>4, <2>3 DEF Befriend, Perform
  <2>. QED  BY <2>4, <2>5
<1>6. CASE key # None
  <2>1. x = Added(tox, key, r)
    BY <1>3, <1>6 DEF FriendAddNorequest
  <2>2. tox \in Instance
    BY DEF CallsInv, TypeOK
  <2>3. \/ x.tox = tox /\ x.error # "OK"
        \/ /\ x.error = "OK" /\ x.value \in Numbers \ FriendList(tox) /\ key \in Keys
           /\ x.tox \in Instance
           /\ x.tox.name = tox.name /\ x.tox.status_message = tox.status_message
           /\ x.tox.nospam = tox.nospam /\ x.tox.status = tox.status
           /\ x.tox.friends = [tox.friends EXCEPT ![x.value] = key]
           /\ x.tox.handlers = tox.handlers \cup {x.value}
    <3>1. "OK" \notin friend_add
      BY DEF friend_add
    <3>. QED  BY <1>6, <2>1, <2>2, <3>1, AddedMakes
  <2>. QED  BY <1>4, <2>3, BefriendKeeps
<1>. QED  BY <1>5, <1>6

LEMMA DeleteFriendStep ==
  ASSUME CallsInv, tox # None, DeleteFriend
  PROVE  CallsInv'
<1>1. PICK n \in Numbers :
        /\ Perform(toxFriendDelete(tox, n), [given EXCEPT !.friends[n] = None])
        /\ loaded' = loaded \ {n}
  BY DEF DeleteFriend
<1>2. PICK told : told = [given EXCEPT !.friends[n] = None]
  OBVIOUS
<1>3. PICK x : x = FriendDelete(tox, n)
  OBVIOUS
<1>4. PICK o : o = Call({"FRIEND_NOT_FOUND"}, x) /\ Perform(o, told)
  BY <1>1, <1>2, <1>3 DEF toxFriendDelete
<1>5. o.tox = x.tox /\ (o.outcome = "returns" <=> x.error = "OK")
  <2>1. o = Call({"FRIEND_NOT_FOUND"}, x)
    BY <1>4
  <2>. QED  BY <2>1, CallOf
<1>6. /\ tox \in Instance /\ Agrees(tox, given) /\ loaded \subseteq FriendList(tox)
      /\ tox.handlers = FriendList(tox) \ loaded
  BY DEF CallsInv, TypeOK, OpenInv
<1>7. /\ x.tox \in Instance
      /\ x.tox.name = tox.name /\ x.tox.status_message = tox.status_message
      /\ x.tox.nospam = tox.nospam /\ x.tox.status = tox.status
      /\ x.error = IF tox.friends[n] # None THEN "OK" ELSE "FRIEND_NOT_FOUND"
      /\ x.tox.friends = [tox.friends EXCEPT ![n] = None]
      /\ x.tox.handlers = tox.handlers \ {n}
  BY <1>3, <1>6, DeleteMakes
<1>8. FriendList(x.tox) = FriendList(tox) \ {n}
  <2>1. tox.friends \in [Numbers -> Keys \cup {None}]
    BY <1>6 DEF Instance
  <2>. QED  BY <1>7, <2>1 DEF FriendList, FriendExists
<1>9. Agrees(x.tox, IF o.outcome = "returns" THEN told ELSE given)
  <2>1. /\ toxSelfGetName(x.tox) = toxSelfGetName(tox)
        /\ toxSelfGetStatusMessage(x.tox) = toxSelfGetStatusMessage(tox)
    BY <1>7, SameTexts
  <2>2. CASE x.error = "OK"
    <3>1. /\ told \in Given /\ told.friends = [given.friends EXCEPT ![n] = None]
          /\ told.name = given.name /\ told.status_message = given.status_message
          /\ told.nospam = given.nospam /\ told.status = given.status
          /\ told.address = given.address
      BY <1>2, <1>6 DEF Agrees, Given
    <3>2. Agrees(x.tox, told)
      BY <1>6, <1>7, <2>1, <3>1 DEF Agrees
    <3>. QED  BY <1>5, <2>2, <3>2
  <2>3. CASE x.error # "OK"
    <3>1. x.tox.friends = tox.friends
      BY <1>6, <1>7, <2>3 DEF Instance
    <3>2. Agrees(x.tox, given)
      BY <1>6, <1>7, <2>1, <3>1 DEF Agrees
    <3>. QED  BY <1>5, <2>3, <3>2
  <2>. QED  BY <2>2, <2>3
<1>10. /\ o.tox \in Instance /\ Agrees(o.tox, IF o.outcome = "returns" THEN told ELSE given)
       /\ loaded' \subseteq FriendList(o.tox) /\ o.tox.handlers = FriendList(o.tox) \ loaded'
  BY <1>1, <1>5, <1>6, <1>7, <1>8, <1>9
<1>. QED  BY <1>4, <1>10, PerformKeeps

-----------------------------------------------------------------------------
(* What holds of every run.                                                *)

\* Whatever the client does, what it knows of the core agrees with the core.
THEOREM AlwaysCalls == Spec => []CallsInv
<1>1. Init => CallsInv
  BY InitCalls
<1>2. CallsInv /\ [Next]_vars => CallsInv'
  <2>. SUFFICES ASSUME CallsInv, [Next]_vars  PROVE CallsInv'
    OBVIOUS
  <2>1. CASE ConstructSome
    BY <2>1, ConstructStep
  <2>2. CASE Close
    BY <2>2, CloseStep
  <2>3. CASE SaveCore
    BY <2>3, SaveStep
  <2>4. CASE tox # None /\ SetName
    BY <2>4, SetNameStep
  <2>5. CASE tox # None /\ SetStatusMessage
    BY <2>5, SetStatusMessageStep
  <2>6. CASE tox # None /\ SetStatus
    BY <2>6, SetStatusStep
  <2>7. CASE tox # None /\ SetNospam
    BY <2>7, SetNospamStep
  <2>8. CASE tox # None /\ AddFriend
    BY <2>8, AddFriendStep
  <2>9. CASE tox # None /\ AddFriendNorequest
    BY <2>9, AddFriendNorequestStep
  <2>10. CASE tox # None /\ DeleteFriend
    BY <2>10, DeleteFriendStep
  <2>11. CASE UNCHANGED vars
    BY <2>11 DEF vars, CallsInv, TypeOK, OpenInv, SavedInv, LostOnlyByBadLoads, Agrees,
                 FriendList, FriendExists
  <2>. QED  BY <2>1, <2>2, <2>3, <2>4, <2>5, <2>6, <2>7, <2>8, <2>9, <2>10, <2>11 DEF Next
<1>. QED  BY <1>1, <1>2, PTL DEF Spec

\* The variables keep their types.
THEOREM CoreCallTypes == Spec => []TypeOK
<1>1. CallsInv => TypeOK
  BY DEF CallsInv
<1>. QED  BY <1>1, AlwaysCalls, PTL

\* A native instance that no object refers to is left only by loading bad data, one for
\* each time: closing and refused proxies leave none.
THEOREM LeaksOnlyByBadLoads == Spec => []LostOnlyByBadLoads
<1>1. CallsInv => LostOnlyByBadLoads
  BY DEF CallsInv
<1>. QED  BY <1>1, AlwaysCalls, PTL

\* Packets are listened to from the friends added to this core, and from friends only.  The
\* invariant says besides which ones the code forgets: those that were loaded.
THEOREM AddedFriendsHeard == Spec => []AddedAreHeard
<1>1. CallsInv => AddedAreHeard
  BY DEF CallsInv, OpenInv, AddedAreHeard
<1>. QED  BY <1>1, AlwaysCalls, PTL

\* deleteFriend tells the friends there are from the other numbers, and removes one friend.
THEOREM DeleteTells == Spec => []DeleteReports
<1>1. CallsInv => DeleteReports
  <2>. SUFFICES ASSUME CallsInv, tox # None, NEW n \in Numbers
                PROVE  /\ toxFriendDelete(tox, n).outcome = "returns" <=> given.friends[n] # None
                       /\ toxFriendDelete(tox, n).tox.friends = [tox.friends EXCEPT ![n] = None]
    BY DEF DeleteReports
  <2>1. tox \in Instance /\ given.friends = tox.friends
    BY DEF CallsInv, TypeOK, OpenInv, Agrees
  <2>2. PICK x : x = FriendDelete(tox, n)
    OBVIOUS
  <2>3. PICK o : o = toxFriendDelete(tox, n)
    OBVIOUS
  <2>4. /\ x.error = IF tox.friends[n] # None THEN "OK" ELSE "FRIEND_NOT_FOUND"
        /\ x.tox.friends = [tox.friends EXCEPT ![n] = None]
    BY <2>1, <2>2, DeleteMakes
  <2>5. o = Call({"FRIEND_NOT_FOUND"}, x)
    BY <2>2, <2>3 DEF toxFriendDelete
  <2>6. o.tox = x.tox /\ (o.outcome = "returns" <=> x.error = "OK")
    BY <2>5, CallOf
  <2>. QED  BY <2>1, <2>3, <2>4, <2>6
<1>. QED  BY <1>1, AlwaysCalls, PTL

\* The client reads back what it gave, after saving and loading too, unless it gives a
\* text of one zero byte, which reads back as an empty one.
THEOREM ReadsWhatItGave ==
  ASSUME "zero-byte" \notin Allowed
  PROVE  Spec => []SeesWhatItGave
<1>1. CallsInv => SeesWhatItGave
  <2>. SUFFICES ASSUME CallsInv, tox # None  PROVE View(tox) = given
    BY DEF SeesWhatItGave
  <2>1. tox \in Instance /\ Agrees(tox, given)
    BY DEF CallsInv, TypeOK, OpenInv
  <2>2. \A n \in Numbers : toxFriendGetPublicKey(tox, n).value = tox.friends[n]
    <3>. SUFFICES ASSUME NEW n \in Numbers
                  PROVE  toxFriendGetPublicKey(tox, n).value = tox.friends[n]
      OBVIOUS
    <3>1. PICK x : x = FriendGetPublicKey(tox, n)
      OBVIOUS
    <3>2. PICK o : o = toxFriendGetPublicKey(tox, n)
      OBVIOUS
    <3>3. x.value = tox.friends[n]
      BY <3>1 DEF FriendGetPublicKey, Checked, Result
    <3>4. o = Call({"FRIEND_NOT_FOUND"}, x)
      BY <3>1, <3>2 DEF toxFriendGetPublicKey
    <3>5. o.value = x.value
      BY <3>4, CallOf
    <3>. QED  BY <3>2, <3>3, <3>5
  <2>3. PICK f : f = [n \in Numbers |-> IF n \in toxFriendList(tox)
                                        THEN toxFriendGetPublicKey(tox, n).value ELSE None]
    OBVIOUS
  <2>4. f = given.friends
    <3>1. \A n \in Numbers : f[n] = tox.friends[n]
      BY <2>2, <2>3 DEF toxFriendList, FriendList, FriendExists
    <3>. QED  BY <2>1, <2>3, <3>1 DEF Agrees, Instance
  <2>5. View(tox) = [name |-> toxSelfGetName(tox),
                     status_message |-> toxSelfGetStatusMessage(tox),
                     nospam |-> tox.nospam, status |-> tox.status,
                     address |-> <<OwnKey, tox.nospam>>, friends |-> f]
    BY <2>3 DEF View, toxSelfGetNospam, toxSelfGetStatus, toxSelfGetAddress, SelfGetAddress
  <2>. QED  BY <2>1, <2>4, <2>5 DEF Agrees, Given
<1>. QED  BY <1>1, AlwaysCalls, PTL

-----------------------------------------------------------------------------
(* Every error code reaches Java.                                          *)

Answers(o) == o.outcome \in {"returns", "throws"}

\* The switch names the code, and so does the exception's enumeration.
LEMMA NamedCode ==
  ASSUME NEW handled, "OK" \notin handled, "assert" \notin handled,
         NEW r, r.error \in handled \cup {"OK"},
         NEW o, o = Call(handled, r)
  PROVE  Answers(o)
BY CallOf DEF Answers

\* It is enough to name the codes of the checks that can fail.
LEMMA NamedChecks ==
  ASSUME NEW checks, DOMAIN checks \subseteq 1..7, NEW handled,
         \A i \in DOMAIN checks : checks[i][1] => checks[i][2] \in handled
  PROVE  FirstError(checks) \in handled \cup {"OK"}
BY FirstErrorIn

\* The methods that only look: each names the codes of its checks.
LEMMA TypingAnswers ==
  ASSUME NEW s, NEW n, NEW o, o = toxSelfSetTyping(s, n)
  PROVE  Answers(o)
<1>1. PICK handled : handled = {"FRIEND_NOT_FOUND"}
  OBVIOUS
<1>. DEFINE checks == << NotFound(s, n) >>
<1>2. PICK r : r = SelfSetTyping(s, n) /\ r = Result(s, 1, FirstError(checks))
  <2>1. SelfSetTyping(s, n) = Result(s, 1, FirstError(checks))
    BY DEF SelfSetTyping, Checked
  <2>. HIDE DEF checks
  <2>. QED  BY <2>1
<1>3. /\ DOMAIN checks = 1..1 /\ DOMAIN checks \subseteq 1..7
      /\ checks[1][2] = "FRIEND_NOT_FOUND"
  BY DEF NotFound
<1>. HIDE DEF checks
<1>4. \A i \in DOMAIN checks : checks[i][1] => checks[i][2] \in handled
  <2>1. {"FRIEND_NOT_FOUND"} \subseteq handled
    BY <1>1
  <2>. QED  BY <1>3, <2>1
<1>5. FirstError(checks) \in handled \cup {"OK"}
  BY <1>3, <1>4, NamedChecks
<1>6. "OK" \notin handled /\ "assert" \notin handled
  BY <1>1
<1>7. r.error = FirstError(checks)
  BY <1>2 DEF Result
<1>8. o = Call(handled, r)
  BY <1>1, <1>2 DEF toxSelfSetTyping
<1>. QED  BY <1>5, <1>6, <1>7, <1>8, NamedCode

LEMMA PublicKeyAnswers ==
  ASSUME NEW s, NEW n, NEW o, o = toxFriendGetPublicKey(s, n)
  PROVE  Answers(o)
<1>1. PICK handled : handled = {"FRIEND_NOT_FOUND"}
  OBVIOUS
<1>. DEFINE checks == << NotFound(s, n) >>
<1>2. PICK r : r = FriendGetPublicKey(s, n) /\ r = Result(s, s.friends[n], FirstError(checks))
  <2>1. FriendGetPublicKey(s, n) = Result(s, s.friends[n], FirstError(checks))
    BY DEF FriendGetPublicKey, Checked
  <2>. HIDE DEF checks
  <2>. QED  BY <2>1
<1>3. /\ DOMAIN checks = 1..1 /\ DOMAIN checks \subseteq 1..7
      /\ checks[1][2] = "FRIEND_NOT_FOUND"
  BY DEF NotFound
<1>. HIDE DEF checks
<1>4. \A i \in DOMAIN checks : checks[i][1] => checks[i][2] \in handled
  <2>1. {"FRIEND_NOT_FOUND"} \subseteq handled
    BY <1>1
  <2>. QED  BY <1>3, <2>1
<1>5. FirstError(checks) \in handled \cup {"OK"}
  BY <1>3, <1>4, NamedChecks
<1>6. "OK" \notin handled /\ "assert" \notin handled
  BY <1>1
<1>7. r.error = FirstError(checks)
  BY <1>2 DEF Result
<1>8. o = Call(handled, r)
  BY <1>1, <1>2 DEF toxFriendGetPublicKey
<1>. QED  BY <1>5, <1>6, <1>7, <1>8, NamedCode

LEMMA ByPublicKeyAnswers ==
  ASSUME NEW s, NEW key, key # OddKey, NEW o, o = toxFriendByPublicKey(s, key)
  PROVE  Answers(o)
<1>1. PICK handled : handled = {"NULL", "NOT_FOUND"}
  OBVIOUS
<1>. DEFINE checks == << <<key = None, "NULL">>,
                       <<{n \in Numbers : s.friends[n] = key} = {}, "NOT_FOUND">> >>
<1>. DEFINE found == {n \in Numbers : s.friends[n] = key}
            value == IF found = {} THEN 0 ELSE Min(found)
<1>2. PICK r : r = FriendByPublicKey(s, key) /\ r = Result(s, value, FirstError(checks))
  <2>1. FriendByPublicKey(s, key) = Result(s, value, FirstError(checks))
    BY DEF FriendByPublicKey, Checked
  <2>. HIDE DEF checks
  <2>. QED  BY <2>1
<1>3. /\ DOMAIN checks = 1..2 /\ DOMAIN checks \subseteq 1..7
      /\ checks[1][2] = "NULL"
      /\ checks[2][2] = "NOT_FOUND"
  OBVIOUS
<1>. HIDE DEF checks
<1>4. \A i \in DOMAIN checks : checks[i][1] => checks[i][2] \in handled
  <2>1. {"NULL", "NOT_FOUND"} \subseteq handled
    BY <1>1
  <2>. QED  BY <1>3, <2>1
<1>5. FirstError(checks) \in handled \cup {"OK"}
  BY <1>3, <1>4, NamedChecks
<1>6. "OK" \notin handled /\ "assert" \notin handled
  BY <1>1
<1>7. r.error = FirstError(checks)
  BY <1>2 DEF Result
<1>8. o = Call(handled, r)
  BY <1>1, <1>2 DEF toxFriendByPublicKey
<1>. QED  BY <1>5, <1>6, <1>7, <1>8, NamedCode

LEMMA BootstrapAnswers ==
  ASSUME NEW s, NEW address, NEW port, NEW key, NEW e,
         NEW o, o = toxBootstrapLike(s, address, port, key, e)
  PROVE  Answers(o)
<1>1. PICK handled : handled = {"NULL", "BAD_ADDRESS", "BAD_PORT"}
  OBVIOUS
<1>. DEFINE checks == << <<address = None \/ key = None, "NULL">>,
                       <<port = 0, "BAD_PORT">>,
                       <<~e.accepts, "BAD_ADDRESS">> >>
<1>2. PICK r : r = Bootstrap(s, address, port, key, e) /\ r = Result(s, 1, FirstError(checks))
  <2>1. Bootstrap(s, address, port, key, e) = Result(s, 1, FirstError(checks))
    BY DEF Bootstrap, Checked
  <2>. HIDE DEF checks
  <2>. QED  BY <2>1
<1>3. /\ DOMAIN checks = 1..3 /\ DOMAIN checks \subseteq 1..7
      /\ checks[1][2] = "NULL"
      /\ checks[2][2] = "BAD_PORT"
      /\ checks[3][2] = "BAD_ADDRESS"
  OBVIOUS
<1>. HIDE DEF checks
<1>4. \A i \in DOMAIN checks : checks[i][1] => checks[i][2] \in handled
  <2>1. {"NULL", "BAD_PORT", "BAD_ADDRESS"} \subseteq handled
    BY <1>1
  <2>. QED  BY <1>3, <2>1
<1>5. FirstError(checks) \in handled \cup {"OK"}
  BY <1>3, <1>4, NamedChecks
<1>6. "OK" \notin handled /\ "assert" \notin handled
  BY <1>1
<1>7. r.error = FirstError(checks)
  BY <1>2 DEF Result
<1>8. o = Call(handled, r)
  BY <1>1, <1>2 DEF toxBootstrapLike
<1>. QED  BY <1>5, <1>6, <1>7, <1>8, NamedCode

LEMMA MessageAnswers ==
  ASSUME NEW s, NEW n, NEW message, NEW e, NEW o, o = toxSendMessage(s, n, message, e)
  PROVE  Answers(o)
<1>1. PICK handled : handled = send_message
  OBVIOUS
<1>. DEFINE checks == << <<message = None, "NULL">>,
                       <<Length(message) = 0, "EMPTY">>,
                       <<Length(message) > MaxLength, "TOO_LONG">>,
                       NotFound(s, n),
                       NotConnected(s, n, e),
                       <<~e.accepts, "SENDQ">> >>
<1>2. PICK r : r = SendSomething(s, n, message, e) /\ r = Result(s, 1, FirstError(checks))
  <2>1. SendSomething(s, n, message, e) = Result(s, 1, FirstError(checks))
    BY DEF SendSomething, Checked
  <2>. HIDE DEF checks
  <2>. QED  BY <2>1
<1>3. /\ DOMAIN checks = 1..6 /\ DOMAIN checks \subseteq 1..7
      /\ checks[1][2] = "NULL"
      /\ checks[2][2] = "EMPTY"
      /\ checks[3][2] = "TOO_LONG"
      /\ checks[4][2] = "FRIEND_NOT_FOUND"
      /\ checks[5][2] = "FRIEND_NOT_CONNECTED"
      /\ checks[6][2] = "SENDQ"
  BY DEF NotFound, NotConnected
<1>. HIDE DEF checks
<1>4. \A i \in DOMAIN checks : checks[i][1] => checks[i][2] \in handled
  <2>1. {"NULL", "EMPTY", "TOO_LONG",
         "FRIEND_NOT_FOUND", "FRIEND_NOT_CONNECTED", "SENDQ"} \subseteq handled
    BY <1>1 DEF send_message
  <2>. QED  BY <1>3, <2>1
<1>5. FirstError(checks) \in handled \cup {"OK"}
  BY <1>3, <1>4, NamedChecks
<1>6. "OK" \notin handled /\ "assert" \notin handled
  BY <1>1 DEF send_message
<1>7. r.error = FirstError(checks)
  BY <1>2 DEF Result
<1>8. o = Call(handled, r)
  BY <1>1, <1>2 DEF toxSendMessage
<1>. QED  BY <1>5, <1>6, <1>7, <1>8, NamedCode

LEMMA PacketAnswers ==
  ASSUME NEW s, NEW n, NEW e, NEW o, o = toxSendPacket(s, n, e)
  PROVE  Answers(o)
<1>1. PICK handled : handled = send_custom_packet
  OBVIOUS
<1>. DEFINE checks == << NotFound(s, n),
                       NotConnected(s, n, e),
                       <<~e.accepts, "SENDQ">> >>
<1>2. PICK r : r = SendCustomPacket(s, n, e) /\ r = Result(s, 1, FirstError(checks))
  <2>1. SendCustomPacket(s, n, e) = Result(s, 1, FirstError(checks))
    BY DEF SendCustomPacket, Checked
  <2>. HIDE DEF checks
  <2>. QED  BY <2>1
<1>3. /\ DOMAIN checks = 1..3 /\ DOMAIN checks \subseteq 1..7
      /\ checks[1][2] = "FRIEND_NOT_FOUND"
      /\ checks[2][2] = "FRIEND_NOT_CONNECTED"
      /\ checks[3][2] = "SENDQ"
  BY DEF NotFound, NotConnected
<1>. HIDE DEF checks
<1>4. \A i \in DOMAIN checks : checks[i][1] => checks[i][2] \in handled
  <2>1. {"FRIEND_NOT_FOUND", "FRIEND_NOT_CONNECTED", "SENDQ"} \subseteq handled
    BY <1>1 DEF send_custom_packet
  <2>. QED  BY <1>3, <2>1
<1>5. FirstError(checks) \in handled \cup {"OK"}
  BY <1>3, <1>4, NamedChecks
<1>6. "OK" \notin handled /\ "assert" \notin handled
  BY <1>1 DEF send_custom_packet
<1>7. r.error = FirstError(checks)
  BY <1>2 DEF Result
<1>8. o = Call(handled, r)
  BY <1>1, <1>2 DEF toxSendPacket
<1>. QED  BY <1>5, <1>6, <1>7, <1>8, NamedCode

\* Pausing asserts only that toxcore takes the control.
LEMMA FileControlAnswers ==
  ASSUME NEW s, NEW n, NEW transfer, NEW control, NEW e, e.accepts,
         NEW o, o = toxFileControl(s, n, transfer, control, e)
  PROVE  Answers(o)
<1>1. PICK handled :
        handled = {"FRIEND_NOT_FOUND", "FRIEND_NOT_CONNECTED", "NOT_FOUND", "NOT_PAUSED",
                   "DENIED", "ALREADY_PAUSED"}
  OBVIOUS
<1>. DEFINE checks == << NotFound(s, n),
                       NotConnected(s, n, e),
                       <<transfer = None, "NOT_FOUND">>,
                       <<control = "PAUSE" /\ Paused(transfer), "ALREADY_PAUSED">>,
                       <<control = "PAUSE" /\ ~e.accepts, "assert">>,
                       <<control = "RESUME" /\ ~Paused(transfer), "NOT_PAUSED">>,
                       <<control = "RESUME" /\ Denied(transfer), "DENIED">> >>
<1>2. PICK r : r = FileControl(s, n, transfer, control, e) /\ r = Result(s, 1, FirstError(checks))
  <2>1. FileControl(s, n, transfer, control, e) = Result(s, 1, FirstError(checks))
    BY DEF FileControl, Checked
  <2>. HIDE DEF checks
  <2>. QED  BY <2>1
<1>3. /\ DOMAIN checks = 1..7 /\ DOMAIN checks \subseteq 1..7
      /\ checks[1][2] = "FRIEND_NOT_FOUND"
      /\ checks[2][2] = "FRIEND_NOT_CONNECTED"
      /\ checks[3][2] = "NOT_FOUND"
      /\ checks[4][2] = "ALREADY_PAUSED"
      /\ checks[5][2] = "assert" /\ ~checks[5][1]
      /\ checks[6][2] = "NOT_PAUSED"
      /\ checks[7][2] = "DENIED"
  <2>1. /\ DOMAIN checks = 1..7 /\ DOMAIN checks \subseteq 1..7
        /\ checks[1][2] = "FRIEND_NOT_FOUND"
        /\ checks[2][2] = "FRIEND_NOT_CONNECTED"
        /\ checks[3][2] = "NOT_FOUND"
        /\ checks[4][2] = "ALREADY_PAUSED"
        /\ checks[5][2] = "assert"
        /\ checks[6][2] = "NOT_PAUSED"
        /\ checks[7][2] = "DENIED"
    BY DEF NotFound, NotConnected
  <2>2. ~checks[5][1]
    OBVIOUS
  <2>. HIDE DEF checks
  <2>. QED  BY <2>1, <2>2
<1>. HIDE DEF checks
<1>4. \A i \in DOMAIN checks : checks[i][1] => checks[i][2] \in handled
  <2>1. {"FRIEND_NOT_FOUND", "FRIEND_NOT_CONNECTED", "NOT_FOUND",
         "ALREADY_PAUSED", "NOT_PAUSED", "DENIED"} \subseteq handled
    BY <1>1
  <2>. QED  BY <1>3, <2>1
<1>5. FirstError(checks) \in handled \cup {"OK"}
  BY <1>3, <1>4, NamedChecks
<1>6. "OK" \notin handled /\ "assert" \notin handled
  BY <1>1
<1>7. r.error = FirstError(checks)
  BY <1>2 DEF Result
<1>8. o = Call(handled, r)
  BY <1>1, <1>2 DEF toxFileControl
<1>. QED  BY <1>5, <1>6, <1>7, <1>8, NamedCode

LEMMA FileSendAnswers ==
  ASSUME NEW s, NEW n, NEW kind, NEW filename, NEW e,
         NEW o, o = toxFileSend(s, n, kind, filename, e)
  PROVE  Answers(o)
<1>1. PICK handled :
        handled = {"NULL", "FRIEND_NOT_FOUND", "FRIEND_NOT_CONNECTED", "NAME_EMPTY",
                   "NAME_TOO_LONG", "TOO_MANY"}
  OBVIOUS
<1>. DEFINE checks == << <<Length(filename) > MaxLength, "NAME_TOO_LONG">>,
                       <<Length(filename) = 0 /\ kind # "AVATAR", "NAME_EMPTY">>,
                       <<filename = None /\ kind # "AVATAR", "NULL">>,
                       NotFound(s, n),
                       NotConnected(s, n, e),
                       <<~e.accepts, "TOO_MANY">> >>
<1>2. PICK r : r = FileSend(s, n, kind, filename, e) /\ r = Result(s, 0, FirstError(checks))
  <2>1. FileSend(s, n, kind, filename, e) = Result(s, 0, FirstError(checks))
    BY DEF FileSend, Checked
  <2>. HIDE DEF checks
  <2>. QED  BY <2>1
<1>3. /\ DOMAIN checks = 1..6 /\ DOMAIN checks \subseteq 1..7
      /\ checks[1][2] = "NAME_TOO_LONG"
      /\ checks[2][2] = "NAME_EMPTY"
      /\ checks[3][2] = "NULL"
      /\ checks[4][2] = "FRIEND_NOT_FOUND"
      /\ checks[5][2] = "FRIEND_NOT_CONNECTED"
      /\ checks[6][2] = "TOO_MANY"
  BY DEF NotFound, NotConnected
<1>. HIDE DEF checks
<1>4. \A i \in DOMAIN checks : checks[i][1] => checks[i][2] \in handled
  <2>1. {"NAME_TOO_LONG", "NAME_EMPTY", "NULL",
         "FRIEND_NOT_FOUND", "FRIEND_NOT_CONNECTED", "TOO_MANY"} \subseteq handled
    BY <1>1
  <2>. QED  BY <1>3, <2>1
<1>5. FirstError(checks) \in handled \cup {"OK"}
  BY <1>3, <1>4, NamedChecks
<1>6. "OK" \notin handled /\ "assert" \notin handled
  BY <1>1
<1>7. r.error = FirstError(checks)
  BY <1>2 DEF Result
<1>8. o = Call(handled, r)
  BY <1>1, <1>2 DEF toxFileSend
<1>. QED  BY <1>5, <1>6, <1>7, <1>8, NamedCode

\* A chunk that is neither empty nor too large asserts nothing, and the code that the Java
\* enumeration lacks is that of the chunks too large.
LEMMA ChunkAnswers ==
  ASSUME NEW s, NEW n, NEW transfer, NEW a, NEW e, e.accepts,
         a = Repeated(MaxLength),
         NEW o, o = toxFileSendChunk(s, n, transfer, a, e)
  PROVE  Answers(o)
<1>1. PICK codes, handled :
        codes = FileSendChunkCode /\ handled = FileSendChunkCode \cup {"TOO_LARGE"}
  OBVIOUS
<1>2. Length(a) # 0 /\ ~(Length(a) > MaxLength)
  <2>1. MaxLength \in Nat \ {0}
    BY NewToxAssumption
  <2>2. Len(a) = MaxLength
    BY <2>1 DEF Repeated
  <2>3. a \in Seq({0, 1})
    BY <2>1 DEF Repeated
  <2>4. a # None
    BY <2>3, CoreCallsAssumption
  <2>. QED  BY <2>1, <2>2, <2>4 DEF Length
<1>. DEFINE checks == << <<Length(a) = 0, "assert">>, <<Length(a) > MaxLength, "TOO_LARGE">>,
                         <<Length(a) # 0 /\ a = None, "NULL">>,
                         NotFound(s, n), NotConnected(s, n, e),
                         <<transfer = None, "NOT_FOUND">>, <<~e.accepts, "assert">> >>
<1>3. PICK r : r = FileSendChunk(s, n, transfer, a, e) /\ r = Result(s, 1, FirstError(checks))
  <2>1. FileSendChunk(s, n, transfer, a, e) = Result(s, 1, FirstError(checks))
    BY DEF FileSendChunk, Checked
  <2>. HIDE DEF checks
  <2>. QED  BY <2>1
<1>4. /\ DOMAIN checks = 1..7
      /\ ~checks[1][1] /\ ~checks[2][1] /\ ~checks[7][1]
      /\ checks[3][2] = "NULL" /\ checks[4][2] = "FRIEND_NOT_FOUND"
      /\ checks[5][2] = "FRIEND_NOT_CONNECTED" /\ checks[6][2] = "NOT_FOUND"
  <2>1. ~checks[1][1] /\ ~checks[2][1]
    BY <1>2
  <2>2. ~checks[7][1]
    OBVIOUS
  <2>3. DOMAIN checks = 1..7 /\ checks[3][2] = "NULL" /\ checks[6][2] = "NOT_FOUND"
    OBVIOUS
  <2>4. checks[4][2] = "FRIEND_NOT_FOUND" /\ checks[5][2] = "FRIEND_NOT_CONNECTED"
    BY DEF NotFound, NotConnected
  <2>. HIDE DEF checks
  <2>. QED  BY <2>1, <2>2, <2>3, <2>4
<1>. HIDE DEF checks
<1>5. \A i \in DOMAIN checks : checks[i][1] => checks[i][2] \in codes
  <2>1. {"NULL", "FRIEND_NOT_FOUND", "FRIEND_NOT_CONNECTED", "NOT_FOUND"} \subseteq codes
    BY <1>1 DEF FileSendChunkCode
  <2>. QED  BY <1>4, <2>1
<1>6. PICK error : error = r.error /\ error \in codes \cup {"OK"}
  <2>1. r.error = FirstError(checks)
    BY <1>3 DEF Result
  <2>2. FirstError(checks) \in codes \cup {"OK"}
    BY <1>4, <1>5, NamedChecks
  <2>. QED  BY <2>1, <2>2
<1>7. o = with_error_handling(handled, codes, r)
  BY <1>1, <1>3 DEF toxFileSendChunk
<1>8. error # "assert" /\ "OK" \notin handled /\ codes \subseteq handled
  BY <1>1, <1>6 DEF FileSendChunkCode
<1>9. CASE error = "OK"
  <2>1. Handle(handled, error) = "SUCCESS"
    BY <1>8, <1>9 DEF Handle
  <2>2. o.outcome = "returns"
    BY <1>6, <1>7, <1>8, <2>1 DEF with_error_handling
  <2>. QED  BY <2>2 DEF Answers
<1>10. CASE error \in codes
  <2>1. Handle(handled, error) = "FAILURE"
    <3>1. error # "OK" /\ error \in handled
      BY <1>8, <1>10
    <3>. QED  BY <3>1 DEF Handle
  <2>2. throw_tox_exception(codes, error) = "throws"
    BY <1>10 DEF throw_tox_exception
  <2>3. o.outcome = "throws"
    BY <1>6, <1>7, <1>8, <2>1, <2>2 DEF with_error_handling
  <2>. QED  BY <2>3 DEF Answers
<1>. QED  BY <1>6, <1>9, <1>10

\* The ports, and the methods that change the core.
LEMMA PortAnswers ==
  ASSUME NEW s, NEW o, o = toxGetUdpPort(s) \/ o = toxGetTcpPort(s)
  PROVE  Answers(o)
<1>1. PICK r : r = GetPort(s)
  OBVIOUS
<1>2. r.error = "NOT_BOUND"
  BY <1>1 DEF GetPort, Result
<1>3. o = Call({"NOT_BOUND"}, r)
  BY <1>1 DEF toxGetUdpPort, toxGetTcpPort
<1>. QED  BY <1>2, <1>3, NamedCode

LEMMA SetterAnswers ==
  ASSUME NEW s \in Instance, NEW a \in Texts,
         NEW o, o = toxSelfSetName(s, a) \/ o = toxSelfSetStatusMessage(s, a)
  PROVE  Answers(o)
<1>1. "OK" \notin set_info /\ "assert" \notin set_info
  BY DEF set_info
<1>2. CASE o = toxSelfSetName(s, a)
  <2>1. PICK r : r = SelfSetName(s, a)
    OBVIOUS
  <2>2. r.error \in {"OK"} \cup set_info
    BY <2>1, SetNameMakes
  <2>3. o = Call(set_info, r)
    BY <1>2, <2>1 DEF toxSelfSetName
  <2>. QED  BY <1>1, <2>2, <2>3, NamedCode
<1>3. CASE o = toxSelfSetStatusMessage(s, a)
  <2>1. PICK r : r = SelfSetStatusMessage(s, a)
    OBVIOUS
  <2>2. r.error \in {"OK"} \cup set_info
    BY <2>1, SetStatusMessageMakes
  <2>3. o = Call(set_info, r)
    BY <1>3, <2>1 DEF toxSelfSetStatusMessage
  <2>. QED  BY <1>1, <2>2, <2>3, NamedCode
<1>. QED  BY <1>2, <1>3

LEMMA AddAnswersJava ==
  ASSUME NEW s \in Instance, NEW key \in AddressKeys, NEW message, NEW r, NEW o,
         \/ /\ r \in AddRequestResults(s, key, Length(message))
            /\ o = toxFriendAdd(s, key, message, r)
         \/ /\ key # None /\ r \in AddResults(s, key)
            /\ o = toxFriendAddNorequest(s, key, r)
  PROVE  Answers(o)
<1>1. PICK x : /\ o = Call(friend_add, x)
               /\ \/ x = Result(s, 0, "NULL")
                  \/ /\ x = Added(s, key, r) /\ key # None
                     /\ r \in AddResults(s, key) \/ r.code \in {"TOOLONG", "NOMESSAGE"}
  <2>1. CASE /\ r \in AddRequestResults(s, key, Length(message))
             /\ o = toxFriendAdd(s, key, message, r)
    <3>1. PICK x : x = FriendAdd(s, key, message, r)
      OBVIOUS
    <3>2. o = Call(friend_add, x)
      BY <2>1, <3>1 DEF toxFriendAdd
    <3>3. r \in AddResults(s, key) \/ r.code \in {"TOOLONG", "NOMESSAGE"}
      BY <2>1, RequestAnswers
    <3>4. \/ x = Result(s, 0, "NULL")
          \/ x = Added(s, key, r) /\ key # None
      BY <3>1 DEF FriendAdd
    <3>. QED  BY <3>2, <3>3, <3>4
  <2>2. CASE key # None /\ r \in AddResults(s, key) /\ o = toxFriendAddNorequest(s, key, r)
    <3>1. PICK x : x = FriendAddNorequest(s, key, r)
      OBVIOUS
    <3>2. o = Call(friend_add, x)
      BY <2>2, <3>1 DEF toxFriendAddNorequest
    <3>3. x = Added(s, key, r)
      BY <2>2, <3>1 DEF FriendAddNorequest
    <3>. QED  BY <2>2, <3>2, <3>3
  <2>. QED  BY <2>1, <2>2
<1>2. "OK" \notin friend_add /\ "assert" \notin friend_add /\ "NULL" \in friend_add
  BY DEF friend_add
<1>3. x.error \in friend_add \cup {"OK"}
  <2>1. CASE x = Result(s, 0, "NULL")
    <3>1. x.error = "NULL"
      BY <2>1 DEF Result
    <3>. QED  BY <1>2, <3>1
  <2>2. CASE /\ x = Added(s, key, r) /\ key # None
             /\ r \in AddResults(s, key) \/ r.code \in {"TOOLONG", "NOMESSAGE"}
    <3>1. \/ x.error \in friend_add /\ x.tox = s
          \/ /\ x.error = "OK" /\ x.value \in Numbers \ FriendList(s)
             /\ x.tox.friends = [s.friends EXCEPT ![x.value] = key]
             /\ x.tox.handlers = s.handlers \cup {x.value}
      BY <2>2, AddedMakes
    <3>. QED  BY <3>1
  <2>. QED  BY <1>1, <2>1, <2>2
<1>. QED  BY <1>1, <1>2, <1>3, NamedCode

LEMMA DeleteAnswers ==
  ASSUME NEW s \in Instance, NEW n \in Numbers, NEW o, o = toxFriendDelete(s, n)
  PROVE  Answers(o)
<1>1. PICK x : x = FriendDelete(s, n)
  OBVIOUS
<1>2. x.error \in {"FRIEND_NOT_FOUND"} \cup {"OK"}
  <2>1. /\ x.tox \in Instance
        /\ x.error = IF s.friends[n] # None THEN "OK" ELSE "FRIEND_NOT_FOUND"
        /\ x.tox.friends = [s.friends EXCEPT ![n] = None]
    BY <1>1, DeleteMakes
  <2>. QED  BY <2>1
<1>3. o = Call({"FRIEND_NOT_FOUND"}, x)
  BY <1>1 DEF toxFriendDelete
<1>. QED  BY <1>2, <1>3, NamedCode

\* Whatever the client calls, it gets an answer or the exception of the method, as long as
\* it does not do what the code asserts it does not: pass no key or one of another length,
\* send an empty or oversized chunk, or pause and send while toxcore refuses.
THEOREM EveryCodeReachesJava ==
  ASSUME Allowed \subseteq {"bad-save", "zero-byte"}
  PROVE  Spec => []CodesReachJava
<1>1. /\ "odd-key" \notin Allowed /\ "null-key" \notin Allowed /\ "busy" \notin Allowed
      /\ "oversized-chunk" \notin Allowed /\ "empty-chunk" \notin Allowed
  OBVIOUS
<1>2. CallsInv => CodesReachJava
  <2>. SUFFICES ASSUME CallsInv, tox # None, NEW o \in Queries \cup Changes  PROVE Answers(o)
    BY DEF CodesReachJava, Answers
  <2>1. tox \in Instance
    BY DEF CallsInv, TypeOK
  <2>2. CASE o \in Queries
    <3>1. ASSUME NEW key \in Keys \cup {None}, o = toxFriendByPublicKey(tox, key)
          PROVE  Answers(o)
      <4>1. key # OddKey
        BY CoreCallsAssumption
      <4>. QED  BY <3>1, <4>1, ByPublicKeyAnswers
    <3>2. ASSUME NEW n \in Numbers, NEW t \in Transfers, NEW e \in Accepting, NEW a \in Chunks,
                 o = toxFileSendChunk(tox, n, t, a, e)
          PROVE  Answers(o)
      <4>1. a = Repeated(MaxLength) /\ e.accepts
        BY <1>1 DEF Chunks, Accepting, May
      <4>. QED  BY <3>2, <4>1, ChunkAnswers
    <3>3. ASSUME NEW n \in Numbers, NEW t \in Transfers, NEW e \in Accepting,
                 NEW c \in {"RESUME", "PAUSE", "CANCEL"}, o = toxFileControl(tox, n, t, c, e)
          PROVE  Answers(o)
      <4>1. e.accepts
        BY <1>1 DEF Accepting, May
      <4>. QED  BY <3>3, <4>1, FileControlAnswers
    <3>4. ASSUME NEW n \in Numbers,
                 \/ o \in {toxFriendGetPublicKey(tox, n), toxSelfSetTyping(tox, n)}
                 \/ o \in {toxSendMessage(tox, n, a, e) : a \in Texts, e \in Environment}
                 \/ o \in {toxSendPacket(tox, n, e) : e \in Environment}
                 \/ o \in {toxFileControl(tox, n, t, c, e) :
                             t \in Transfers, c \in {"RESUME", "PAUSE", "CANCEL"}, e \in Accepting}
                 \/ o \in {toxFileSend(tox, n, k, a, e) :
                             k \in {"AVATAR", "DATA"}, a \in Texts, e \in Environment}
                 \/ o \in {toxFileSendChunk(tox, n, t, a, e) :
                             t \in Transfers, a \in Chunks, e \in Accepting}
          PROVE  Answers(o)
      <4>1. CASE o \in {toxFriendGetPublicKey(tox, n), toxSelfSetTyping(tox, n)}
        BY <4>1, PublicKeyAnswers, TypingAnswers
      <4>2. CASE o \in {toxSendMessage(tox, n, a, e) : a \in Texts, e \in Environment}
        BY <4>2, MessageAnswers
      <4>3. CASE o \in {toxSendPacket(tox, n, e) : e \in Environment}
        BY <4>3, PacketAnswers
      <4>4. CASE o \in {toxFileControl(tox, n, t, c, e) :
                          t \in Transfers, c \in {"RESUME", "PAUSE", "CANCEL"}, e \in Accepting}
        BY <3>3, <4>4
      <4>5. CASE o \in {toxFileSend(tox, n, k, a, e) :
                          k \in {"AVATAR", "DATA"}, a \in Texts, e \in Environment}
        BY <4>5, FileSendAnswers
      <4>6. CASE o \in {toxFileSendChunk(tox, n, t, a, e) :
                          t \in Transfers, a \in Chunks, e \in Accepting}
        BY <3>2, <4>6
      <4>. QED  BY <3>4, <4>1, <4>2, <4>3, <4>4, <4>5, <4>6
    <3>5. ASSUME o \in {toxGetUdpPort(tox), toxGetTcpPort(tox)}  PROVE Answers(o)
      BY <3>5, PortAnswers
    <3>6. ASSUME o \in {toxBootstrapLike(tox, a, p, k, e) :
                          a \in {None, "host"}, p \in {0, 1}, k \in {None, OwnKey},
                          e \in Environment}
          PROVE  Answers(o)
      BY <3>6, BootstrapAnswers
    <3>7. \/ o \in {toxFriendByPublicKey(tox, key) : key \in Keys \cup {None}}
          \/ o \in {toxGetUdpPort(tox), toxGetTcpPort(tox)}
          \/ o \in {toxBootstrapLike(tox, a, p, k, e) :
                      a \in {None, "host"}, p \in {0, 1}, k \in {None, OwnKey}, e \in Environment}
          \/ \E n \in Numbers :
               \/ o \in {toxFriendGetPublicKey(tox, n), toxSelfSetTyping(tox, n)}
               \/ o \in {toxSendMessage(tox, n, a, e) : a \in Texts, e \in Environment}
               \/ o \in {toxSendPacket(tox, n, e) : e \in Environment}
               \/ o \in {toxFileControl(tox, n, t, c, e) :
                           t \in Transfers, c \in {"RESUME", "PAUSE", "CANCEL"}, e \in Accepting}
               \/ o \in {toxFileSend(tox, n, k, a, e) :
                           k \in {"AVATAR", "DATA"}, a \in Texts, e \in Environment}
               \/ o \in {toxFileSendChunk(tox, n, t, a, e) :
                           t \in Transfers, a \in Chunks, e \in Accepting}
      <4>1. Keys \cup {None} \cup May("odd-key", {OddKey}) = Keys \cup {None}
        BY <1>1 DEF May
      <4>. QED  BY <2>2, <4>1 DEF Queries
    <3>. QED  BY <3>1, <3>4, <3>5, <3>6, <3>7
  <2>3. CASE o \in Changes
    <3>1. \/ \E a \in Texts : o = toxSelfSetName(tox, a) \/ o = toxSelfSetStatusMessage(tox, a)
          \/ \E n \in Numbers : o = toxFriendDelete(tox, n)
          \/ \E key \in AddressKeys, a \in Texts :
               \E r \in AddRequestResults(tox, key, Length(a)) : o = toxFriendAdd(tox, key, a, r)
          \/ \E key \in AddressKeys \ {None} :
               \E r \in AddResults(tox, key) : o = toxFriendAddNorequest(tox, key, r)
      BY <1>1, <2>3 DEF Changes
    <3>2. CASE \E a \in Texts : o = toxSelfSetName(tox, a) \/ o = toxSelfSetStatusMessage(tox, a)
      BY <2>1, <3>2, SetterAnswers
    <3>3. CASE \E n \in Numbers : o = toxFriendDelete(tox, n)
      BY <2>1, <3>3, DeleteAnswers
    <3>4. CASE \E key \in AddressKeys, a \in Texts :
                 \E r \in AddRequestResults(tox, key, Length(a)) : o = toxFriendAdd(tox, key, a, r)
      BY <2>1, <3>4, AddAnswersJava
    <3>5. CASE \E key \in AddressKeys \ {None} :
                 \E r \in AddResults(tox, key) : o = toxFriendAddNorequest(tox, key, r)
      BY <2>1, <3>5, AddAnswersJava
    <3>. QED  BY <3>1, <3>2, <3>3, <3>4, <3>5
  <2>. QED  BY <2>2, <2>3
<1>. QED  BY <1>2, AlwaysCalls, PTL
=============================================================================
