---------------------------- MODULE AvCallsProofs ----------------------------
(***************************************************************************)
(* Theorems about AvCalls, for any friends, call indices and defaults.     *)
(***************************************************************************)
EXTENDS AvCalls, TLAPS

Phases   == {"free", "calling", "ringing", "invited", "answered", "active"}
Sessions ==
  [friends : [Indices -> Friends \cup {None}], calls : [Friends -> Calls \cup {None}],
   asked : [Friends -> [Kinds -> Nat]], aborted : BOOLEAN]

\* The two maps against toxcore's calls: every call of toxcore is in the first,
\* and what that gives is in the second, from where its index leads back.  An
\* index that does not was invited by a friend there was a call with.
Mapped(s, ph) ==
  /\ \A i \in Indices : ph[i] = "free" <=> s.friends[i] = None
  /\ \A i \in Indices : s.friends[i] # None =>
       /\ s.calls[s.friends[i]] # None
       /\ s.calls[s.friends[i]].index # i => ph[i] = "invited"
  /\ \A f \in Friends : s.calls[f] # None => s.friends[s.calls[f].index] = f

\* The state of a call follows toxcore's.
Followed(s, ph) ==
  \A f \in Friends : s.calls[f] # None =>
    LET at == ph[s.calls[f].index]
    IN /\ at \in {"calling", "invited", "answered"} => s.calls[f].state = "END"
       /\ at = "ringing" => s.calls[f].state = "RINGING"
       /\ at = "active" => s.calls[f].state \in {"SENDING_NONE", "SENDING_A", "SENDING_AV"}

\* RequestsPending, of a session.
Requested(s) ==
  \A f \in Friends, k \in Kinds :
    /\ s.asked[f][k] = IF s.calls[f] # None /\ s.calls[f].pending[k] THEN 1 ELSE 0
    /\ s.calls[f] # None /\ s.calls[f].pending[k] =>
         /\ s.calls[f].state \in {"SENDING_A", "SENDING_AV"}
         /\ k = "video" => s.calls[f].state = "SENDING_AV"

Sound(s, ph) == Mapped(s, ph) /\ Followed(s, ph) /\ Requested(s)

\* What the usual client and its friends keep up: one call with each friend, and
\* the settings of a call that sends sound.
Regular(s, ph) ==
  /\ ~s.aborted
  /\ \A i \in Indices : s.friends[i] # None => s.calls[s.friends[i]].index = i
  /\ \A f \in Friends : s.calls[f] # None /\ ph[s.calls[f].index] # "invited" =>
       s.calls[f].settings.audio = Voice

AvInv ==
  /\ Session \in Sessions
  /\ phase \in [Indices -> Phases]
  /\ usual \in BOOLEAN
  /\ ~aborted => Sound(Session, phase)
  /\ usual => Regular(Session, phase)

-----------------------------------------------------------------------------
(* What each operation does to a sound session. *)

\* A call with a friend there is none with: toxAvCall, or the first invitation.
LEMMA NewCallSound ==
  ASSUME NEW s \in Sessions, NEW ph \in [Indices -> Phases], Sound(s, ph), ~s.aborted,
         NEW i \in Indices, NEW f \in Friends, ph[i] = "free", s.calls[f] = None,
         NEW c \in Calls, c.index = i, c.state = "END", \A k \in Kinds : ~c.pending[k],
         NEW stage \in {"calling", "invited"}
  PROVE  LET r  == [s EXCEPT !.friends[i] = f, !.calls[f] = c]
             qh == [ph EXCEPT ![i] = stage]
         IN /\ r \in Sessions /\ ~r.aborted /\ Sound(r, qh)
            /\ Regular(s, ph) /\ (stage = "invited" \/ c.settings.audio = Voice) => Regular(r, qh)
<1> DEFINE r  == [s EXCEPT !.friends[i] = f, !.calls[f] = c]
           qh == [ph EXCEPT ![i] = stage]
<1>1. s.friends[i] = None /\ c # None
  BY NoneIsNoCall DEF Sound, Mapped
<1>2. /\ r.friends[i] = f /\ \A j \in Indices \ {i} : r.friends[j] = s.friends[j]
      /\ r.calls[f] = c /\ \A g \in Friends \ {f} : r.calls[g] = s.calls[g]
      /\ r.asked = s.asked /\ r.aborted = s.aborted
  BY DEF Sessions
<1>3. r \in Sessions
  BY DEF Sessions
<1>4. qh[i] = stage /\ \A j \in Indices \ {i} : qh[j] = ph[j]
  OBVIOUS
<1>5. /\ \A g \in Friends : s.calls[g] # None => s.calls[g].index \in Indices \ {i}
      /\ \A j \in Indices : s.friends[j] # None => s.friends[j] \in Friends \ {f}
  BY <1>1, AvCallsAssumption DEF Sound, Mapped, Calls, Sessions
<1> HIDE DEF r, qh
<1>6. Mapped(r, qh)
  BY <1>1, <1>2, <1>4, <1>5, AvCallsAssumption DEF Sound, Mapped
<1>7. Followed(r, qh)
  BY <1>1, <1>2, <1>4, <1>5 DEF Sound, Followed
<1>8. Requested(r)
  BY <1>1, <1>2 DEF Sound, Requested
<1>9. Regular(s, ph) /\ (stage = "invited" \/ c.settings.audio = Voice) => Regular(r, qh)
  BY <1>1, <1>2, <1>4, <1>5 DEF Regular
<1>10. QED BY <1>2, <1>3, <1>6, <1>7, <1>8, <1>9 DEF Sound, r, qh

\* An invitation by a friend there is a call with enters one map only.
LEMMA SecondInviteSound ==
  ASSUME NEW s \in Sessions, NEW ph \in [Indices -> Phases], Sound(s, ph), ~s.aborted,
         NEW i \in Indices, NEW f \in Friends, ph[i] = "free", s.calls[f] # None
  PROVE  LET r  == [s EXCEPT !.friends[i] = f]
         IN r \in Sessions /\ ~r.aborted /\ Sound(r, [ph EXCEPT ![i] = "invited"])
<1> DEFINE r  == [s EXCEPT !.friends[i] = f]
           qh == [ph EXCEPT ![i] = "invited"]
<1>1. s.friends[i] = None
  BY DEF Sound, Mapped
<1>2. /\ r.friends[i] = f /\ \A j \in Indices \ {i} : r.friends[j] = s.friends[j]
      /\ r.calls = s.calls /\ r.asked = s.asked /\ r.aborted = s.aborted
  BY DEF Sessions
<1>3. r \in Sessions
  BY DEF Sessions
<1>4. qh[i] = "invited" /\ \A j \in Indices \ {i} : qh[j] = ph[j]
  OBVIOUS
<1>5. \A g \in Friends : s.calls[g] # None => s.calls[g].index \in Indices \ {i}
  BY <1>1, AvCallsAssumption DEF Sound, Mapped, Calls, Sessions
<1> HIDE DEF r, qh
<1>6. Mapped(r, qh)
  BY <1>2, <1>4, <1>5, AvCallsAssumption DEF Sound, Mapped
<1>7. Followed(r, qh)
  BY <1>2, <1>4, <1>5 DEF Sound, Followed
<1>8. Requested(r)
  BY <1>2 DEF Sound, Requested
<1>9. QED BY <1>2, <1>3, <1>6, <1>7, <1>8 DEF Sound, r, qh

\* A call whose index has another phase than "invited" is the one its index gives.
LEMMA IndexLeadsBack ==
  ASSUME NEW s \in Sessions, NEW ph \in [Indices -> Phases], Sound(s, ph),
         NEW i \in Indices, ph[i] \notin {"free", "invited"}
  PROVE  /\ s.friends[i] \in Friends /\ s.calls[s.friends[i]] \in Calls
         /\ s.calls[s.friends[i]] # None /\ s.calls[s.friends[i]].index = i
         /\ \A g \in Friends \ {s.friends[i]} :
              s.calls[g] # None => s.calls[g].index \in Indices \ {i}
         /\ \A j \in Indices \ {i} : s.friends[j] = s.friends[i] => ph[j] = "invited"
BY AvCallsAssumption, NoneIsNoCall DEF Sessions, Sound, Mapped, Calls

\* The session once the call of index i has another state.
WithState(s, i, state) == [s EXCEPT !.calls[s.friends[i]].state = state]

\* A call that changes its state and its index's phase together.
LEMMA ProgressSound ==
  ASSUME NEW s \in Sessions, NEW ph \in [Indices -> Phases], Sound(s, ph), ~s.aborted,
         NEW i \in Indices, ph[i] \in {"calling", "ringing", "answered"},
         NEW state, NEW stage,
         \/ stage = "ringing" /\ state = "RINGING"
         \/ stage = "active" /\ state \in {"SENDING_NONE", "SENDING_A", "SENDING_AV"}
  PROVE  LET r  == WithState(s, i, state)
             qh == [ph EXCEPT ![i] = stage]
         IN /\ r \in Sessions /\ ~r.aborted /\ Sound(r, qh)
            /\ Regular(s, ph) => Regular(r, qh)
<1> DEFINE f == s.friends[i]
           c == [s.calls[f] EXCEPT !.state = state]
           r == WithState(s, i, state)
           qh == [ph EXCEPT ![i] = stage]
<1>1. /\ f \in Friends /\ s.calls[f] \in Calls /\ s.calls[f] # None /\ s.calls[f].index = i
      /\ \A g \in Friends \ {f} : s.calls[g] # None => s.calls[g].index \in Indices \ {i}
      /\ \A j \in Indices \ {i} : s.friends[j] = f => ph[j] = "invited"
  BY IndexLeadsBack
<1>2. /\ c \in Calls /\ c # None /\ c.index = i /\ c.state = state
      /\ c.pending = s.calls[f].pending /\ c.settings = s.calls[f].settings
  BY <1>1, NoneIsNoCall DEF Calls, CallStates
<1>3. r = [s EXCEPT !.calls = [s.calls EXCEPT ![f] = c]]
  BY DEF WithState
<1>4. /\ r.friends = s.friends /\ r.asked = s.asked /\ r.aborted = s.aborted
      /\ r.calls = [s.calls EXCEPT ![f] = c]
  BY <1>3 DEF Sessions
<1>5. [s.calls EXCEPT ![f] = c] \in [Friends -> Calls \cup {None}]
  BY <1>1, <1>2 DEF Sessions
<1>6. r \in Sessions
  BY <1>3, <1>5 DEF Sessions
<1>7. r.calls[f] = c /\ \A g \in Friends \ {f} : r.calls[g] = s.calls[g]
  BY <1>1, <1>4 DEF Sessions
<1>8. qh[i] = stage /\ \A j \in Indices \ {i} : qh[j] = ph[j]
  OBVIOUS
<1> HIDE DEF f, c, r, qh
<1>9. Mapped(r, qh)
  BY <1>1, <1>2, <1>4, <1>7, <1>8 DEF Sound, Mapped, Sessions, f
<1>10. Followed(r, qh)
  BY <1>1, <1>2, <1>7, <1>8 DEF Sound, Followed
<1>11. \A k \in Kinds : ~s.calls[f].pending[k]
  BY <1>1 DEF Sound, Followed, Requested
<1>12. Requested(r)
  BY <1>1, <1>2, <1>4, <1>7, <1>11 DEF Sound, Requested
<1>13. Regular(s, ph) => Regular(r, qh)
  BY <1>1, <1>2, <1>4, <1>7, <1>8 DEF Regular, Sessions, f
<1>14. QED BY <1>4, <1>6, <1>9, <1>10, <1>12, <1>13 DEF Sound, r, qh

\* The CASE of OnStart, and why its assertion holds.
LEMMA StartProgresses ==
  ASSUME NEW s \in Sessions, NEW ph \in [Indices -> Phases], Sound(s, ph), ~s.aborted,
         NEW i \in Indices, ph[i] \in {"calling", "ringing", "answered"}
  PROVE  \E state \in {"SENDING_NONE", "SENDING_A", "SENDING_AV"} :
           OnStart(s, i) = WithState(s, i, state)
<1> DEFINE c == s.calls[s.friends[i]]
           state == CASE c.settings.call_type = "none"  -> "SENDING_NONE"
                      [] c.settings.call_type = "audio" -> "SENDING_A"
                      [] c.settings.call_type = "video" -> "SENDING_AV"
<1>1. s.friends[i] \in Friends /\ c \in Calls /\ c # None /\ c.index = i
  BY IndexLeadsBack
<1>2. c.settings.call_type \in {"none", "audio", "video"}
  BY <1>1 DEF Calls
<1>3. state \in {"SENDING_NONE", "SENDING_A", "SENDING_AV"}
  BY <1>2
<1>4. c.state \in {"END", "RINGING"}
  BY <1>1 DEF Sound, Followed
<1>5. Known(s, i)
  BY <1>1, AvCallsAssumption DEF Known
<1>6. OnStart(s, i) = WithState(s, i, state)
  BY <1>3, <1>4, <1>5 DEF OnStart, CallOf, WithState
<1>7. QED BY <1>3, <1>6

\* toxAvAnswer
LEMMA SettingsSound ==
  ASSUME NEW s \in Sessions, NEW ph \in [Indices -> Phases], Sound(s, ph), ~s.aborted,
         NEW f \in Friends, s.calls[f] # None, ph[s.calls[f].index] = "invited",
         NEW settings \in [call_type : {"none", "audio", "video"},
                           audio : [rate : Nat, channels : {0, 1}, frame : Nat]]
  PROVE  LET r  == [s EXCEPT !.calls[f].settings = settings]
             qh == [ph EXCEPT ![s.calls[f].index] = "answered"]
         IN /\ r \in Sessions /\ ~r.aborted /\ Sound(r, qh)
            /\ s.calls[f].index \in Indices /\ s.friends[s.calls[f].index] = f
            /\ r.friends = s.friends
            /\ Regular(s, ph) /\ settings.audio = Voice => Regular(r, qh)
<1> DEFINE i == s.calls[f].index
           c == [s.calls[f] EXCEPT !.settings = settings]
           r == [s EXCEPT !.calls[f].settings = settings]
           qh == [ph EXCEPT ![i] = "answered"]
<1>1. /\ s.calls[f] \in Calls /\ i \in Indices /\ s.friends[i] = f
      /\ \A g \in Friends \ {f} : s.calls[g] # None => s.calls[g].index \in Indices \ {i}
  BY DEF Sessions, Sound, Mapped, Calls
<1>2. /\ c \in Calls /\ c # None /\ c.index = i /\ c.state = s.calls[f].state
      /\ c.pending = s.calls[f].pending /\ c.settings = settings
  BY <1>1, NoneIsNoCall DEF Calls, CallStates
<1>3. r = [s EXCEPT !.calls = [s.calls EXCEPT ![f] = c]]
  OBVIOUS
<1>4. /\ r.friends = s.friends /\ r.asked = s.asked /\ r.aborted = s.aborted
      /\ r.calls = [s.calls EXCEPT ![f] = c]
  BY <1>3 DEF Sessions
<1>5. [s.calls EXCEPT ![f] = c] \in [Friends -> Calls \cup {None}]
  BY <1>2 DEF Sessions
<1>6. r \in Sessions
  BY <1>3, <1>5 DEF Sessions
<1>7. r.calls[f] = c /\ \A g \in Friends \ {f} : r.calls[g] = s.calls[g]
  BY <1>4 DEF Sessions
<1>8. ph[i] = "invited" /\ qh[i] = "answered" /\ \A j \in Indices \ {i} : qh[j] = ph[j]
  BY <1>1
<1> HIDE DEF i, c, r, qh
<1>9. Mapped(r, qh)
  BY <1>1, <1>2, <1>4, <1>7, <1>8 DEF Sound, Mapped, Sessions
<1>10. Followed(r, qh)
  BY <1>1, <1>2, <1>7, <1>8 DEF Sound, Followed, i
<1>11. Requested(r)
  BY <1>2, <1>4, <1>7 DEF Sound, Requested
<1>12. Regular(s, ph) /\ settings.audio = Voice => Regular(r, qh)
  BY <1>1, <1>2, <1>4, <1>7, <1>8 DEF Regular, Sessions
<1>13. QED BY <1>1, <1>4, <1>6, <1>9, <1>10, <1>11, <1>12 DEF Sound, i, r, qh

\* A frame sent: the client's request is answered.
LEMMA FrameSound ==
  ASSUME NEW s \in Sessions, NEW ph \in [Indices -> Phases], Sound(s, ph), ~s.aborted,
         NEW f \in Friends, s.calls[f] # None
  PROVE  LET r == [s EXCEPT !.calls[f].pending["audio"] = FALSE, !.asked[f]["audio"] = 0]
         IN /\ r \in Sessions /\ ~r.aborted /\ Sound(r, ph)
            /\ Regular(s, ph) => Regular(r, ph)
<1> DEFINE pending == [s.calls[f].pending EXCEPT !["audio"] = FALSE]
           c == [s.calls[f] EXCEPT !.pending = pending]
           a == [s.asked[f] EXCEPT !["audio"] = 0]
           r == [s EXCEPT !.calls[f].pending["audio"] = FALSE, !.asked[f]["audio"] = 0]
<1>1. /\ s.calls[f] \in Calls /\ s.calls[f].pending \in [Kinds -> BOOLEAN]
      /\ s.asked[f] \in [Kinds -> Nat]
  BY DEF Sessions, Calls
<1>2. /\ pending \in [Kinds -> BOOLEAN] /\ ~pending["audio"]
      /\ pending["video"] = s.calls[f].pending["video"]
      /\ a \in [Kinds -> Nat] /\ a["audio"] = 0 /\ a["video"] = s.asked[f]["video"]
  BY <1>1 DEF Kinds
<1> HIDE DEF pending
<1>3. /\ c \in Calls /\ c # None /\ c.index = s.calls[f].index /\ c.state = s.calls[f].state
      /\ c.pending = pending /\ c.settings = s.calls[f].settings
  BY <1>1, <1>2, NoneIsNoCall DEF Calls
<1>4. r = [s EXCEPT !.calls = [s.calls EXCEPT ![f] = c], !.asked = [s.asked EXCEPT ![f] = a]]
  BY DEF pending
<1> HIDE DEF c, a, r
<1>5. /\ r.friends = s.friends /\ r.aborted = s.aborted
      /\ r.calls = [s.calls EXCEPT ![f] = c] /\ r.asked = [s.asked EXCEPT ![f] = a]
  BY <1>4 DEF Sessions
<1>6. r \in Sessions
  <2>1. [s.calls EXCEPT ![f] = c] \in [Friends -> Calls \cup {None}]
    BY <1>3 DEF Sessions
  <2>2. [s.asked EXCEPT ![f] = a] \in [Friends -> [Kinds -> Nat]]
    BY <1>2 DEF Sessions
  <2>3. QED BY <1>4, <2>1, <2>2 DEF Sessions
<1>7. /\ r.calls[f] = c /\ \A g \in Friends \ {f} : r.calls[g] = s.calls[g]
      /\ r.asked[f] = a /\ \A g \in Friends \ {f} : r.asked[g] = s.asked[g]
  BY <1>5 DEF Sessions
<1>8. Mapped(r, ph)
  BY <1>3, <1>5, <1>7 DEF Sound, Mapped, Sessions
<1>9. Followed(r, ph)
  BY <1>3, <1>7 DEF Sound, Followed
<1>10. Requested(r)
  <2>1. ASSUME NEW k \in Kinds
        PROVE  /\ a[k] = IF pending[k] THEN 1 ELSE 0
               /\ pending[k] => /\ c.state \in {"SENDING_A", "SENDING_AV"}
                                /\ k = "video" => c.state = "SENDING_AV"
    BY <1>2, <1>3 DEF Sound, Requested, Kinds
  <2>2. QED BY <1>3, <1>7, <2>1 DEF Sound, Requested
<1>11. Regular(s, ph) => Regular(r, ph)
  BY <1>3, <1>5, <1>7 DEF Regular, Sessions
<1>12. QED BY <1>5, <1>6, <1>8, <1>9, <1>10, <1>11 DEF Sound, r

\* The requests of an iteration.
LEMMA RequestSound ==
  ASSUME NEW s \in Sessions, NEW ph \in [Indices -> Phases], Sound(s, ph), ~s.aborted
  PROVE  /\ Request(s) \in Sessions /\ ~Request(s).aborted /\ Sound(Request(s), ph)
         /\ Regular(s, ph) => Regular(Request(s), ph)
<1> DEFINE W(f, k) == Wants(s.calls[f], k)
           r == Request(s)
<1>1. ASSUME NEW f \in Friends, s.calls[f] # None
      PROVE  /\ s.calls[f] \in Calls /\ s.calls[f].state # "SENDING_V"
             /\ \A k \in Kinds : s.calls[f].pending[k] \in BOOLEAN
  <2>1. s.calls[f] \in Calls /\ s.calls[f].index \in Indices
        /\ s.calls[f].pending \in [Kinds -> BOOLEAN]
    BY <1>1 DEF Sessions, Calls
  <2>2. ph[s.calls[f].index] \in Phases \ {"free"}
    BY <1>1, <2>1, AvCallsAssumption DEF Sound, Mapped
  <2>3. QED BY <1>1, <2>1, <2>2 DEF Sound, Followed, Phases
<1>2. \A f \in Friends, k \in Kinds :
        /\ W(f, k) \in BOOLEAN
        /\ W(f, k) => /\ s.calls[f] # None /\ ~s.calls[f].pending[k]
                      /\ s.calls[f].state \in {"SENDING_A", "SENDING_AV"}
                      /\ k = "video" => s.calls[f].state = "SENDING_AV"
  BY <1>1 DEF Wants
<1> DEFINE c(f) == [s.calls[f] EXCEPT !.pending = [k \in Kinds |-> s.calls[f].pending[k] \/ W(f, k)]]
           a(f) == [k \in Kinds |-> s.asked[f][k] + (IF W(f, k) THEN 1 ELSE 0)]
<1>3. r = [s EXCEPT !.asked = [f \in Friends |-> a(f)],
                    !.calls = [f \in Friends |-> IF s.calls[f] = None THEN None ELSE c(f)]]
  BY DEF Request, Awaiting
<1> HIDE DEF W, r
<1>4. ASSUME NEW f \in Friends, s.calls[f] # None
      PROVE  /\ c(f) \in Calls /\ c(f) # None
             /\ c(f).index = s.calls[f].index /\ c(f).state = s.calls[f].state
             /\ c(f).settings = s.calls[f].settings
             /\ \A k \in Kinds : c(f).pending[k] <=> s.calls[f].pending[k] \/ W(f, k)
  BY <1>1, <1>2, <1>4, NoneIsNoCall DEF Calls
<1>5. ASSUME NEW f \in Friends
      PROVE  /\ a(f) \in [Kinds -> Nat]
             /\ \A k \in Kinds : a(f)[k] = s.asked[f][k] + IF W(f, k) THEN 1 ELSE 0
  BY DEF Sessions
<1> HIDE DEF c, a
<1>6. /\ r.friends = s.friends /\ r.aborted = s.aborted
      /\ \A f \in Friends : /\ r.calls[f] = IF s.calls[f] = None THEN None ELSE c(f)
                            /\ r.asked[f] = a(f)
  BY <1>3 DEF Sessions
<1>7. r \in Sessions
  BY <1>3, <1>4, <1>5 DEF Sessions
<1>8. Mapped(r, ph)
  <2>1. \A f \in Friends : /\ r.calls[f] # None <=> s.calls[f] # None
                           /\ s.calls[f] # None => r.calls[f].index = s.calls[f].index
    BY <1>4, <1>6
  <2>2. \A i \in Indices : s.friends[i] \in Friends \cup {None}
    BY DEF Sound, Sessions
  <2>3. Mapped(s, ph)
    BY DEF Sound
  <2>. QED  BY <1>6, <2>1, <2>2, <2>3 DEF Mapped
<1>9. Followed(r, ph)
  BY <1>4, <1>6 DEF Sound, Followed
<1>10. Requested(r)
  <2>1. SUFFICES ASSUME NEW f \in Friends, NEW k \in Kinds
                 PROVE  /\ r.asked[f][k] = IF r.calls[f] # None /\ r.calls[f].pending[k] THEN 1 ELSE 0
                        /\ r.calls[f] # None /\ r.calls[f].pending[k] =>
                             /\ r.calls[f].state \in {"SENDING_A", "SENDING_AV"}
                             /\ k = "video" => r.calls[f].state = "SENDING_AV"
    BY DEF Requested
  <2>2. r.asked[f][k] = s.asked[f][k] + IF W(f, k) THEN 1 ELSE 0
    BY <1>5, <1>6
  <2>3. CASE s.calls[f] = None
    BY <1>2, <1>6, <2>2, <2>3 DEF Sound, Requested
  <2>4. CASE s.calls[f] # None
    <3>1. /\ r.calls[f] = c(f) /\ c(f) # None /\ c(f).state = s.calls[f].state
          /\ c(f).pending[k] <=> s.calls[f].pending[k] \/ W(f, k)
      BY <1>4, <1>6, <2>4
    <3>2. QED BY <1>2, <2>2, <2>4, <3>1 DEF Sound, Requested
  <2>5. QED BY <2>3, <2>4
<1>11. Regular(s, ph) => Regular(r, ph)
  <2>1. \A f \in Friends : r.calls[f] # None =>
          /\ s.calls[f] # None /\ r.calls[f].index = s.calls[f].index
          /\ r.calls[f].settings = s.calls[f].settings
    BY <1>4, <1>6
  <2>2. \A i \in Indices : s.friends[i] # None =>
          s.friends[i] \in Friends /\ s.calls[s.friends[i]] # None
    BY DEF Sound, Mapped, Sessions
  <2>3. \A f \in Friends : s.calls[f] # None => r.calls[f].index = s.calls[f].index
    BY <1>4, <1>6
  <2>4. QED BY <1>6, <2>1, <2>2, <2>3 DEF Regular
<1>12. QED BY <1>6, <1>7, <1>8, <1>9, <1>10, <1>11 DEF Sound, r

LEMMA Aborts ==
  ASSUME NEW s \in Sessions
  PROVE  Abort(s) \in Sessions /\ Abort(s).aborted
BY DEF Abort, Sessions

LEMMA BecomesIs ==
  ASSUME NEW r \in Sessions, Becomes(r)
  PROVE  Session' = r
BY DEF Becomes, Session, Sessions

-----------------------------------------------------------------------------
(* The actions. *)

\* toxcore reports something of a call.
LEMMA HandleSound ==
  ASSUME AvInv, ~aborted, NEW i \in Indices, NEW e \in Occurrences(i), Advance(i, e)
  PROVE  LET r == Handle(Session, e)
         IN /\ r \in Sessions
            /\ phase' \in [Indices -> Phases] /\ usual' \in BOOLEAN
            /\ ~r.aborted => Sound(r, phase')
            /\ usual' => Regular(r, phase')
<1>0. SUFFICES ASSUME NEW s, s = Session, NEW r, r = Handle(s, e)
               PROVE  /\ r \in Sessions
                      /\ phase' \in [Indices -> Phases] /\ usual' \in BOOLEAN
                      /\ ~r.aborted => Sound(r, phase')
                      /\ usual' => Regular(r, phase')
  OBVIOUS
<1>1. /\ s \in Sessions /\ phase \in [Indices -> Phases] /\ Sound(s, phase) /\ ~s.aborted
      /\ usual \in BOOLEAN /\ (usual => Regular(s, phase)) /\ friend_to_call = s.calls
  BY <1>0 DEF AvInv, Session
<1>2. usual' \in BOOLEAN /\ (usual' => usual)
  BY <1>1 DEF Advance
<1>3. CASE e = [type |-> "nothing"]
  <2>1. r = s /\ phase' = phase
    BY <1>0, <1>3 DEF Handle, Advance
  <2>2. QED BY <1>1, <1>2, <2>1
<1>4. CASE phase[i] = "free" /\ \E f \in Friends : e = [type |-> "invite", index |-> i, friend |-> f]
  <2>1. PICK f \in Friends : e = [type |-> "invite", index |-> i, friend |-> f]
    BY <1>4
  <2>2. /\ r = OnInvite(s, i, f) /\ phase' = [phase EXCEPT ![i] = "invited"]
        /\ usual' => s.calls[f] = None
    BY <1>0, <1>1, <2>1 DEF Handle, Advance
  <2>3. s.friends[i] = None /\ phase' \in [Indices -> Phases]
    BY <1>1, <1>4, <2>2 DEF Sound, Mapped, Phases
  <2>4. CASE s.calls[f] = None
    <3> DEFINE c == AvCall(i)
    <3>1. c \in Calls /\ c.index = i /\ c.state = "END" /\ \A k \in Kinds : ~c.pending[k]
      BY DEF AvCall, Calls, CallStates
    <3>2. r = [s EXCEPT !.friends[i] = f, !.calls[f] = c]
      BY <1>1, <2>2, <2>3, <2>4 DEF OnInvite, Sessions
    <3> HIDE DEF c
    <3> DEFINE q  == [s EXCEPT !.friends[i] = f, !.calls[f] = c]
               qh == [phase EXCEPT ![i] = "invited"]
    <3>3. /\ q \in Sessions /\ ~q.aborted /\ Sound(q, qh)
          /\ Regular(s, phase) => Regular(q, qh)
      BY <1>1, <1>4, <2>4, <3>1, NewCallSound
    <3>4. r = q /\ phase' = qh
      BY <2>2, <3>2
    <3> HIDE DEF q, qh
    <3>5. QED BY <1>1, <1>2, <2>3, <3>3, <3>4
  <2>5. CASE s.calls[f] # None
    <3>1. r = [s EXCEPT !.friends[i] = f]
      BY <1>1, <2>2, <2>3, <2>5 DEF OnInvite, Sessions
    <3> DEFINE q  == [s EXCEPT !.friends[i] = f]
               qh == [phase EXCEPT ![i] = "invited"]
    <3>2. /\ q \in Sessions /\ ~q.aborted /\ Sound(q, qh)
      BY <1>1, <1>4, <2>5, SecondInviteSound
    <3>3. r = q /\ phase' = qh
      BY <2>2, <3>1
    <3> HIDE DEF q, qh
    <3>4. QED BY <1>2, <2>2, <2>3, <2>5, <3>2, <3>3
  <2>6. QED BY <2>4, <2>5
<1>5. CASE phase[i] = "calling" /\ e = [type |-> "ringing", index |-> i]
  <2>1. r = OnRinging(s, i) /\ phase' = [phase EXCEPT ![i] = "ringing"]
    BY <1>0, <1>5 DEF Handle, Advance
  <2>2. r = WithState(s, i, "RINGING")
    BY <1>1, <1>5, <2>1, IndexLeadsBack, AvCallsAssumption DEF OnRinging, Known, WithState
  <2>3. phase' \in [Indices -> Phases]
    BY <1>1, <2>1 DEF Phases
  <2> DEFINE q  == WithState(s, i, "RINGING")
             qh == [phase EXCEPT ![i] = "ringing"]
  <2>4. /\ q \in Sessions /\ ~q.aborted /\ Sound(q, qh)
        /\ Regular(s, phase) => Regular(q, qh)
    BY <1>1, <1>5, ProgressSound
  <2>5. r = q /\ phase' = qh
    BY <2>1, <2>2
  <2> HIDE DEF q, qh
  <2>6. QED BY <1>1, <1>2, <2>3, <2>4, <2>5
<1>6. CASE /\ phase[i] \in {"calling", "ringing", "answered"}
           /\ e = [type |-> "start", index |-> i]
  <2>1. r = OnStart(s, i) /\ phase' = [phase EXCEPT ![i] = "active"]
    BY <1>0, <1>6 DEF Handle, Advance
  <2>2. PICK state \in {"SENDING_NONE", "SENDING_A", "SENDING_AV"} :
          r = WithState(s, i, state)
    BY <1>1, <1>6, <2>1, StartProgresses
  <2>3. phase' \in [Indices -> Phases]
    BY <1>1, <2>1 DEF Phases
  <2> DEFINE q  == WithState(s, i, state)
             qh == [phase EXCEPT ![i] = "active"]
  <2>4. /\ q \in Sessions /\ ~q.aborted /\ Sound(q, qh)
        /\ Regular(s, phase) => Regular(q, qh)
    BY <1>1, <1>6, ProgressSound
  <2>5. r = q /\ phase' = qh
    BY <2>1, <2>2
  <2> HIDE DEF q, qh
  <2>6. QED BY <1>1, <1>2, <2>3, <2>4, <2>5
<1>7. CASE phase[i] # "free" /\ e = [type |-> "other", index |-> i]
  <2>1. r = Abort(s) /\ phase' = [phase EXCEPT ![i] = "free"] /\ ~usual'
    BY <1>0, <1>7 DEF Handle, Advance, OnOther
  <2>2. phase' \in [Indices -> Phases]
    BY <1>1, <2>1 DEF Phases
  <2>3. QED BY <1>1, <1>2, <2>1, <2>2, Aborts
<1>8. CASE phase[i] = "active" /\ e = [type |-> "audio", index |-> i]
  <2>1. r = OnAudio(s, i) /\ phase' = phase
    BY <1>0, <1>8 DEF Handle, Advance
  <2>2. r = s
    BY <1>1, <1>8, <2>1, IndexLeadsBack, AvCallsAssumption DEF OnAudio, Known
  <2>3. QED BY <1>1, <1>2, <2>1, <2>2
<1>9. CASE phase[i] = "active" /\ e = [type |-> "video", index |-> i]
  <2>1. r = Abort(s) /\ phase' = phase /\ ~usual'
    BY <1>0, <1>9 DEF Handle, Advance, OnVideo
  <2>2. QED BY <1>1, <1>2, <2>1, Aborts
<1>10. QED BY <1>3, <1>4, <1>5, <1>6, <1>7, <1>8, <1>9 DEF Occurrences

\* Where an action leaves an unsound session, the process has ended.
LEMMA NextSession ==
  ASSUME NEW r \in Sessions, Becomes(r), phase' \in [Indices -> Phases], usual' \in BOOLEAN,
         ~r.aborted => Sound(r, phase'), usual' => Regular(r, phase')
  PROVE  AvInv'
<1>1. Session' = r /\ aborted' = r.aborted
  BY BecomesIs DEF Becomes
<1>2. QED BY <1>1 DEF AvInv

LEMMA IterateKeeps ==
  ASSUME AvInv, ~aborted, Iterate
  PROVE  AvInv'
<1>0. PICK i \in Indices :
        \E e \in Occurrences(i) :
          LET s == Handle(Session, e)
          IN Becomes(IF s.aborted THEN s ELSE Request(s)) /\ Advance(i, e)
  BY DEF Iterate
<1>1. PICK e \in Occurrences(i) :
        LET s == Handle(Session, e)
        IN Becomes(IF s.aborted THEN s ELSE Request(s)) /\ Advance(i, e)
  BY <1>0
<1> DEFINE s == Handle(Session, e)
<1>2. /\ s \in Sessions /\ phase' \in [Indices -> Phases] /\ usual' \in BOOLEAN
      /\ ~s.aborted => Sound(s, phase')
      /\ usual' => Regular(s, phase')
  BY <1>1, HandleSound
<1>3. Becomes(IF s.aborted THEN s ELSE Request(s))
  BY <1>1
<1> HIDE DEF s
<1>4. CASE s.aborted
  BY <1>2, <1>3, <1>4, NextSession
<1>5. CASE ~s.aborted
  <2>1. /\ Request(s) \in Sessions /\ ~Request(s).aborted /\ Sound(Request(s), phase')
        /\ Regular(s, phase') => Regular(Request(s), phase')
    BY <1>2, <1>5, RequestSound
  <2>2. QED BY <1>2, <1>3, <1>5, <2>1, NextSession
<1>6. QED BY <1>4, <1>5

LEMMA SettingsMade ==
  ASSUME NEW audio \in BitRates, NEW video \in BitRates
  PROVE  /\ make_settings(audio, video) \in [call_type : {"none", "audio", "video"},
                                              audio : [rate : Nat, channels : {0, 1}, frame : Nat]]
         /\ audio # 0 => make_settings(audio, video).audio = Voice
BY AvCallsAssumption DEF make_settings, Voice, Default

LEMMA StartCallKeeps ==
  ASSUME AvInv, ~aborted, StartCall
  PROVE  AvInv'
<1>1. PICK f \in Friends, audio \in BitRates, video \in BitRates, i \in Free \cup {None} :
        LET starts == i # None /\ friend_to_call[f] = None
        IN /\ Becomes(toxAvCall(Session, f, audio, video, i))
           /\ phase' = IF starts THEN [phase EXCEPT ![i] = "calling"] ELSE phase
           /\ usual' = (usual /\ starts /\ audio # 0)
  BY DEF StartCall
<1>2. SUFFICES ASSUME NEW s \in Sessions, s = Session PROVE AvInv'
  BY DEF AvInv
<1>3. /\ phase \in [Indices -> Phases] /\ Sound(s, phase) /\ ~s.aborted
      /\ usual \in BOOLEAN /\ (usual => Regular(s, phase)) /\ friend_to_call = s.calls
  BY <1>2 DEF AvInv, Session
<1>4. CASE s.calls[f] # None \/ i = None
  <2>1. Becomes(Abort(s)) /\ phase' = phase /\ usual' = FALSE
    BY <1>1, <1>2, <1>3, <1>4 DEF toxAvCall
  <2>2. QED BY <1>3, <2>1, Aborts, NextSession
<1>5. CASE s.calls[f] = None /\ i # None
  <2> DEFINE c == [AvCall(i) EXCEPT !.settings = make_settings(audio, video)]
             r == [s EXCEPT !.friends[i] = f, !.calls[f] = c]
             qh == [phase EXCEPT ![i] = "calling"]
  <2>1. i \in Indices /\ phase[i] = "free"
    BY <1>5 DEF Free
  <2>2. /\ c \in Calls /\ c.index = i /\ c.state = "END" /\ \A k \in Kinds : ~c.pending[k]
        /\ audio # 0 => c.settings.audio = Voice
    BY <2>1, SettingsMade DEF AvCall, Calls, CallStates
  <2>3. Becomes(r) /\ phase' = qh /\ usual' = (usual /\ audio # 0)
    BY <1>1, <1>2, <1>3, <1>5 DEF toxAvCall
  <2> HIDE DEF c
  <2>4. /\ r \in Sessions /\ ~r.aborted /\ Sound(r, qh)
        /\ Regular(s, phase) /\ c.settings.audio = Voice => Regular(r, qh)
    BY <1>3, <1>5, <2>1, <2>2, NewCallSound
  <2>5. qh \in [Indices -> Phases]
    BY <1>3 DEF Phases
  <2> HIDE DEF r, qh
  <2>6. QED BY <1>3, <2>2, <2>3, <2>4, <2>5, NextSession
<1>6. QED BY <1>4, <1>5

LEMMA AnswerKeeps ==
  ASSUME AvInv, ~aborted, Answer
  PROVE  AvInv'
<1>1. PICK f \in Friends, audio \in BitRates, video \in BitRates, atOnce \in BOOLEAN :
        LET c  == friend_to_call[f]
            ok == c # None /\ phase[c.index] = "invited"
            s  == toxAvAnswer(Session, f, audio, video, ok)
        IN /\ atOnce => ok
           /\ Becomes(IF atOnce THEN OnStart(s, c.index) ELSE s)
           /\ phase' = IF ok THEN [phase EXCEPT ![c.index] = IF atOnce THEN "active" ELSE "answered"]
                       ELSE phase
           /\ usual' = (usual /\ (c # None => ok /\ audio # 0))
  BY DEF Answer
<1>2. SUFFICES ASSUME NEW s \in Sessions, s = Session PROVE AvInv'
  BY DEF AvInv
<1>3. /\ s \in Sessions /\ phase \in [Indices -> Phases] /\ Sound(s, phase) /\ ~s.aborted
      /\ usual \in BOOLEAN /\ (usual => Regular(s, phase)) /\ friend_to_call = s.calls
  BY <1>2 DEF AvInv, Session
<1>4. /\ s \in Sessions /\ phase \in [Indices -> Phases] /\ Sound(s, phase) /\ ~s.aborted
  BY <1>3
<1>5. CASE s.calls[f] = None
  <2>1. Becomes(s) /\ phase' = phase /\ usual' = usual
    BY <1>1, <1>2, <1>3, <1>5 DEF toxAvAnswer
  <2>2. QED BY <1>3, <2>1, NextSession
<1>6. CASE s.calls[f] # None /\ phase[s.calls[f].index] # "invited"
  <2>1. Becomes(Abort(s)) /\ phase' = phase /\ usual' = FALSE
    BY <1>1, <1>2, <1>3, <1>6 DEF toxAvAnswer
  <2>2. QED BY <1>3, <2>1, Aborts, NextSession
<1>7. CASE s.calls[f] # None /\ phase[s.calls[f].index] = "invited"
  <2>1. PICK settings : /\ settings = make_settings(audio, video)
                        /\ settings \in [call_type : {"none", "audio", "video"},
                                         audio : [rate : Nat, channels : {0, 1}, frame : Nat]]
                        /\ audio # 0 => settings.audio = Voice
    BY SettingsMade
  <2>2. settings \in [call_type : {"none", "audio", "video"},
                      audio : [rate : Nat, channels : {0, 1}, frame : Nat]]
    BY <2>1
  <2> DEFINE i == s.calls[f].index
             r == [s EXCEPT !.calls[f].settings = settings]
             qh == [phase EXCEPT ![i] = "answered"]
  <2>3. /\ r \in Sessions /\ ~r.aborted /\ Sound(r, qh)
        /\ i \in Indices /\ s.friends[i] = f
        /\ r.friends = s.friends
        /\ Regular(s, phase) /\ settings.audio = Voice => Regular(r, qh)
    BY <1>4, <1>7, <2>2, SettingsSound
  <2>4. /\ Becomes(IF atOnce THEN OnStart(r, i) ELSE r)
        /\ phase' = [phase EXCEPT ![i] = IF atOnce THEN "active" ELSE "answered"]
        /\ usual' = (usual /\ audio # 0)
    BY <1>1, <1>2, <1>3, <1>7, <2>1 DEF toxAvAnswer
  <2>5. qh \in [Indices -> Phases] /\ qh[i] = "answered"
        /\ [qh EXCEPT ![i] = "active"] = [phase EXCEPT ![i] = "active"]
        /\ [phase EXCEPT ![i] = "active"] \in [Indices -> Phases]
    BY <1>3, <2>3 DEF Phases
  <2>6. Regular(s, phase) /\ audio # 0 => Regular(r, qh)
    BY <2>1, <2>3
  <2> HIDE DEF r, i
  <2>7. CASE ~atOnce
    <3>1. Becomes(r) /\ phase' = qh /\ usual' = (usual /\ audio # 0)
      BY <2>4, <2>7
    <3> HIDE DEF qh
    <3>2. QED BY <1>3, <2>3, <2>5, <2>6, <3>1, NextSession
  <2>8. CASE atOnce
    <3>1. PICK state \in {"SENDING_NONE", "SENDING_A", "SENDING_AV"} :
            OnStart(r, i) = WithState(r, i, state)
      BY <2>3, <2>5, StartProgresses
    <3> DEFINE q == WithState(r, i, state)
               wh == [qh EXCEPT ![i] = "active"]
    <3>2. /\ q \in Sessions /\ ~q.aborted /\ Sound(q, wh)
          /\ Regular(r, qh) => Regular(q, wh)
      BY <2>3, <2>5, ProgressSound
    <3>3. Becomes(q) /\ phase' = wh /\ usual' = (usual /\ audio # 0)
      BY <2>4, <2>5, <2>8, <3>1
    <3>4. wh \in [Indices -> Phases]
      BY <2>5
    <3> HIDE DEF q, wh, qh
    <3>5. QED BY <1>3, <2>6, <3>2, <3>3, <3>4, NextSession
  <2>9. QED BY <2>7, <2>8
<1>8. QED BY <1>5, <1>6, <1>7

\* The frames that SendAudio sends fit the settings of a usual call.
LEMMA SendAudioKeeps ==
  ASSUME AvInv, ~aborted, SendAudio
  PROVE  AvInv'
<1>1. PICK f \in Friends,
           frame \in {Frame(Voice), Frame(Default), [Frame(Voice) EXCEPT !.pcm = 0]},
           accepts \in BOOLEAN :
        LET c  == friend_to_call[f]
            ok == accepts /\ c # None /\ phase[c.index] = "active"
        IN /\ Becomes(toxAvSendAudioFrame(Session, f, frame, ok))
           /\ usual' = (usual /\ accepts /\ asked[f]["audio"] > 0 /\ frame # Frame(Default))
           /\ UNCHANGED <<phase, caller>>
  BY DEF SendAudio
<1>2. SUFFICES ASSUME NEW s \in Sessions, s = Session PROVE AvInv'
  BY DEF AvInv
<1>3. /\ phase \in [Indices -> Phases] /\ Sound(s, phase) /\ ~s.aborted
      /\ usual \in BOOLEAN /\ (usual => Regular(s, phase))
      /\ friend_to_call = s.calls /\ asked = s.asked
  BY <1>2 DEF AvInv, Session
<1> DEFINE c == s.calls[f]
           ok == accepts /\ c # None /\ phase[c.index] = "active"
           sent == [s EXCEPT !.calls[f].pending["audio"] = FALSE, !.asked[f]["audio"] = 0]
           fits == /\ c # None /\ ok
                   /\ frame.count = frame.rate * frame.channels * c.settings.audio.frame
                   /\ frame.channels = c.settings.audio.channels
                   /\ frame.rate = c.settings.audio.rate
<1>4. /\ Becomes(IF frame.pcm # frame.count * frame.channels THEN s
                 ELSE IF fits THEN sent ELSE Abort(s))
      /\ usual' = (usual /\ accepts /\ s.asked[f]["audio"] > 0 /\ frame # Frame(Default))
      /\ phase' = phase
  BY <1>1, <1>2, <1>3 DEF toxAvSendAudioFrame, SendAudioFrame
<1>5. CASE frame.pcm # frame.count * frame.channels
  BY <1>3, <1>4, <1>5, NextSession
<1>6. CASE frame.pcm = frame.count * frame.channels /\ fits
  <2>1. /\ sent \in Sessions /\ ~sent.aborted /\ Sound(sent, phase)
        /\ Regular(s, phase) => Regular(sent, phase)
    BY <1>3, <1>6, FrameSound
  <2>2. Becomes(sent)
    BY <1>4, <1>6
  <2> HIDE DEF sent
  <2>3. QED BY <1>3, <1>4, <2>1, <2>2, NextSession
<1>7. CASE frame.pcm = frame.count * frame.channels /\ ~fits
  <2>1. SUFFICES ASSUME usual' PROVE FALSE
    BY <1>3, <1>4, <1>7, Aborts, NextSession
  <2>2. frame = Frame(Voice) /\ usual /\ accepts /\ s.asked[f]["audio"] > 0
    <3>1. [Frame(Voice) EXCEPT !.pcm = 0].pcm # [Frame(Voice) EXCEPT !.pcm = 0].count
                                                 * [Frame(Voice) EXCEPT !.pcm = 0].channels
      BY DEF Frame, Voice, Samples
    <3>2. QED BY <1>3, <1>4, <1>7, <2>1, <3>1
  <2>3. c # None /\ c \in Calls /\ c.state \in {"SENDING_A", "SENDING_AV"}
    BY <2>2, <1>3 DEF Sound, Requested, Kinds, Sessions
  <2>4. phase[c.index] = "active"
    <3>1. c.index \in Indices /\ phase[c.index] \in Phases /\ phase[c.index] # "free"
      BY <1>3, <2>3, AvCallsAssumption DEF Sound, Mapped, Calls
    <3>2. QED BY <1>3, <2>3, <3>1 DEF Sound, Followed, Phases
  <2>5. c.settings.audio = Voice
    BY <1>3, <2>2, <2>3, <2>4 DEF Regular
  <2>6. QED BY <1>7, <2>2, <2>3, <2>4, <2>5 DEF Frame, Voice, Samples
<1>8. QED BY <1>5, <1>6, <1>7

LEMMA UnimplementedKeeps ==
  ASSUME AvInv, ~aborted, Unimplemented
  PROVE  AvInv'
<1>1. /\ Session \in Sessions /\ phase' = phase /\ usual' = FALSE
      /\ phase \in [Indices -> Phases] /\ Sound(Session, phase)
  BY DEF AvInv, Unimplemented
<1>2. Becomes(Session) \/ Becomes(Abort(Session))
  BY DEF Unimplemented, toxAvSendVideoFrame, toxAvCallControl, toxAvSetBitRate
<1>3. QED BY <1>1, <1>2, Aborts, NextSession

LEMMA AvInit == Init => AvInv
<1> SUFFICES ASSUME Init PROVE AvInv
  OBVIOUS
<1>1. Session \in Sessions /\ phase \in [Indices -> Phases] /\ usual = TRUE /\ aborted = FALSE
  BY DEF Init, Session, Sessions, Phases
<1>2. /\ Session.friends = [i \in Indices |-> None] /\ Session.aborted = FALSE
      /\ Session.calls = [f \in Friends |-> None]
      /\ Session.asked = [f \in Friends |-> [k \in Kinds |-> 0]]
  BY DEF Init, Session
<1>3. Sound(Session, phase) /\ Regular(Session, phase)
  BY <1>2 DEF Init, Sound, Mapped, Followed, Requested, Regular
<1>4. QED BY <1>1, <1>3 DEF AvInv

LEMMA AvStep == AvInv /\ [Next]_vars => AvInv'
<1> SUFFICES ASSUME AvInv, [Next]_vars PROVE AvInv'
  OBVIOUS
<1>1. CASE ~aborted /\ (Iterate \/ StartCall \/ Answer \/ SendAudio \/ Unimplemented)
  BY <1>1, IterateKeeps, StartCallKeeps, AnswerKeeps, SendAudioKeeps, UnimplementedKeeps
<1>2. CASE UNCHANGED vars
  <2>1. Session' = Session /\ phase' = phase /\ usual' = usual /\ aborted' = aborted
    BY <1>2 DEF vars, Session
  <2>2. QED BY <2>1 DEF AvInv
<1>3. QED BY <1>1, <1>2 DEF Next

\* AvInv is an inductive invariant.
THEOREM AlwaysSound == Spec => []AvInv
BY AvInit, AvStep, PTL DEF Spec

\* The maps and the calls in them keep their types.
THEOREM AvCallTypes == Spec => []TypeOK
<1>1. AvInv => TypeOK
  BY DEF AvInv, Session, Sessions, Phases, TypeOK
<1>2. QED BY <1>1, AlwaysSound, PTL

\* A client that does only what AudioCallTest does, with friends that do no more,
\* meets no assertion of av.cpp: what its callbacks look up is in the maps, no
\* call is started twice, and the frames it sends fit.
THEOREM UsualNeverAborts == Spec => []NoAbort
<1>1. AvInv => NoAbort
  BY DEF AvInv, Regular, Session, NoAbort
<1>2. QED BY <1>1, AlwaysSound, PTL

\* Whatever the client does, as long as the process lives it has one request to
\* answer for a call exactly while the call has that event pending, and only for
\* what the call sends.
THEOREM OneRequestEach == Spec => []RequestsPending
<1>1. AvInv => RequestsPending
  BY DEF AvInv, Sound, Requested, Session, RequestsPending
<1>2. QED BY <1>1, AlwaysSound, PTL

\* Usual clients on both sides hear each other's frames whole: a call that is
\* active is in the maps under its index, with the settings the other side has.
THEOREM FramesArriveWhole == Spec => []FramesWhole
<1>1. AvInv => FramesWhole
  <2>1. SUFFICES ASSUME AvInv, usual, NEW i \in Indices, phase[i] = "active"
                 PROVE  Known(Session, i) /\ Received(CallOf(Session, i), Voice) = Samples(Voice)
    BY DEF FramesWhole
  <2>2. SUFFICES ASSUME NEW s \in Sessions, s = Session
                 PROVE  Known(s, i) /\ Received(CallOf(s, i), Voice) = Samples(Voice)
    BY <2>1 DEF AvInv
  <2>3. Sound(s, phase) /\ Regular(s, phase) /\ phase \in [Indices -> Phases]
    BY <2>1, <2>2 DEF AvInv, Regular, Session
  <2>4. Known(s, i) /\ CallOf(s, i) # None /\ CallOf(s, i).index = i /\ s.friends[i] \in Friends
    BY <2>1, <2>3, IndexLeadsBack, AvCallsAssumption DEF Known, CallOf
  <2>5. CallOf(s, i).settings.audio = Voice
    BY <2>1, <2>3, <2>4 DEF Regular, CallOf
  <2>6. QED BY <2>4, <2>5 DEF Received, Samples, Voice
<1>2. QED BY <1>1, AlwaysSound, PTL
=============================================================================
