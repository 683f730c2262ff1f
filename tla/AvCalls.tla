------------------------------- MODULE AvCalls -------------------------------
(***************************************************************************)
(* The calls of one audio/video session: av.cpp's maps from toxcore's call *)
(* indices to friends and from friends to calls, its callbacks, the part   *)
(* of toxav_iteration that asks the client for frames, and the native      *)
(* methods of ToxAv/av.cpp.  toxcore's side of a call, phase and caller,   *)
(* is external.                                                            *)
(*                                                                         *)
(* Much of av.cpp is an assertion.  usual tells whether the client has     *)
(* done only what AudioCallTest does, friends have called only while there *)
(* was no call with them, and nothing has failed or ended.                 *)
(***************************************************************************)
EXTENDS Naturals, FiniteSets

CONSTANTS
  Friends,
  Indices,           \* toxcore's call indices
  BitRates,          \* the client's choice, 0 for not sending
  DefaultCallType,   \* of av_DefaultSettings: what is sent,
  DefaultRate,       \* samples per millisecond,
  DefaultFrame,      \* and milliseconds per frame
  None

ASSUME AvCallsAssumption ==
  /\ 0 \in BitRates /\ BitRates \subseteq Nat
  /\ DefaultCallType \in {"none", "audio", "video"}
  /\ DefaultRate \in Nat /\ DefaultFrame \in Nat
  /\ None \notin Friends \cup Indices

VARIABLES
  call_to_friend,  \* of each index the friend, None if it is not in the map
  friend_to_call,  \* of each friend its av_call, None if it is not in the map
  asked,           \* request_..._frame events the client has not answered
  aborted,         \* an assertion failed and ended the process
  phase,           \* toxcore: of each index how far the call is, "free" if there is none
  caller,          \* toxcore: of each index the other side of the call
  usual            \* history, see above

vars == <<call_to_friend, friend_to_call, asked, aborted, phase, caller, usual>>

Kinds == {"audio", "video"}
CallStates == {"RINGING", "SENDING_NONE", "SENDING_A", "SENDING_V", "SENDING_AV", "PAUSED",
               "END", "ERROR"}

\* make_settings, for an audio bit rate.
Voice   == [rate |-> 8, channels |-> 1, frame |-> 60]
Default == [rate |-> DefaultRate, channels |-> 1, frame |-> DefaultFrame]

\* Faulty: the frame duration stays the default.
make_settings_short(audio_bit_rate, video_bit_rate) ==
  [call_type |-> IF video_bit_rate # 0 THEN "video"
                 ELSE IF audio_bit_rate # 0 THEN "audio" ELSE DefaultCallType,
   audio |-> IF audio_bit_rate # 0 THEN [Voice EXCEPT !.frame = DefaultFrame] ELSE Default]

make_settings(audio_bit_rate, video_bit_rate) ==
  [call_type |-> IF video_bit_rate # 0 THEN "video"
                 ELSE IF audio_bit_rate # 0 THEN "audio" ELSE DefaultCallType,
   audio |-> IF audio_bit_rate # 0 THEN Voice ELSE Default]

\* Faulty: the index is not set.
AvCallUnindexed(i) ==
  [index |-> None, state |-> "END", pending |-> [k \in Kinds |-> FALSE],
   settings |-> [call_type |-> "none", audio |-> [rate |-> 0, channels |-> 0, frame |-> 0]]]

\* av_call: ToxAvCSettings() is all zero.
AvCall(i) ==
  [index |-> i, state |-> "END", pending |-> [k \in Kinds |-> FALSE],
   settings |-> [call_type |-> "none", audio |-> [rate |-> 0, channels |-> 0, frame |-> 0]]]

Calls ==
  [index : Indices, state : CallStates, pending : [Kinds -> BOOLEAN],
   settings : [call_type : {"none", "audio", "video"},
               audio : [rate : Nat, channels : {0, 1}, frame : Nat]]]

ASSUME NoneIsNoCall == None \notin Calls

-----------------------------------------------------------------------------
\* A record s holds the session; the callbacks and native methods change it.
Session == [friends |-> call_to_friend, calls |-> friend_to_call, asked |-> asked,
            aborted |-> aborted]

Becomes(s) == /\ call_to_friend' = s.friends /\ friend_to_call' = s.calls
              /\ asked' = s.asked /\ aborted' = s.aborted

Abort(s) == [s EXCEPT !.aborted = TRUE]

\* get_friend_number and get_call assert that the maps have the call.
Known(s, i)  == s.friends[i] # None /\ s.calls[s.friends[i]] # None
CallOf(s, i) == s.calls[s.friends[i]]

\* insert leaves a call that is in the map already.
OnInvite(s, i, f) ==
  IF s.friends[i] # None THEN Abort(s)
  ELSE [s EXCEPT !.friends[i] = f, !.calls[f] = IF @ = None THEN AvCall(i) ELSE @]

OnRinging(s, i) ==
  IF ~Known(s, i) THEN Abort(s) ELSE [s EXCEPT !.calls[s.friends[i]].state = "RINGING"]

OnStart(s, i) ==
  LET state == CASE CallOf(s, i).settings.call_type = "none"  -> "SENDING_NONE"
                 [] CallOf(s, i).settings.call_type = "audio" -> "SENDING_A"
                 [] CallOf(s, i).settings.call_type = "video" -> "SENDING_AV"
  IN IF ~Known(s, i) \/ CallOf(s, i).state = state THEN Abort(s)
     ELSE [s EXCEPT !.calls[s.friends[i]].state = state]

\* OnCancel, OnReject, OnEnd, OnRequestTimeout, OnPeerTimeout and the CSChanges.
OnOther(s) == Abort(s)

OnAudio(s, i) == IF Known(s, i) THEN s ELSE Abort(s)
OnVideo(s)    == Abort(s)

\* How much of a frame that the friend sent the client gets, in samples: the length is
\* computed from the frame duration of this side's settings.
Received(c, peer) == peer.channels * peer.rate * c.settings.audio.frame * peer.channels

Handle(s, e) ==
  CASE e.type = "nothing" -> s
    [] e.type = "invite"  -> OnInvite(s, e.index, e.friend)
    [] e.type = "ringing" -> OnRinging(s, e.index)
    [] e.type = "start"   -> OnStart(s, e.index)
    [] e.type = "audio"   -> OnAudio(s, e.index)
    [] e.type = "video"   -> OnVideo(s)
    [] e.type = "other"   -> OnOther(s)

\* The cases of new_toxav_iteration's switch, and which it falls through to.
Wants(c, k) ==
  /\ c # None
  /\ ~c.pending[k]
  /\ \/ c.state = "SENDING_AV"
     \/ k = "audio" /\ c.state = "SENDING_A"
     \/ k = "audio" /\ c.state = "SENDING_V" /\ c.pending["video"]
     \/ k = "video" /\ c.state = "SENDING_V"

\* Faulty: asks again in every iteration.
RequestAlways(s) ==
  [s EXCEPT !.asked = [f \in Friends |-> [k \in Kinds |-> @[f][k] +
                         (IF Wants(s.calls[f], k) THEN 1 ELSE 0)]]]

\* The call once its events are pending.
Awaiting(c) ==
  IF c = None THEN None
  ELSE [c EXCEPT !.pending = [k \in Kinds |-> c.pending[k] \/ Wants(c, k)]]

Request(s) ==
  [s EXCEPT
     !.asked = [f \in Friends |-> [k \in Kinds |-> @[f][k] +
                  (IF Wants(s.calls[f], k) THEN 1 ELSE 0)]],
     !.calls = [f \in Friends |-> Awaiting(@[f])]]

-----------------------------------------------------------------------------
\* Faulty: the call is entered in one map only.
toxAvCallHalf(s, f, audio, video, i) ==
  IF s.calls[f] # None \/ i = None THEN Abort(s)
  ELSE [s EXCEPT !.calls[f] = [AvCall(i) EXCEPT !.settings = make_settings(audio, video)]]

\* The native methods; i is the index toxcore gives to a new call, None if it fails.
toxAvCall(s, f, audio, video, i) ==
  IF s.calls[f] # None \/ i = None THEN Abort(s)
  ELSE [s EXCEPT !.friends[i] = f,
                 !.calls[f] = [AvCall(i) EXCEPT !.settings = make_settings(audio, video)]]

\* FRIEND_NOT_CALLING if there is no call; ok: toxcore can answer it.
toxAvAnswer(s, f, audio, video, ok) ==
  CASE s.calls[f] = None         -> s
    [] s.calls[f] # None /\ ~ok  -> Abort(s)
    [] OTHER -> [s EXCEPT !.calls[f].settings = make_settings(audio, video)]

Samples(a) == a.rate * a.channels * a.frame
Frame(a) == [pcm |-> Samples(a) * a.channels, count |-> Samples(a), channels |-> a.channels,
             rate |-> a.rate]

\* new_toxav_send_audio_frame.
SendAudioFrame(s, f, frame, ok) ==
  LET c == s.calls[f]
  IN IF \/ c = None \/ ~ok
        \/ frame.count # frame.rate * frame.channels * c.settings.audio.frame
        \/ frame.channels # c.settings.audio.channels
        \/ frame.rate # c.settings.audio.rate
     THEN Abort(s)
     ELSE [s EXCEPT !.calls[f].pending["audio"] = FALSE, !.asked[f]["audio"] = 0]

\* BAD_LENGTH is thrown before anything else happens.
toxAvSendAudioFrame(s, f, frame, ok) ==
  IF frame.pcm # frame.count * frame.channels THEN s ELSE SendAudioFrame(s, f, frame, ok)

toxAvSendVideoFrame(s, plane, pixels) == IF plane # pixels THEN s ELSE Abort(s)

toxAvCallControl(s) == Abort(s)
toxAvSetBitRate(s)  == Abort(s)

-----------------------------------------------------------------------------
Init ==
  /\ call_to_friend = [i \in Indices |-> None]
  /\ friend_to_call = [f \in Friends |-> None]
  /\ asked = [f \in Friends |-> [k \in Kinds |-> 0]]
  /\ aborted = FALSE
  /\ phase = [i \in Indices |-> "free"]
  /\ caller = [i \in Indices |-> None]
  /\ usual = TRUE

Free == {i \in Indices : phase[i] = "free"}

\* What toxcore may report of index i.
Occurrences(i) ==
  {[type |-> "nothing"]}
  \cup {[type |-> "invite", index |-> i, friend |-> f] :
          f \in {g \in Friends : phase[i] = "free"}}
  \cup {[type |-> y, index |-> i] :
          y \in (IF phase[i] = "calling" THEN {"ringing"} ELSE {})
                \cup (IF phase[i] \in {"calling", "ringing", "answered"} THEN {"start"} ELSE {})
                \cup (IF phase[i] # "free" THEN {"other"} ELSE {})
                \cup (IF phase[i] = "active" THEN {"audio", "video"} ELSE {})}

\* The state of the call at toxcore after it has reported e.
Advance(i, e) ==
  /\ phase' = CASE e.type = "invite"  -> [phase EXCEPT ![i] = "invited"]
                [] e.type = "ringing" -> [phase EXCEPT ![i] = "ringing"]
                [] e.type = "start"   -> [phase EXCEPT ![i] = "active"]
                [] e.type = "other"   -> [phase EXCEPT ![i] = "free"]
                [] OTHER              -> phase
  /\ caller' = IF e.type = "invite" THEN [caller EXCEPT ![i] = e.friend] ELSE caller
  /\ usual' = ( /\ usual
                /\ e.type \notin {"other", "video"}
                /\ e.type = "invite" => friend_to_call[e.friend] = None )

Iterate ==
  \E i \in Indices : \E e \in Occurrences(i) :
    LET s == Handle(Session, e)
    IN Becomes(IF s.aborted THEN s ELSE Request(s)) /\ Advance(i, e)

StartCall ==
  \E f \in Friends, audio, video \in BitRates, i \in Free \cup {None} :
    LET starts == i # None /\ friend_to_call[f] = None
    IN /\ Becomes(toxAvCall(Session, f, audio, video, i))
       /\ phase' = IF starts THEN [phase EXCEPT ![i] = "calling"] ELSE phase
       /\ caller' = IF starts THEN [caller EXCEPT ![i] = f] ELSE caller
       /\ usual' = (usual /\ starts /\ audio # 0)

\* toxcore may start the call at once.
Answer ==
  \E f \in Friends, audio, video \in BitRates, atOnce \in BOOLEAN :
    LET c  == friend_to_call[f]
        ok == c # None /\ phase[c.index] = "invited"
        s  == toxAvAnswer(Session, f, audio, video, ok)
    IN /\ atOnce => ok
       /\ Becomes(IF atOnce THEN OnStart(s, c.index) ELSE s)
       /\ phase' = IF ok THEN [phase EXCEPT ![c.index] = IF atOnce THEN "active" ELSE "answered"]
                   ELSE phase
       /\ usual' = (usual /\ (c # None => ok /\ audio # 0))
       /\ UNCHANGED caller

SendAudio ==
  \E f \in Friends, frame \in {Frame(Voice), Frame(Default), [Frame(Voice) EXCEPT !.pcm = 0]},
     accepts \in BOOLEAN :
    LET c  == friend_to_call[f]
        ok == accepts /\ c # None /\ phase[c.index] = "active"
    IN /\ Becomes(toxAvSendAudioFrame(Session, f, frame, ok))
       /\ usual' = (usual /\ accepts /\ asked[f]["audio"] > 0 /\ frame # Frame(Default))
       /\ UNCHANGED <<phase, caller>>

Unimplemented ==
  /\ \/ \E plane \in {0, 1} : Becomes(toxAvSendVideoFrame(Session, plane, 1))
     \/ Becomes(toxAvCallControl(Session))
     \/ Becomes(toxAvSetBitRate(Session))
  /\ usual' = FALSE
  /\ UNCHANGED <<phase, caller>>

Next == ~aborted /\ (Iterate \/ StartCall \/ Answer \/ SendAudio \/ Unimplemented)

Spec == Init /\ [][Next]_vars

-----------------------------------------------------------------------------
TypeOK ==
  /\ call_to_friend \in [Indices -> Friends \cup {None}]
  /\ \A f \in Friends : friend_to_call[f] = None \/ friend_to_call[f] \in Calls
  /\ asked \in [Friends -> [Kinds -> Nat]]
  /\ phase \in [Indices -> {"free", "calling", "ringing", "invited", "answered", "active"}]

(***************************************************************************)
(* A client that calls friends there is no call with, answers those that   *)
(* call, and sends the frames it is asked for, meets no assertion, in      *)
(* whatever order friends call, ring, answer and send.                     *)
(***************************************************************************)
NoAbort == usual => ~aborted

(***************************************************************************)
(* The client has one request to answer exactly while the call has its     *)
(* event pending, whatever it did, and only for what the call sends: no    *)
(* frame is asked for twice, and none is waited for in vain.               *)
(***************************************************************************)
RequestsPending ==
  ~aborted =>
    \A f \in Friends, k \in Kinds :
      LET c == friend_to_call[f]
      IN /\ asked[f][k] = IF c # None /\ c.pending[k] THEN 1 ELSE 0
         /\ asked[f][k] > 0 => /\ c.state \in {"SENDING_A", "SENDING_AV"}
                               /\ k = "video" => c.state = "SENDING_AV"

(***************************************************************************)
(* Clients of this kind on both sides get each other's audio frames whole, *)
(* though the length is computed from the receiver's settings.             *)
(***************************************************************************)
FramesWhole ==
  usual => \A i \in Indices :
             phase[i] = "active" =>
               /\ Known(Session, i)
               /\ Received(CallOf(Session, i), Voice) = Samples(Voice)
=============================================================================
