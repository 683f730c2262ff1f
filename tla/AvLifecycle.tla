----------------------------- MODULE AvLifecycle -----------------------------
(***************************************************************************)
(* The lives of ToxCoreImpl and of the ToxAvImpl objects made on it.       *)
(*                                                                         *)
(* Both kinds of native instance are kept by an instance manager, here     *)
(* through what InstanceManager is shown to implement: Core and Av are two *)
(* copies of InstanceHandles.  What composes them is the code above        *)
(* (ToxCoreImpl.java, ToxAvImpl.java: the fields av and tox, close and     *)
(* finalize) and below (av.cpp: has_av, and a new_ToxAV that points to its *)
(* new_Tox).  The manager of one kind knows nothing of the other: only the *)
(* Java fields make close() of a core close its session first.             *)
(* Objects whose methods run are not collected here (see InstanceManager   *)
(* for what happens when they are).                                        *)
(***************************************************************************)
EXTENDS FiniteSets

CONSTANTS
  Threads, Collector, Cores, Avs, None,
  Allowed   \* what the application and the machine may do, see Practices

Actors == Threads \cup {Collector}

Practices == {
  "concurrent-close",  \* call close() while other threads use the same core
  "reclose",           \* close a ToxAvImpl again when its core has another
  "leak",              \* drop an object that was not closed
  "second-session",    \* make a ToxAvImpl on a core that has one
  "no-memory"}         \* toxav_new returns NULL

ASSUME AvAssumption ==
  /\ Collector \notin Threads
  /\ None \notin Actors \cup Cores \cup Avs
  /\ Cores \cap Avs = {}
  /\ Allowed \subseteq Practices

VARIABLES
  coreStatus, coreUser,   \* the core instance manager
  avStatus, avUser,       \* the AV instance manager
  avField,    \* ToxCoreImpl.av
  toxField,   \* ToxAvImpl.tox, None while the object is not constructed
  numbered,   \* the AV objects whose instanceNumber has been assigned
  hasAv,      \* new_Tox::has_av
  frame,      \* what each actor is executing, and on which objects
  held,       \* objects the application has a reference to
  gone,       \* objects whose finalizer has run
  crashed,    \* the process died of a NULL pointer
  closeEnded  \* history: cores on which a call of close() has ended

core == <<coreStatus, coreUser>>
av   == <<avStatus, avUser>>
java == <<avField, toxField, numbered>>
app  == <<held, gone, crashed>>
vars == <<core, av, java, hasAv, frame, app, closeEnded>>

Core == INSTANCE InstanceHandles WITH
  Users <- Threads, Handles <- Cores, Nobody <- None,
  status <- coreStatus, user <- coreUser

Av == INSTANCE InstanceHandles WITH
  Users <- Threads, Handles <- Avs, Nobody <- None,
  status <- avStatus, user <- avUser

Closing == {"closeAv", "avClose", "avKill", "avDying", "toxKill", "coreDying"}
Stages  == {"idle", "coreOp", "avOp", "ctor", "avNew", "avAdded"} \cup Closing

\* at: the next step; core: the core the call is on, directly or through the
\* session av; nested: ToxAvImpl.close was called by ToxCoreImpl.close.
Frame(at, c, a, nested) == [at |-> at, core |-> c, av |-> a, nested |-> nested]
Idle == Frame("idle", None, None, FALSE)

IsAt(x, stage) == ~crashed /\ frame[x].at = stage
Enter(x, fr)   == frame' = [frame EXCEPT ![x] = fr]
GoTo(x, stage) == frame' = [frame EXCEPT ![x].at = stage]
Leave(x)       == frame' = [frame EXCEPT ![x] = Idle]

\* close() ends, normally or with an exception.
CloseEnds(x) == closeEnded' = closeEnded \cup {frame[x].core}

\* An exception leaves ToxAvImpl.close, and ToxCoreImpl.close if that called it.
Throw(x) ==
  /\ Leave(x)
  /\ IF frame[x].nested THEN CloseEnds(x) ELSE UNCHANGED closeEnded

\* ToxAvImpl.close returns: its caller may be ToxCoreImpl.close.
AvCloseReturns(x) == IF frame[x].nested THEN GoTo(x, "toxKill") ELSE Leave(x)

-----------------------------------------------------------------------------
(* Ordinary calls. *)

\* ToxCore's documentation: "all additional threads should be stopped before one
\* thread invokes close()".
MayCall(t, c) ==
  \/ "concurrent-close" \in Allowed
  \/ \A u \in Threads \ {t} : ~(frame[u].core = c /\ frame[u].at \in Closing)

MayClose(t, c) ==
  "concurrent-close" \in Allowed \/ \A u \in Threads \ {t} : frame[u].core # c

NewCore(t, c) ==
  /\ IsAt(t, "idle")
  /\ Core!Open(c)
  /\ held' = held \cup {c}
  /\ UNCHANGED <<av, java, hasAv, frame, gone, crashed, closeEnded>>

BeginCoreOp(t, c) ==
  /\ IsAt(t, "idle") /\ c \in held /\ MayCall(t, c)
  /\ Core!Begin(t, c)
  /\ Enter(t, Frame("coreOp", c, None, FALSE))
  /\ UNCHANGED <<av, java, hasAv, app, closeEnded>>

EndCoreOp(t) ==
  /\ IsAt(t, "coreOp")
  /\ Core!End(t, frame[t].core)
  /\ Leave(t)
  /\ UNCHANGED <<av, java, hasAv, app, closeEnded>>

\* An AV operation takes the AV instance's mutex, not that of its core.
BeginAvOp(t, a) ==
  /\ IsAt(t, "idle") /\ a \in held /\ MayCall(t, toxField[a])
  /\ Av!Begin(t, a)
  /\ Enter(t, Frame("avOp", toxField[a], a, FALSE))
  /\ UNCHANGED <<core, java, hasAv, app, closeEnded>>

EndAvOp(t) ==
  /\ IsAt(t, "avOp")
  /\ Av!End(t, frame[t].av)
  /\ Leave(t)
  /\ UNCHANGED <<core, java, hasAv, app, closeEnded>>

-----------------------------------------------------------------------------
(* ToxAvImpl's constructor and toxAvNew. *)

\* Faulty: the session does not keep the core it is made on.
ConstructForgetsTox(t, c, a) ==
  /\ IsAt(t, "idle") /\ c \in held /\ toxField[a] = None /\ MayCall(t, c)
  /\ avField[c] = None \/ "second-session" \in Allowed
  /\ avField' = [avField EXCEPT ![c] = a]
  /\ Enter(t, Frame("ctor", c, a, FALSE))
  /\ UNCHANGED <<core, av, toxField, numbered, hasAv, app, closeEnded>>

\* tox.av is set before the native session exists.
Construct(t, c, a) ==
  /\ IsAt(t, "idle") /\ c \in held /\ toxField[a] = None /\ MayCall(t, c)
  /\ avField[c] = None \/ "second-session" \in Allowed
  /\ toxField' = [toxField EXCEPT ![a] = c]
  /\ avField' = [avField EXCEPT ![c] = a]
  /\ Enter(t, Frame("ctor", c, a, FALSE))
  /\ UNCHANGED <<core, av, numbered, hasAv, app, closeEnded>>

\* ToxKilledException: the object keeps instanceNumber 0, and stays in tox.av.
ConstructThrows(t) ==
  /\ IsAt(t, "ctor") /\ coreStatus[frame[t].core] = "closed"
  /\ Leave(t)
  /\ UNCHANGED <<core, av, java, hasAv, app, closeEnded>>

ToxAvNew(t) ==
  /\ IsAt(t, "ctor")
  /\ Core!Begin(t, frame[t].core)
  /\ GoTo(t, "avNew")
  /\ UNCHANGED <<av, java, hasAv, app, closeEnded>>

\* Faulty: no check for a session.
CreateUnchecked(t) ==
  /\ IsAt(t, "avNew")
  /\ hasAv' = [hasAv EXCEPT ![frame[t].core] = TRUE]
  /\ Av!Open(frame[t].av)
  /\ GoTo(t, "avAdded")
  /\ UNCHANGED <<core, java, app, closeEnded>>

Create(t) ==
  /\ IsAt(t, "avNew") /\ ~hasAv[frame[t].core]
  /\ hasAv' = [hasAv EXCEPT ![frame[t].core] = TRUE]
  /\ Av!Open(frame[t].av)
  /\ GoTo(t, "avAdded")
  /\ UNCHANGED <<core, java, app, closeEnded>>

\* new_toxav_new returns nullptr; toxAvNew ignores the error code and passes the
\* pointer to toxav_callback_call.
CreateFails(t) ==
  /\ IsAt(t, "avNew")
  /\ hasAv[frame[t].core] \/ "no-memory" \in Allowed
  /\ crashed' = TRUE
  /\ UNCHANGED <<core, av, java, hasAv, frame, held, gone, closeEnded>>

\* The core's mutex is released, instanceNumber assigned, the object returned.
Constructed(t) ==
  /\ IsAt(t, "avAdded")
  /\ Core!End(t, frame[t].core)
  /\ numbered' = numbered \cup {frame[t].av}
  /\ held' = held \cup {frame[t].av}
  /\ Leave(t)
  /\ UNCHANGED <<av, avField, toxField, hasAv, gone, crashed, closeEnded>>

-----------------------------------------------------------------------------
(* close. *)

CloseAv(t, a) ==
  /\ IsAt(t, "idle") /\ a \in held /\ MayClose(t, toxField[a])
  /\ avField[toxField[a]] \in {None, a} \/ "reclose" \in Allowed
  /\ Enter(t, Frame("avClose", toxField[a], a, FALSE))
  /\ UNCHANGED <<core, av, java, hasAv, app, closeEnded>>

\* Faulty: forgets the session.
CloseCoreOnly(t, c) ==
  /\ IsAt(t, "idle") /\ c \in held /\ MayClose(t, c)
  /\ Enter(t, Frame("toxKill", c, None, FALSE))
  /\ UNCHANGED <<core, av, java, hasAv, app, closeEnded>>

\* if (av != null) ...
CloseCore(t, c) ==
  /\ IsAt(t, "idle") /\ c \in held /\ MayClose(t, c)
  /\ Enter(t, Frame(IF avField[c] = None THEN "toxKill" ELSE "closeAv", c, None, FALSE))
  /\ UNCHANGED <<core, av, java, hasAv, app, closeEnded>>

\* ... av.close(), which reads the field again: NullPointerException when
\* another thread has cleared it in between.
CallAvClose(t) ==
  /\ IsAt(t, "closeAv")
  /\ LET c == frame[t].core
     IN IF avField[c] = None
        THEN Leave(t) /\ CloseEnds(t)
        ELSE Enter(t, Frame("avClose", c, avField[c], TRUE)) /\ UNCHANGED closeEnded
  /\ UNCHANGED <<core, av, java, hasAv, app>>

\* tox.av = null
ClearAvField(t) ==
  /\ IsAt(t, "avClose")
  /\ avField' = [avField EXCEPT ![frame[t].core] = None]
  /\ GoTo(t, "avKill")
  /\ UNCHANGED <<core, av, toxField, numbered, hasAv, app, closeEnded>>

\* toxAvKill(0): ToxKilledException.
KillIncomplete(t) ==
  /\ IsAt(t, "avKill") /\ frame[t].av \notin numbered
  /\ Throw(t)
  /\ UNCHANGED <<core, av, java, hasAv, app>>

ToxAvKill(t) ==
  /\ IsAt(t, "avKill") /\ frame[t].av \in numbered
  /\ Av!Shut(frame[t].av)
  /\ GoTo(t, "avDying")
  /\ UNCHANGED <<core, java, hasAv, app, closeEnded>>

\* The session is closed already.
ToxAvKillAgain(t) ==
  /\ IsAt(t, "avKill") /\ frame[t].av \in numbered
  /\ avStatus[frame[t].av] = "closed"
  /\ AvCloseReturns(t)
  /\ UNCHANGED <<core, av, java, hasAv, app, closeEnded>>

\* Faulty: has_av stays set.
KillAvForgets(x) ==
  /\ IsAt(x, "avDying")
  /\ Av!Destroyed(frame[x].av)
  /\ AvCloseReturns(x)
  /\ gone' = IF x = Collector THEN gone \cup {frame[x].av} ELSE gone
  /\ UNCHANGED <<core, java, hasAv, held, crashed, closeEnded>>

\* new_toxav_kill: toxav_kill works on the core's messenger, then has_av is
\* cleared, without the core's mutex.
KillAv(x) ==
  /\ IsAt(x, "avDying")
  /\ Av!Destroyed(frame[x].av)
  /\ hasAv' = [hasAv EXCEPT ![frame[x].core] = FALSE]
  /\ AvCloseReturns(x)
  /\ gone' = IF x = Collector THEN gone \cup {frame[x].av} ELSE gone
  /\ UNCHANGED <<core, java, held, crashed, closeEnded>>

ToxKill(t) ==
  /\ IsAt(t, "toxKill")
  /\ Core!Shut(frame[t].core)
  /\ GoTo(t, "coreDying")
  /\ UNCHANGED <<av, java, hasAv, app, closeEnded>>

ToxKillAgain(t) ==
  /\ IsAt(t, "toxKill") /\ coreStatus[frame[t].core] = "closed"
  /\ Leave(t)
  /\ CloseEnds(t)
  /\ UNCHANGED <<core, av, java, hasAv, app>>

\* new_tox_kill, which does not look at has_av.
KillCore(x) ==
  /\ IsAt(x, "coreDying")
  /\ Core!Destroyed(frame[x].core)
  /\ Leave(x)
  /\ IF x = Collector
     THEN gone' = gone \cup {frame[x].core} /\ UNCHANGED closeEnded
     ELSE CloseEnds(x) /\ UNCHANGED gone
  /\ UNCHANGED <<av, java, hasAv, held, crashed>>

-----------------------------------------------------------------------------
(* Garbage collection. *)

Drop(o) ==
  /\ ~crashed /\ o \in held
  /\ \/ "leak" \in Allowed
     \/ o \in Cores /\ coreStatus[o] = "closed"
     \/ o \in Avs /\ avStatus[o] = "closed"
  /\ held' = held \ {o}
  /\ UNCHANGED <<core, av, java, hasAv, frame, gone, crashed, closeEnded>>

\* What the application and the running methods refer to, and from there the
\* fields tox and av.
Reachable ==
  LET roots == held \cup UNION {{frame[t].core, frame[t].av} : t \in Threads}
      toxes == {toxField[a] : a \in roots \cap Avs} \cup (roots \cap Cores)
  IN roots \cup toxes \cup {avField[c] : c \in toxes \cap Cores}

Collectable(o) == IsAt(Collector, "idle") /\ o \notin Reachable \cup gone

\* finalize of a closed object, or of one without a number, only frees numbers.
FinalizeClosed(o) ==
  /\ Collectable(o)
  /\ \/ o \in Avs /\ toxField[o] # None /\ (o \in numbered => avStatus[o] = "closed")
     \/ o \in Cores /\ coreStatus[o] = "closed"
  /\ gone' = gone \cup {o}
  /\ UNCHANGED <<core, av, java, hasAv, frame, held, crashed, closeEnded>>

FinalizeLeakedAv(a) ==
  /\ Collectable(a) /\ a \in numbered
  /\ Av!Shut(a)
  /\ Enter(Collector, Frame("avDying", toxField[a], a, FALSE))
  /\ UNCHANGED <<core, java, hasAv, app, closeEnded>>

FinalizeLeakedCore(c) ==
  /\ Collectable(c)
  /\ Core!Shut(c)
  /\ Enter(Collector, Frame("coreDying", c, None, FALSE))
  /\ UNCHANGED <<av, java, hasAv, app, closeEnded>>

-----------------------------------------------------------------------------
Init ==
  /\ Core!HInit /\ Av!HInit
  /\ avField = [c \in Cores |-> None]
  /\ toxField = [a \in Avs |-> None]
  /\ numbered = {}
  /\ hasAv = [c \in Cores |-> FALSE]
  /\ frame = [x \in Actors |-> Idle]
  /\ held = {} /\ gone = {} /\ crashed = FALSE /\ closeEnded = {}

Starts(t) ==
  \/ \E c \in Cores : NewCore(t, c) \/ BeginCoreOp(t, c) \/ CloseCore(t, c)
  \/ \E a \in Avs : BeginAvOp(t, a) \/ CloseAv(t, a)
  \/ \E c \in Cores, a \in Avs : Construct(t, c, a)

Continues(t) ==
  \/ EndCoreOp(t) \/ EndAvOp(t)
  \/ ConstructThrows(t) \/ ToxAvNew(t) \/ Create(t) \/ CreateFails(t) \/ Constructed(t)
  \/ CallAvClose(t) \/ ClearAvField(t)
  \/ KillIncomplete(t) \/ ToxAvKill(t) \/ ToxAvKillAgain(t)
  \/ ToxKill(t) \/ ToxKillAgain(t)

Destroys(x) == KillAv(x) \/ KillCore(x)

Collects ==
  \/ \E o \in Cores \cup Avs : Drop(o) \/ FinalizeClosed(o)
  \/ \E a \in Avs : FinalizeLeakedAv(a)
  \/ \E c \in Cores : FinalizeLeakedCore(c)

\* The process died, or no object is left to make one from.
Stopped ==
  /\ crashed \/ (held = {} /\ \A x \in Actors : frame[x] = Idle)
  /\ UNCHANGED vars

Next ==
  \/ \E t \in Threads : Starts(t) \/ Continues(t)
  \/ \E x \in Actors : Destroys(x)
  \/ Collects
  \/ Stopped

Spec == Init /\ [][Next]_vars

-----------------------------------------------------------------------------
OnCore == {"idle", "coreOp", "closeAv", "toxKill", "coreDying"}

TypeOK ==
  /\ coreStatus \in [Cores -> {"absent", "open", "closing", "closed"}]
  /\ coreUser \in [Cores -> Threads \cup {None}]
  /\ avStatus \in [Avs -> {"absent", "open", "closing", "closed"}]
  /\ avUser \in [Avs -> Threads \cup {None}]
  /\ avField \in [Cores -> Avs \cup {None}]
  /\ toxField \in [Avs -> Cores \cup {None}]
  /\ numbered \subseteq Avs
  /\ hasAv \in [Cores -> BOOLEAN]
  /\ frame \in [Actors -> [at : Stages, core : Cores \cup {None},
                           av : Avs \cup {None}, nested : BOOLEAN]]
  /\ \A x \in Actors : frame[x].at \notin OnCore =>
       frame[x].av \in Avs /\ frame[x].core = toxField[frame[x].av]
  /\ held \subseteq Cores \cup Avs
  /\ gone \subseteq Cores \cup Avs
  /\ crashed \in BOOLEAN
  /\ closeEnded \subseteq Cores

\* No AV operation runs and no session is torn down on a core whose memory has
\* been freed: new_ToxAV keeps a pointer to its new_Tox and both use the
\* messenger, while nothing native ties the two lifetimes together.
NoDanglingCore ==
  \A x \in Actors : frame[x].at \in {"avOp", "avDying"} =>
    coreStatus[frame[x].core] # "closed"

\* toxAvNew never uses the nullptr that new_toxav_new returns on failure.
NoCrash == ~crashed

\* has_av says whether a native session exists, and there is at most one for a
\* core, although it is cleared without the lock under which it is tested.
Sessions(c) == {a \in Avs : toxField[a] = c /\ avStatus[a] \in {"open", "closing"}}

OneSession ==
  \A c \in Cores : Cardinality(Sessions(c)) = IF hasAv[c] THEN 1 ELSE 0

\* Once a call of ToxCore.close() has ended, by returning or by an exception,
\* the core and its session are closed.
CloseKills ==
  \A c \in closeEnded : coreStatus[c] = "closed" /\ Sessions(c) = {}

=============================================================================
