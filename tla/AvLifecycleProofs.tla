-------------------------- MODULE AvLifecycleProofs --------------------------
(***************************************************************************)
(* Theorems about AvLifecycle, for any sets of threads, cores and sessions.*)
(***************************************************************************)
EXTENDS AvLifecycle, FiniteSetTheorems, TLAPS

(***************************************************************************)
(* Whatever the application does: types, and has_av against the sessions.  *)
(***************************************************************************)
Constructing == {"ctor", "avNew", "avAdded"}

\* A call on a session is a call on the core the session was made on; the
\* collector only destroys.
FrameInv ==
  /\ \A x \in Actors :
       /\ frame[x].at # "idle" => frame[x].core \in Cores
       /\ frame[x].at = "idle" => frame[x].core = None /\ frame[x].av = None
       /\ frame[x].av # None => frame[x].core = toxField[frame[x].av]
       /\ frame[x].nested => frame[x].at \in Closing
  /\ frame[Collector].at \in {"idle", "avDying", "coreDying"}
  /\ ~frame[Collector].nested

\* A session that exists, or is known to Java, has its core.
MadeOn ==
  /\ \A a \in Avs : avStatus[a] # "absent" \/ a \in numbered \cup held => toxField[a] \in Cores
  /\ \A c \in Cores : avField[c] # None => toxField[avField[c]] = c

Live(a) == avStatus[a] \in {"open", "closing"}

\* What keeps a native object from being destroyed.
InUse ==
  /\ \A t \in Threads :
       /\ frame[t].at \in {"coreOp", "avNew", "avAdded"} => coreUser[frame[t].core] = t
       /\ frame[t].at = "avOp" => avUser[frame[t].av] = t
  /\ \A c \in Cores : coreUser[c] # None => coreStatus[c] \in {"open", "closing"}
  /\ \A a \in Avs : avUser[a] # None => Live(a)
  /\ \A x \in Actors :
       /\ frame[x].at = "avDying" => avStatus[frame[x].av] = "closing"
       /\ frame[x].at = "coreDying" => coreStatus[frame[x].core] # "absent"
  /\ \A x, y \in Actors :
       frame[x].at = "avDying" /\ frame[y].at = "avDying" /\ frame[x].av = frame[y].av => x = y

\* has_av in terms of single sessions.
Exclusive ==
  /\ \A a, b \in Avs : Live(a) /\ Live(b) /\ toxField[a] = toxField[b] => a = b
  /\ \A c \in Cores : hasAv[c] <=> \E a \in Avs : Live(a) /\ toxField[a] = c

LifeInv == TypeOK /\ FrameInv /\ MadeOn /\ InUse /\ Exclusive

FrameSet == [at : Stages, core : Cores \cup {None}, av : Avs \cup {None}, nested : BOOLEAN]

\* ToxAvImpl.close gives its caller the same call back, or there is none.
LEMMA CloseReturns ==
  ASSUME LifeInv, NEW x \in Actors, frame[x].at \in {"avKill", "avDying"},
         x = Collector => ~frame[x].nested, AvCloseReturns(x)
  PROVE  \E fr \in FrameSet :
           /\ frame' = [frame EXCEPT ![x] = fr]
           /\ \/ fr = Idle
              \/ /\ x \in Threads /\ fr.at = "toxKill"
                 /\ fr.core = frame[x].core /\ fr.av = frame[x].av
<1>1. frame \in [Actors -> FrameSet]
  BY DEF LifeInv, TypeOK, FrameSet
<1>2. CASE frame[x].nested
  <2> DEFINE fr == [frame[x] EXCEPT !.at = "toxKill"]
  <2>1. fr \in FrameSet
    BY <1>1 DEF FrameSet, Stages, Closing
  <2>2. frame' = [frame EXCEPT ![x] = fr]
    BY <1>1, <1>2 DEF AvCloseReturns, GoTo
  <2>3. x \in Threads /\ fr.at = "toxKill" /\ fr.core = frame[x].core /\ fr.av = frame[x].av
    BY <1>1, <1>2 DEF FrameSet, Actors
  <2>4. QED BY <2>1, <2>2, <2>3
<1>3. CASE ~frame[x].nested
  BY <1>3 DEF AvCloseReturns, Leave, Idle, Frame, FrameSet, Stages
<1>4. QED BY <1>2, <1>3

LEMMA LifeConstruct ==
  ASSUME LifeInv, NEW t \in Threads, NEW c \in Cores, NEW a \in Avs, Construct(t, c, a)
  PROVE  LifeInv'
<1> USE AvAssumption DEF LifeInv, Live, Constructing, Construct, IsAt, Enter, Frame,
        core, av, app, Actors, Closing, Stages, OnCore
<1>1. \A x \in Actors : frame[x].av # a /\ frame[x].at # "idle" => frame[x].core \in Cores
  BY DEF TypeOK, FrameInv
<1>2. avStatus[a] = "absent" /\ a \notin numbered \cup held
      /\ \A d \in Cores : avField[d] # a
  BY DEF TypeOK, MadeOn
<1>3. TypeOK'
  BY <1>1 DEF TypeOK, FrameInv
<1>4. FrameInv'
  BY <1>1 DEF TypeOK, FrameInv
<1>5. MadeOn'
  BY <1>2 DEF TypeOK, MadeOn
<1>6. InUse'
  BY DEF TypeOK, InUse
<1>7. Exclusive'
  BY <1>2 DEF TypeOK, Exclusive
<1>8. QED BY <1>3, <1>4, <1>5, <1>6, <1>7

LEMMA LifeCallAvClose ==
  ASSUME LifeInv, NEW t \in Threads, CallAvClose(t)
  PROVE  LifeInv'
<1> DEFINE c == frame[t].core
<1>1. /\ frame \in [Actors -> FrameSet] /\ t \in Actors /\ t # Collector
      /\ c \in Cores /\ frame[t].at = "closeAv" /\ Collector \in Actors
  BY AvAssumption DEF LifeInv, TypeOK, FrameInv, FrameSet, CallAvClose, IsAt, Actors
<1>2. PICK fr \in FrameSet :
        /\ frame' = [frame EXCEPT ![t] = fr]
        /\ \/ fr = Idle
           \/ fr.at = "avClose" /\ fr.core = c /\ fr.av \in Avs /\ toxField[fr.av] = c
        /\ closeEnded' \in {closeEnded, closeEnded \cup {c}}
        /\ UNCHANGED <<core, av, java, hasAv, app>>
  <2>1. CASE avField[c] = None
    <3>1. Idle \in FrameSet
      BY DEF Idle, Frame, FrameSet, Stages
    <3>2. QED BY <2>1, <3>1 DEF CallAvClose, Leave, CloseEnds
  <2>2. CASE avField[c] # None
    <3> DEFINE fr == Frame("avClose", c, avField[c], TRUE)
    <3>1. avField[c] \in Avs /\ toxField[avField[c]] = c
      BY <1>1, <2>2 DEF LifeInv, TypeOK, MadeOn
    <3>2. fr \in FrameSet /\ fr.at = "avClose" /\ fr.core = c /\ fr.av = avField[c]
      BY <1>1, <3>1 DEF Frame, FrameSet, Stages, Closing
    <3>3. frame' = [frame EXCEPT ![t] = fr] /\ closeEnded' = closeEnded
          /\ UNCHANGED <<core, av, java, hasAv, app>>
      BY <2>2 DEF CallAvClose, Enter
    <3>4. QED BY <3>1, <3>2, <3>3
  <2>3. QED BY <2>1, <2>2
<1> HIDE DEF c
<1>3. fr = Idle => fr.at = "idle" /\ fr.core = None /\ fr.av = None /\ fr.nested = FALSE
  BY DEF Idle, Frame
<1>4. TypeOK'
  BY <1>1, <1>2, <1>3 DEF LifeInv, TypeOK, FrameSet, OnCore, core, av, java, app
<1>5. FrameInv'
  BY <1>1, <1>2, <1>3, AvAssumption DEF LifeInv, FrameInv, FrameSet, Closing, java
<1>6. MadeOn' /\ Exclusive'
  BY <1>2 DEF LifeInv, MadeOn, Exclusive, Live, core, av, java, app
<1>7. InUse'
  BY <1>1, <1>2, <1>3 DEF LifeInv, InUse, Live, FrameSet, core, av, Actors
<1>8. QED BY <1>4, <1>5, <1>6, <1>7 DEF LifeInv

\* A close() that finds the session closed, or has destroyed it.
LEMMA LifeAvCloseReturns ==
  ASSUME LifeInv, NEW x \in Actors, (x \in Threads /\ ToxAvKillAgain(x)) \/ KillAv(x)
  PROVE  LifeInv'
<1> DEFINE a == frame[x].av
           c == frame[x].core
<1>1. /\ frame \in [Actors -> FrameSet] /\ Collector \in Actors
      /\ a \in Avs /\ c \in Cores /\ c = toxField[a]
      /\ frame[x].at \in {"avKill", "avDying"}
      /\ x = Collector => ~frame[x].nested
  BY AvAssumption DEF LifeInv, TypeOK, FrameInv, FrameSet, OnCore, ToxAvKillAgain, KillAv,
     IsAt, Actors
<1>2. PICK fr \in FrameSet :
        /\ frame' = [frame EXCEPT ![x] = fr]
        /\ \/ fr = Idle
           \/ x \in Threads /\ fr.at = "toxKill" /\ fr.core = c /\ fr.av = a
  BY <1>1, CloseReturns DEF ToxAvKillAgain, KillAv
<1>3. \/ UNCHANGED <<avStatus, hasAv, gone>>
      \/ /\ frame[x].at = "avDying" /\ avStatus[a] = "closing" /\ avUser[a] = None
         /\ avStatus' = [avStatus EXCEPT ![a] = "closed"]
         /\ hasAv' = [hasAv EXCEPT ![c] = FALSE]
         /\ gone' \in {gone, gone \cup {a}}
  BY DEF ToxAvKillAgain, KillAv, Av!Destroyed, Av!Move, IsAt, av, app
<1>4. UNCHANGED <<core, avUser, java, held, crashed, closeEnded>>
  BY DEF ToxAvKillAgain, KillAv, Av!Destroyed, av, app
<1>5. fr = Idle => fr.at = "idle" /\ fr.core = None /\ fr.av = None /\ fr.nested = FALSE
  BY DEF Idle, Frame
<1> HIDE DEF a, c
<1>6. TypeOK'
  <2>1. \A y \in Actors : frame'[y].at \notin OnCore =>
          frame'[y].av \in Avs /\ frame'[y].core = toxField[frame'[y].av]
    BY <1>1, <1>2, <1>5 DEF LifeInv, TypeOK, OnCore
  <2>2. /\ avStatus' \in [Avs -> {"absent", "open", "closing", "closed"}]
        /\ hasAv' \in [Cores -> BOOLEAN]
        /\ gone' \subseteq Cores \cup Avs
    <3>1. /\ avStatus \in [Avs -> {"absent", "open", "closing", "closed"}]
          /\ hasAv \in [Cores -> BOOLEAN] /\ gone \subseteq Cores \cup Avs
      BY DEF LifeInv, TypeOK
    <3>2. QED BY <1>1, <1>3, <3>1
  <2>3. frame' \in [Actors -> FrameSet]
    BY <1>1, <1>2
  <2>4. QED BY <1>4, <2>1, <2>2, <2>3 DEF LifeInv, TypeOK, FrameSet, core, java
<1>7. FrameInv'
  BY <1>1, <1>2, <1>4, <1>5, AvAssumption DEF LifeInv, FrameInv, FrameSet, Closing, java, Actors
<1>8. MadeOn'
  BY <1>1, <1>3, <1>4 DEF LifeInv, TypeOK, MadeOn, java
<1>9. Exclusive'
  BY <1>1, <1>3, <1>4 DEF LifeInv, TypeOK, Exclusive, Live, java
<1>10. InUse'
  <2>1. \A y \in Actors : frame'[y].at \in {"coreOp", "avNew", "avAdded", "avOp", "avDying",
                                            "coreDying"} => y # x /\ frame'[y] = frame[y]
    BY <1>1, <1>2, <1>5
  <2>2. \A b \in Avs : avUser[b] # None => Live(b)'
    BY <1>1, <1>3 DEF LifeInv, TypeOK, InUse, Live
  <2>3. \A y \in Actors : frame'[y].at = "avDying" => avStatus'[frame[y].av] = "closing"
    BY <1>1, <1>3, <2>1 DEF LifeInv, TypeOK, InUse, OnCore, a
  <2>4. QED BY <1>4, <2>1, <2>2, <2>3 DEF LifeInv, InUse, core, Actors
<1>11. QED BY <1>6, <1>7, <1>8, <1>9, <1>10 DEF LifeInv

LEMMA LifeStarts ==
  ASSUME LifeInv,
         NEW t \in Threads, Starts(t)
  PROVE  LifeInv'
<1> USE AvAssumption DEF LifeInv, TypeOK, FrameInv, MadeOn, InUse, Live, Exclusive, Constructing,
        IsAt, Enter, GoTo, Leave, Frame, Idle, CloseEnds, Throw, AvCloseReturns,
        core, av, java, app, Actors, Closing, Stages, OnCore
<1>1. ASSUME NEW c \in Cores, NewCore(t, c)
      PROVE  LifeInv'
  BY <1>1 DEF NewCore, Core!Open, Core!Move
<1>2. ASSUME NEW c \in Cores, BeginCoreOp(t, c)
      PROVE  LifeInv'
  BY <1>2 DEF BeginCoreOp, Core!Begin
<1>3. ASSUME NEW c \in Cores, CloseCore(t, c)
      PROVE  LifeInv'
  BY <1>3 DEF CloseCore
<1>4. ASSUME NEW a \in Avs, BeginAvOp(t, a)
      PROVE  LifeInv'
  BY <1>4 DEF BeginAvOp, Av!Begin
<1>5. ASSUME NEW a \in Avs, CloseAv(t, a)
      PROVE  LifeInv'
  BY <1>5 DEF CloseAv
<1>6. ASSUME NEW c \in Cores, NEW a \in Avs, Construct(t, c, a)
      PROVE  LifeInv'
  BY <1>6, LifeConstruct
<1>7. QED
  BY <1>1, <1>2, <1>3, <1>4, <1>5, <1>6 DEF Starts

LEMMA LifeContinues ==
  ASSUME LifeInv,
         NEW t \in Threads, Continues(t)
  PROVE  LifeInv'
<1> USE AvAssumption DEF LifeInv, TypeOK, FrameInv, MadeOn, InUse, Live, Exclusive, Constructing,
        IsAt, Enter, GoTo, Leave, Frame, Idle, CloseEnds, Throw, AvCloseReturns,
        core, av, java, app, Actors, Closing, Stages, OnCore
<1>1. CASE EndCoreOp(t)
  BY <1>1 DEF EndCoreOp, Core!End
<1>2. CASE EndAvOp(t)
  BY <1>2 DEF EndAvOp, Av!End
<1>3. CASE ConstructThrows(t)
  BY <1>3 DEF ConstructThrows
<1>4. CASE ToxAvNew(t)
  BY <1>4 DEF ToxAvNew, Core!Begin
<1>5. CASE Create(t)
  BY <1>5 DEF Create, Av!Open, Av!Move
<1>6. CASE CreateFails(t)
  BY <1>6 DEF CreateFails
<1>7. CASE Constructed(t)
  BY <1>7 DEF Constructed, Core!End
<1>8. CASE CallAvClose(t)
  BY <1>8, LifeCallAvClose
<1>9. CASE ClearAvField(t)
  BY <1>9 DEF ClearAvField
<1>10. CASE KillIncomplete(t)
  BY <1>10 DEF KillIncomplete
<1>11. CASE ToxAvKill(t)
  BY <1>11 DEF ToxAvKill, Av!Shut, Av!Move
<1>12. CASE ToxAvKillAgain(t)
  BY <1>12, LifeAvCloseReturns DEF Actors
<1>13. CASE ToxKill(t)
  BY <1>13 DEF ToxKill, Core!Shut, Core!Move
<1>14. CASE ToxKillAgain(t)
  BY <1>14 DEF ToxKillAgain
<1>15. QED
  BY <1>1, <1>2, <1>3, <1>4, <1>5, <1>6, <1>7, <1>8, <1>9, <1>10, <1>11, <1>12, <1>13, <1>14 DEF Continues

LEMMA LifeDestroys ==
  ASSUME LifeInv,
         NEW x \in Actors, Destroys(x)
  PROVE  LifeInv'
<1> USE AvAssumption DEF LifeInv, TypeOK, FrameInv, MadeOn, InUse, Live, Exclusive, Constructing,
        IsAt, Enter, GoTo, Leave, Frame, Idle, CloseEnds, Throw, AvCloseReturns,
        core, av, java, app, Actors, Closing, Stages, OnCore
<1>1. CASE KillAv(x)
  BY <1>1, LifeAvCloseReturns
<1>2. CASE KillCore(x)
  BY <1>2 DEF KillCore, Core!Destroyed, Core!Move
<1>3. QED
  BY <1>1, <1>2 DEF Destroys

LEMMA LifeCollects ==
  ASSUME LifeInv,
         Collects
  PROVE  LifeInv'
<1> USE AvAssumption DEF LifeInv, TypeOK, FrameInv, MadeOn, InUse, Live, Exclusive, Constructing,
        IsAt, Enter, GoTo, Leave, Frame, Idle, CloseEnds, Throw, AvCloseReturns,
        core, av, java, app, Actors, Closing, Stages, OnCore
<1>1. ASSUME NEW o \in Cores \cup Avs, Drop(o)
      PROVE  LifeInv'
  BY <1>1 DEF Drop
<1>2. ASSUME NEW o \in Cores \cup Avs, FinalizeClosed(o)
      PROVE  LifeInv'
  BY <1>2 DEF FinalizeClosed, Collectable
<1>3. ASSUME NEW a \in Avs, FinalizeLeakedAv(a)
      PROVE  LifeInv'
  BY <1>3 DEF FinalizeLeakedAv, Av!Shut, Av!Move, Collectable
<1>4. ASSUME NEW c \in Cores, FinalizeLeakedCore(c)
      PROVE  LifeInv'
  BY <1>4 DEF FinalizeLeakedCore, Core!Shut, Core!Move, Collectable
<1>5. QED
  BY <1>1, <1>2, <1>3, <1>4 DEF Collects

LEMMA LifeInit == Init => LifeInv
<1> SUFFICES ASSUME Init PROVE LifeInv
  OBVIOUS
<1> USE AvAssumption DEF Init, Core!HInit, Av!HInit, Idle, Frame, Live, Actors
<1>1. Collector \in Actors /\ "idle" \in Stages /\ "idle" \in OnCore
  BY DEF Stages, OnCore
<1>2. TypeOK
  BY <1>1 DEF TypeOK
<1>3. FrameInv
  BY <1>1 DEF FrameInv
<1>4. MadeOn /\ InUse /\ Exclusive
  BY DEF MadeOn, InUse, Exclusive
<1>5. QED BY <1>2, <1>3, <1>4 DEF LifeInv

LEMMA LifeStep == LifeInv /\ [Next]_vars => LifeInv'
<1> SUFFICES ASSUME LifeInv, [Next]_vars PROVE LifeInv'
  OBVIOUS
<1>1. ASSUME NEW t \in Threads, Starts(t) PROVE LifeInv'
  BY <1>1, LifeStarts
<1>2. ASSUME NEW t \in Threads, Continues(t) PROVE LifeInv'
  BY <1>2, LifeContinues
<1>3. ASSUME NEW x \in Actors, Destroys(x) PROVE LifeInv'
  BY <1>3, LifeDestroys
<1>4. CASE Collects
  BY <1>4, LifeCollects
<1>5. CASE UNCHANGED vars
  BY <1>5 DEF LifeInv, TypeOK, FrameInv, MadeOn, InUse, Exclusive, Live, vars, core, av, java, app
<1>6. QED BY <1>1, <1>2, <1>3, <1>4, <1>5 DEF Next, Stopped

\* LifeInv is an inductive invariant, whatever the application does.
THEOREM AlwaysLife == Spec => []LifeInv
BY LifeInit, LifeStep, PTL DEF Spec

\* Every variable keeps its type, and a call on a session is a call on the core
\* the session was made on, whatever the application does and however the
\* finalizer interleaves.
THEOREM AvTypes == Spec => []TypeOK
<1>1. LifeInv => TypeOK
  BY DEF LifeInv
<1>2. QED BY <1>1, AlwaysLife, PTL

LEMMA ExclusiveIsOneSession == LifeInv => OneSession
<1> SUFFICES ASSUME LifeInv, NEW c \in Cores
             PROVE  Cardinality(Sessions(c)) = IF hasAv[c] THEN 1 ELSE 0
  BY DEF OneSession
<1>1. CASE hasAv[c]
  <2>1. PICK a \in Avs : Live(a) /\ toxField[a] = c
    BY <1>1 DEF LifeInv, Exclusive
  <2>2. Sessions(c) = {a}
    BY <2>1 DEF LifeInv, Exclusive, Sessions, Live
  <2>3. QED BY <1>1, <2>2, FS_Singleton
<1>2. CASE ~hasAv[c]
  <2>1. Sessions(c) = {}
    BY <1>2 DEF LifeInv, Exclusive, Sessions, Live
  <2>2. QED BY <1>2, <2>1, FS_EmptySet
<1>3. QED BY <1>1, <1>2

\* has_av is set exactly while the core has a native session, and there is never
\* a second one, whatever the application does: new_ToxAV tests has_av under the
\* core's mutex, but its destructor clears it without.
THEOREM OnlyOneSession == Spec => []OneSession
BY ExclusiveIsOneSession, AlwaysLife, PTL

-----------------------------------------------------------------------------
(***************************************************************************)
(* Where the application closes a core only when no other thread uses it,  *)
(* and no session a second time.                                           *)
(***************************************************************************)
Orderly == "concurrent-close" \notin Allowed /\ "reclose" \notin Allowed

\* The thread that closes a core or its session has them to itself.
ClosesAlone ==
  \A t \in Threads : frame[t].at \in Closing =>
    \A u \in Threads \ {t} : frame[u].core # frame[t].core

Building(t, c) == frame[t].at \in {"ctor", "avNew"} /\ frame[t].core = c

\* ToxCoreImpl.av is the session there is, unless a thread is closing that one
\* or is making another.
LiveField ==
  \A a \in Avs : Live(a) =>
    \/ avField[toxField[a]] = a
    \/ \E t \in Threads : frame[t].at \in {"avKill", "avDying"} /\ frame[t].av = a
    \/ \E t \in Threads : Building(t, toxField[a]) /\ frame[t].av # a

\* While a session is being made, ToxCoreImpl.av is that or a later one.
BuildField ==
  \A t \in Threads, c \in Cores : Building(t, c) =>
    LET b == avField[c]
    IN /\ b # None
       /\ \/ \E u \in Threads : Building(u, c) /\ frame[u].av = b
          \/ avStatus[b] = "open"
          \/ coreStatus[c] = "closed"

\* close() works its way from the session to the core.
ClosingField ==
  \A t \in Threads :
    /\ frame[t].at = "closeAv" => avField[frame[t].core] # None
    /\ frame[t].at = "avClose" => avField[frame[t].core] \in {None, frame[t].av}
    /\ frame[t].at \in {"avKill", "avDying", "toxKill", "coreDying"} =>
         avField[frame[t].core] = None

\* An object without a number is being constructed, or its core is closed.
Numbered ==
  /\ held \cap Avs \subseteq numbered
  /\ \A a \in Avs : Live(a) =>
       a \in numbered \/ \E t \in Threads : frame[t].at = "avAdded" /\ frame[t].av = a
  /\ \A c \in Cores : avField[c] # None /\ avField[c] \notin numbered =>
       \/ coreStatus[c] = "closed"
       \/ \E t \in Threads : frame[t].at \in Constructing /\ frame[t].av = avField[c]
  /\ \A t \in Threads : frame[t].at \in {"avClose", "avKill"} /\ frame[t].av \notin numbered =>
       coreStatus[frame[t].core] = "closed"

\* The application or a running method can still get at the core.
Known(c) ==
  \/ c \in held
  \/ \E t \in Threads : frame[t].core = c
  \/ \E a \in Avs : a \in held /\ toxField[a] = c

\* A core that somebody closed has no session, unless nobody knows the core.
ClosedEmpty ==
  /\ \A a \in Avs : Live(a) /\ Known(toxField[a]) => coreStatus[toxField[a]] # "closed"
  /\ frame[Collector].at = "coreDying" => ~Known(frame[Collector].core)

\* CloseKills in terms of single sessions.
EndedClosed ==
  /\ \A c \in closeEnded : coreStatus[c] = "closed"
  /\ \A a \in Avs : Live(a) => toxField[a] \notin closeEnded

OrderInv ==
  /\ ClosesAlone
  /\ LiveField
  /\ BuildField
  /\ ClosingField
  /\ Numbered
  /\ ClosedEmpty
  /\ EndedClosed

\* Where nothing is leaked, a session is held until it is closed.
HeldInv ==
  \A a \in Avs : Live(a) =>
    a \in held \/ \E t \in Threads : frame[t].at = "avAdded" /\ frame[t].av = a

\* Where a core is given one session at a time, there is none while one is made.
BuildsAlone ==
  \A t \in Threads, c \in Cores : Building(t, c) =>
    /\ \A a \in Avs : Live(a) => toxField[a] # c
    /\ \A u \in Threads \ {t} : ~Building(u, c)

LEMMA OrderCallAvClose ==
  ASSUME Orderly, LifeInv, LifeInv', OrderInv, NEW t \in Threads, CallAvClose(t)
  PROVE  OrderInv'
<1> DEFINE c == frame[t].core
           b == avField[c]
           fr == Frame("avClose", c, b, TRUE)
<1>1. /\ frame \in [Actors -> FrameSet] /\ t \in Actors /\ t # Collector
      /\ c \in Cores /\ frame[t].at = "closeAv" /\ frame'[t].core = c
      /\ b \in Avs /\ toxField[b] = c
  <2>1. /\ frame \in [Actors -> FrameSet] /\ t \in Actors /\ t # Collector
        /\ c \in Cores /\ frame[t].at = "closeAv"
    BY AvAssumption DEF LifeInv, TypeOK, FrameInv, FrameSet, CallAvClose, IsAt, Actors
  <2>2. b # None
    BY <2>1 DEF OrderInv, ClosingField
  <2>3. b \in Avs /\ toxField[b] = c
    BY <2>1, <2>2 DEF LifeInv, TypeOK, MadeOn
  <2>4. frame'[t].core = c
    BY <2>1, <2>2 DEF CallAvClose, Enter, Frame
  <2>5. QED BY <2>1, <2>3, <2>4
<1>2. /\ frame' = [frame EXCEPT ![t] = fr]
      /\ fr.at = "avClose" /\ fr.core = c /\ fr.av = b
      /\ UNCHANGED <<coreStatus, avStatus, avField, toxField, numbered, held, closeEnded>>
  BY <1>1, AvAssumption DEF CallAvClose, Enter, Frame, core, av, java, app
<1> HIDE DEF c, fr
<1>3. \A x \in Actors : x # t => frame'[x] = frame[x]
  BY <1>1, <1>2
<1>4. ClosesAlone'
  BY <1>1, <1>2, <1>3 DEF OrderInv, ClosesAlone, Closing, c, Actors
<1>5. LiveField' /\ BuildField'
  BY <1>1, <1>2 DEF OrderInv, LiveField, BuildField, Building, Live, Actors
<1>6. ClosingField'
  BY <1>1, <1>2 DEF OrderInv, ClosingField, Actors
<1>7. Numbered'
  <2>1. \A u \in Threads : ~(frame[u].at \in Constructing /\ frame[u].av = b)
    <3>1. SUFFICES ASSUME NEW u \in Threads, frame[u].at \in Constructing, frame[u].av = b
                   PROVE  FALSE
      OBVIOUS
    <3>2. u \in Actors /\ b # None
      BY <1>1, AvAssumption DEF Actors
    <3>3. frame[u].core = c
      BY <1>1, <3>1, <3>2 DEF LifeInv, FrameInv
    <3>4. u # t
      BY <1>1, <3>1 DEF Constructing
    <3>5. QED BY <1>1, <3>1, <3>3, <3>4 DEF OrderInv, ClosesAlone, Closing, c
  <2>2. b \notin numbered => coreStatus[c] = "closed"
    BY <1>1, <2>1, AvAssumption DEF OrderInv, Numbered
  <2>3. QED
    BY <1>1, <1>2, <2>2 DEF OrderInv, Numbered, Live, Constructing, Actors
<1>8. ClosedEmpty' /\ EndedClosed'
  BY <1>1, <1>2, <1>3 DEF OrderInv, ClosedEmpty, EndedClosed, Known, Live, c, Actors
<1>9. QED BY <1>4, <1>5, <1>6, <1>7, <1>8 DEF OrderInv

\* A close() that finds the session closed, or has destroyed it.
LEMMA OrderAvCloseReturns ==
  ASSUME Orderly, LifeInv, LifeInv', OrderInv, NEW x \in Actors,
         (x \in Threads /\ ToxAvKillAgain(x)) \/ KillAv(x)
  PROVE  OrderInv'
<1> DEFINE a == frame[x].av
           c == frame[x].core
<1>1. /\ frame \in [Actors -> FrameSet] /\ Collector \in Actors /\ Collector \notin Threads
      /\ a \in Avs /\ c \in Cores /\ c = toxField[a] /\ a # None
      /\ frame[x].at \in {"avKill", "avDying"}
      /\ x = Collector => ~frame[x].nested
  BY AvAssumption DEF LifeInv, TypeOK, FrameInv, FrameSet, OnCore, ToxAvKillAgain, KillAv,
     IsAt, Actors
<1>2. PICK fr \in FrameSet :
        /\ frame' = [frame EXCEPT ![x] = fr]
        /\ \/ fr = Idle
           \/ x \in Threads /\ fr.at = "toxKill" /\ fr.core = c /\ fr.av = a
  BY <1>1, CloseReturns DEF ToxAvKillAgain, KillAv
<1>3. /\ avStatus'[a] = "closed" /\ avStatus[a] # "open"
      /\ \A b \in Avs : b # a => avStatus'[b] = avStatus[b]
  <2>1. CASE ToxAvKillAgain(x)
    BY <2>1 DEF ToxAvKillAgain, av
  <2>2. CASE KillAv(x)
    BY <1>1, <2>2 DEF KillAv, Av!Destroyed, Av!Move, Live, LifeInv, TypeOK
  <2>3. QED BY <2>1, <2>2
<1>4. UNCHANGED <<coreStatus, avField, toxField, numbered, held, closeEnded>>
  BY DEF ToxAvKillAgain, KillAv, Av!Destroyed, core, java, app
<1>5. fr = Idle => fr.at = "idle" /\ fr.core = None /\ fr.av = None
  BY DEF Idle, Frame
<1>6. /\ \A y \in Actors : y # x => frame'[y] = frame[y]
      /\ frame'[x] = fr
      /\ \A u \in Threads : u \in Actors
  BY <1>1, <1>2 DEF Actors
<1> HIDE DEF a, c
<1>7. ClosesAlone'
  <2>1. /\ frame[x].at \in Closing
        /\ \A u \in Threads : frame[u].at \in Closing => frame[u].core \in Cores /\ frame[u].core # None
    BY <1>1, <1>6, AvAssumption DEF LifeInv, FrameInv, Closing
  <2>2. frame'[x].at \in Closing => frame'[x].core = c
    BY <1>2, <1>5, <1>6 DEF Closing
  <2>3. frame'[x].core \in {c, None}
    BY <1>2, <1>5, <1>6
  <2>4. QED BY <1>6, <2>1, <2>2, <2>3 DEF OrderInv, ClosesAlone, c
<1>8. LiveField'
  <2>1. SUFFICES ASSUME NEW b \in Avs, Live(b)'
                 PROVE  \/ avField[toxField[b]] = b
                        \/ \E t \in Threads : frame'[t].at \in {"avKill", "avDying"} /\ frame'[t].av = b
                        \/ \E t \in Threads : Building(t, toxField[b])' /\ frame'[t].av # b
    BY <1>4 DEF LiveField, Building
  <2>2. b # a /\ Live(b)
    BY <1>3, <2>1 DEF Live
  <2>3. \A t \in Threads : frame[t].at \in {"avKill", "avDying"} /\ frame[t].av = b => t # x
    BY <2>2 DEF a
  <2>4. \A t \in Threads : Building(t, toxField[b]) => t # x
    BY <1>1 DEF Building
  <2>5. QED BY <1>4, <1>6, <2>2, <2>3, <2>4 DEF OrderInv, LiveField, Building
<1>9. BuildField'
  <2>1. \A t \in Threads, d \in Cores : Building(t, d)' <=> Building(t, d)
    BY <1>1, <1>2, <1>5, <1>6 DEF Building
  <2>2. \A t \in Threads, d \in Cores : Building(t, d) => frame'[t] = frame[t]
    BY <1>1, <1>6 DEF Building
  <2>3. \A b \in Avs : avStatus[b] = "open" => avStatus'[b] = "open"
    BY <1>3
  <2>4. QED BY <1>4, <2>1, <2>2, <2>3 DEF OrderInv, BuildField, LifeInv, TypeOK
<1>10. ClosingField'
  BY <1>1, <1>2, <1>4, <1>5, <1>6 DEF OrderInv, ClosingField, c
<1>11. Numbered'
  <2>1. \A t \in Threads : frame[t].at \in Constructing => t # x /\ frame'[t] = frame[t]
    BY <1>1, <1>6 DEF Constructing
  <2>2. \A t \in Threads : frame'[t].at \in {"avClose", "avKill"} => frame'[t] = frame[t]
    BY <1>2, <1>5, <1>6
  <2>3. \A b \in Avs : Live(b)' => Live(b)
    BY <1>3 DEF Live
  <2>4. QED BY <1>4, <2>1, <2>2, <2>3 DEF OrderInv, Numbered, Constructing
<1>12. ClosedEmpty' /\ EndedClosed'
  <2>1. \A b \in Avs : Live(b)' => Live(b) /\ toxField[b] \in Cores
    BY <1>3 DEF Live, LifeInv, MadeOn
  <2>2. \A d \in Cores : Known(d)' => Known(d)
    BY <1>2, <1>4, <1>5, <1>6, AvAssumption DEF Known, c
  <2>3. frame'[Collector].at = "coreDying" => frame'[Collector] = frame[Collector]
    BY <1>1, <1>2, <1>5, <1>6
  <2>4. frame[Collector].at = "coreDying" => frame[Collector].core \in Cores
    BY <1>1 DEF LifeInv, FrameInv
  <2>5. EndedClosed'
    BY <1>4, <2>1 DEF OrderInv, EndedClosed
  <2>6. \A b \in Avs : Live(b)' /\ Known(toxField[b])' => coreStatus'[toxField[b]] # "closed"
    BY <1>4, <2>1, <2>2 DEF OrderInv, ClosedEmpty, Known
  <2>7. frame'[Collector].at = "coreDying" => ~Known(frame[Collector].core)'
    BY <2>2, <2>3, <2>4 DEF OrderInv, ClosedEmpty, Known
  <2>8. QED BY <1>4, <2>5, <2>6, <2>7 DEF ClosedEmpty, Known
<1>13. QED BY <1>7, <1>8, <1>9, <1>10, <1>11, <1>12 DEF OrderInv

LEMMA OrderConstruct ==
  ASSUME Orderly, LifeInv, LifeInv', OrderInv, NEW t \in Threads, NEW c \in Cores,
         NEW a \in Avs, Construct(t, c, a)
  PROVE  OrderInv'
<1>1. /\ frame \in [Actors -> FrameSet] /\ t \in Actors /\ t # Collector /\ a # None
      /\ frame[t].at = "idle" /\ c \in held
      /\ \A u \in Threads \ {t} : ~(frame[u].core = c /\ frame[u].at \in Closing)
      /\ \A u \in Threads : u \in Actors
  BY AvAssumption DEF LifeInv, TypeOK, FrameSet, Construct, IsAt, MayCall, Orderly, Actors
<1>2. /\ \A x \in Actors : x # t => frame'[x] = frame[x]
      /\ frame'[t].at = "ctor" /\ frame'[t].core = c /\ frame'[t].av = a
      /\ avField'[c] = a /\ toxField'[a] = c
      /\ \A d \in Cores : d # c => avField'[d] = avField[d]
      /\ \A b \in Avs : b # a => toxField'[b] = toxField[b]
      /\ UNCHANGED <<coreStatus, avStatus, numbered, held, closeEnded>>
  BY <1>1 DEF Construct, Enter, Frame, core, av, app, LifeInv, TypeOK
<1>3. avStatus[a] = "absent" /\ a \notin numbered \cup held
  BY AvAssumption DEF LifeInv, TypeOK, MadeOn, Construct
<1>4. \A b \in Avs : Live(b)' => Live(b) /\ b # a /\ toxField[b] \in Cores
  BY <1>2, <1>3 DEF Live, LifeInv, MadeOn
<1>5. \A u \in Threads, d \in Cores : Building(u, d)' <=> Building(u, d) \/ (u = t /\ d = c)
  BY <1>1, <1>2 DEF Building
<1>6. ClosesAlone'
  BY <1>1, <1>2 DEF OrderInv, ClosesAlone, Closing
<1>7. LiveField'
  <2>1. SUFFICES ASSUME NEW b \in Avs, Live(b)'
                 PROVE  \/ avField'[toxField'[b]] = b
                        \/ \E u \in Threads : frame'[u].at \in {"avKill", "avDying"} /\ frame'[u].av = b
                        \/ \E u \in Threads : Building(u, toxField[b])' /\ frame'[u].av # b
    BY DEF LiveField
  <2>2. PICK d \in Cores : d = toxField[b] /\ d = toxField'[b]
    BY <1>2, <1>4, <2>1
  <2>3. CASE d = c
    <3>1. Building(t, toxField[b])'
      BY <1>2, <2>2, <2>3 DEF Building
    <3>2. frame'[t].av # b
      BY <1>2, <1>4, <2>1
    <3>3. QED BY <3>1, <3>2
  <2>4. CASE d # c
    <3>1. \/ avField[d] = b
          \/ \E u \in Threads : frame[u].at \in {"avKill", "avDying"} /\ frame[u].av = b
          \/ \E u \in Threads : Building(u, d) /\ frame[u].av # b
      BY <1>4, <2>1, <2>2 DEF OrderInv, LiveField
    <3>2. \A u \in Threads : Building(u, d) => Building(u, toxField[b])' /\ frame'[u] = frame[u]
      BY <1>1, <1>2, <2>2 DEF Building
    <3>3. \A u \in Threads : frame[u].at \in {"avKill", "avDying"} => frame'[u] = frame[u]
      BY <1>1, <1>2
    <3>4. QED BY <1>2, <2>2, <2>4, <3>1, <3>2, <3>3
  <2>5. QED BY <2>3, <2>4
<1>8. BuildField'
  <2>1. SUFFICES ASSUME NEW u \in Threads, NEW d \in Cores, Building(u, d)'
                 PROVE  /\ avField'[d] # None
                        /\ \/ \E w \in Threads : Building(w, d)' /\ frame'[w].av = avField'[d]
                           \/ avStatus'[avField'[d]] = "open"
                           \/ coreStatus'[d] = "closed"
    BY DEF BuildField, Building
  <2>2. CASE d = c
    BY <1>1, <1>2, <1>5, <2>2
  <2>3. CASE d # c
    BY <1>1, <1>2, <1>5, <2>1, <2>3 DEF OrderInv, BuildField, Building
  <2>4. QED BY <2>2, <2>3
<1>9. ClosingField'
  <2>1. ASSUME NEW u \in Threads, frame'[u].at \in Closing
        PROVE  /\ u # t /\ frame'[u] = frame[u]
               /\ frame[u].core \in Cores /\ avField'[frame[u].core] = avField[frame[u].core]
    BY <1>1, <1>2, <2>1 DEF Closing, LifeInv, FrameInv
  <2>2. QED BY <2>1 DEF OrderInv, ClosingField, Closing
<1>10. Numbered'
  <2>1. \A u \in Threads : frame[u].at # "idle" => frame'[u] = frame[u]
    BY <1>1, <1>2
  <2>2. ASSUME NEW d \in Cores, avField'[d] # None, avField'[d] \notin numbered
        PROVE  \/ coreStatus[d] = "closed"
               \/ \E u \in Threads : frame'[u].at \in Constructing /\ frame'[u].av = avField'[d]
    <3>1. CASE d = c
      BY <1>2, <3>1 DEF Constructing
    <3>2. CASE d # c
      BY <1>2, <2>1, <2>2, <3>2 DEF OrderInv, Numbered, Constructing
    <3>3. QED BY <3>1, <3>2
  <2>3. \A b \in Avs : Live(b)' =>
          b \in numbered \/ \E u \in Threads : frame'[u].at = "avAdded" /\ frame'[u].av = b
    BY <1>4, <2>1 DEF OrderInv, Numbered
  <2>4. \A u \in Threads : frame'[u].at \in {"avClose", "avKill"} => frame'[u] = frame[u]
    BY <1>1, <1>2
  <2>5. QED BY <1>2, <2>2, <2>3, <2>4 DEF OrderInv, Numbered
<1>11. ClosedEmpty' /\ EndedClosed'
  <2>1. \A d \in Cores : Known(d)' => Known(d)
    BY <1>1, <1>2, <1>3 DEF Known
  <2>2. \A b \in Avs : Live(b)' => Live(b) /\ toxField[b] \in Cores /\ toxField'[b] = toxField[b]
    BY <1>2, <1>4
  <2>3. EndedClosed'
    BY <1>2, <2>2 DEF OrderInv, EndedClosed
  <2>4. \A b \in Avs : Live(b)' /\ Known(toxField[b])' => coreStatus'[toxField'[b]] # "closed"
    <3>1. SUFFICES ASSUME NEW b \in Avs, Live(b)', Known(toxField[b])'
                   PROVE  coreStatus[toxField[b]] # "closed"
      BY <1>2, <2>2
    <3>2. PICK d \in Cores : d = toxField[b] /\ d = toxField'[b]
      BY <2>2, <3>1
    <3>3. Known(d)'
      BY <3>1, <3>2 DEF Known
    <3>4. Known(toxField[b])
      BY <2>1, <3>2, <3>3
    <3>5. QED BY <2>2, <3>1, <3>4 DEF OrderInv, ClosedEmpty
  <2>5. frame'[Collector].at = "coreDying" => ~Known(frame[Collector].core)'
    <3>1. Collector \in Actors /\ frame'[Collector] = frame[Collector]
      BY <1>1, <1>2 DEF Actors
    <3>2. frame[Collector].at = "coreDying" => frame[Collector].core \in Cores
      BY <3>1 DEF LifeInv, FrameInv
    <3>3. QED BY <2>1, <3>1, <3>2 DEF OrderInv, ClosedEmpty, Known
  <2>6. QED BY <2>3, <2>4, <2>5 DEF ClosedEmpty
<1>12. QED BY <1>6, <1>7, <1>8, <1>9, <1>10, <1>11 DEF OrderInv

LEMMA OrderCreate ==
  ASSUME Orderly, LifeInv, LifeInv', OrderInv, NEW t \in Threads, Create(t)
  PROVE  OrderInv'
<1>1. PICK a \in Avs, c \in Cores :
        a = frame[t].av /\ c = frame[t].core /\ c = toxField[a] /\ frame[t].at = "avNew"
  BY DEF Create, IsAt, LifeInv, TypeOK, FrameInv, OnCore, Actors
<1>2. /\ frame \in [Actors -> FrameSet] /\ t \in Actors /\ t # Collector
      /\ \A u \in Threads : u \in Actors
  BY AvAssumption DEF LifeInv, TypeOK, FrameSet, Actors
<1>3. /\ \A x \in Actors : x # t => frame'[x] = frame[x]
      /\ frame'[t].at = "avAdded" /\ frame'[t].core = c /\ frame'[t].av = a
      /\ avStatus'[a] = "open" /\ \A b \in Avs : b # a => avStatus'[b] = avStatus[b]
      /\ UNCHANGED <<coreStatus, avField, toxField, numbered, held, closeEnded>>
  <2>1. frame' = [frame EXCEPT ![t] = [frame[t] EXCEPT !.at = "avAdded"]]
    BY <1>2 DEF Create, GoTo
  <2>2. frame'[t].at = "avAdded" /\ frame'[t].core = frame[t].core /\ frame'[t].av = frame[t].av
    BY <1>2, <2>1 DEF FrameSet
  <2>3. \A x \in Actors : x # t => frame'[x] = frame[x]
    BY <1>2, <2>1
  <2>4. avStatus'[a] = "open" /\ \A b \in Avs : b # a => avStatus'[b] = avStatus[b]
    BY <1>1 DEF Create, Av!Open, Av!Move, LifeInv, TypeOK
  <2>5. UNCHANGED <<coreStatus, avField, toxField, numbered, held, closeEnded>>
    BY DEF Create, core, java, app
  <2>6. QED BY <1>1, <2>2, <2>3, <2>4, <2>5
<1>4. /\ coreStatus[c] # "closed"
      /\ \A b \in Avs : Live(b) => toxField[b] # c
  <2>1. coreUser[c] = t /\ t # None
    BY <1>1, AvAssumption DEF LifeInv, InUse, Actors
  <2>2. coreStatus[c] # "closed"
    BY <2>1 DEF LifeInv, InUse
  <2>3. ~hasAv[c]
    BY <1>1 DEF Create
  <2>4. QED BY <2>2, <2>3 DEF LifeInv, Exclusive
<1>5. \A u \in Threads, d \in Cores : Building(u, d)' <=> Building(u, d) /\ u # t
  BY <1>2, <1>3 DEF Building
<1>6. ClosesAlone' /\ ClosingField'
  <2>1. \A u \in Threads : frame'[u].core = frame[u].core
    BY <1>1, <1>2, <1>3
  <2>2. \A u \in Threads : frame'[u].at \in Closing => frame'[u] = frame[u]
    BY <1>2, <1>3 DEF Closing
  <2>3. ClosesAlone'
    BY <2>1, <2>2 DEF OrderInv, ClosesAlone
  <2>4. ClosingField'
    BY <1>3, <2>2 DEF OrderInv, ClosingField, Closing
  <2>5. QED BY <2>3, <2>4
<1>7. LiveField'
  <2>1. ASSUME NEW b \in Avs, b # a, Live(b)'
        PROVE  \/ avField[toxField[b]] = b
               \/ \E u \in Threads : frame'[u].at \in {"avKill", "avDying"} /\ frame'[u].av = b
               \/ \E u \in Threads : Building(u, toxField[b])' /\ frame'[u].av # b
    <3>1. Live(b) /\ toxField[b] # c
      BY <1>3, <1>4, <2>1 DEF Live
    <3>2. \A u \in Threads : Building(u, toxField[b]) =>
            Building(u, toxField[b])' /\ frame'[u] = frame[u]
      BY <1>1, <1>2, <1>3, <3>1 DEF Building
    <3>3. \A u \in Threads : frame[u].at \in {"avKill", "avDying"} => frame'[u] = frame[u]
      BY <1>1, <1>2, <1>3
    <3>4. QED BY <3>1, <3>2, <3>3 DEF OrderInv, LiveField
  <2>2. avField[c] = a \/ \E u \in Threads : Building(u, toxField[a])' /\ frame'[u].av # a
    <3>1. Building(t, c)
      BY <1>1 DEF Building
    <3>2. avField[c] \in Avs /\ toxField[avField[c]] = c
      BY <3>1 DEF OrderInv, BuildField, LifeInv, TypeOK, MadeOn
    <3>3. \E u \in Threads : Building(u, c) /\ frame[u].av = avField[c]
      BY <1>4, <3>1, <3>2 DEF OrderInv, BuildField, Live
    <3>4. SUFFICES ASSUME avField[c] # a
                   PROVE  \E u \in Threads : Building(u, toxField[a])' /\ frame'[u].av # a
      OBVIOUS
    <3>5. PICK u \in Threads : Building(u, c) /\ frame[u].av # a
      BY <3>3, <3>4
    <3>6. u # t
      BY <1>1, <3>5
    <3>7. QED BY <1>1, <1>2, <1>3, <3>5, <3>6 DEF Building
  <2>3. QED BY <1>1, <1>3, <2>1, <2>2 DEF LiveField, Building
<1>8. BuildField'
  <2>1. SUFFICES ASSUME NEW u \in Threads, NEW d \in Cores, Building(u, d)'
                 PROVE  /\ avField[d] # None
                        /\ \/ \E w \in Threads : Building(w, d)' /\ frame'[w].av = avField[d]
                           \/ avStatus'[avField[d]] = "open"
                           \/ coreStatus[d] = "closed"
    BY <1>3 DEF BuildField, Building
  <2>2. /\ avField[d] # None /\ avField[d] \in Avs
        /\ \/ \E w \in Threads : Building(w, d) /\ frame[w].av = avField[d]
           \/ avStatus[avField[d]] = "open"
           \/ coreStatus[d] = "closed"
    BY <1>5, <2>1 DEF OrderInv, BuildField, LifeInv, TypeOK
  <2>3. ASSUME NEW w \in Threads, Building(w, d), frame[w].av = avField[d]
        PROVE  (Building(w, d)' /\ frame'[w].av = avField[d]) \/ avStatus'[avField[d]] = "open"
    <3>1. CASE w = t
      BY <1>1, <1>3, <2>3, <3>1
    <3>2. CASE w # t
      BY <1>2, <1>3, <1>5, <2>3, <3>2
    <3>3. QED BY <3>1, <3>2
  <2>4. avStatus[avField[d]] = "open" => avStatus'[avField[d]] = "open"
    BY <1>3, <2>2
  <2>5. QED BY <2>2, <2>3, <2>4
<1>9. Numbered'
  <2>1. \A u \in Threads : frame[u].at \in Constructing =>
          frame'[u].at \in Constructing /\ frame'[u].av = frame[u].av
    BY <1>1, <1>2, <1>3 DEF Constructing
  <2>2. \A u \in Threads : frame'[u].at \in {"avClose", "avKill"} => frame'[u] = frame[u]
    BY <1>2, <1>3
  <2>3. \A b \in Avs : Live(b)' =>
          b \in numbered \/ \E u \in Threads : frame'[u].at = "avAdded" /\ frame'[u].av = b
    <3>1. ASSUME NEW b \in Avs, b # a, Live(b)'
          PROVE  b \in numbered \/ \E u \in Threads : frame'[u].at = "avAdded" /\ frame'[u].av = b
      <4>1. Live(b)
        BY <1>3, <3>1 DEF Live
      <4>2. \A u \in Threads : frame[u].at = "avAdded" => frame'[u] = frame[u]
        BY <1>1, <1>2, <1>3
      <4>3. QED BY <4>1, <4>2 DEF OrderInv, Numbered
    <3>2. QED BY <1>3, <3>1
  <2>4. QED BY <1>3, <2>1, <2>2, <2>3 DEF OrderInv, Numbered
<1>10. ClosedEmpty' /\ EndedClosed'
  <2>1. \A b \in Avs : Live(b)' => Live(b) \/ b = a
    BY <1>3 DEF Live
  <2>2. \A d : Known(d)' <=> Known(d)
    BY <1>1, <1>2, <1>3 DEF Known
  <2>3. Collector \in Actors /\ frame'[Collector] = frame[Collector]
    BY <1>2, <1>3 DEF Actors
  <2>4. EndedClosed'
    BY <1>1, <1>3, <1>4, <2>1 DEF OrderInv, EndedClosed
  <2>5. \A b \in Avs : Live(b)' /\ Known(toxField[b])' => coreStatus'[toxField'[b]] # "closed"
    <3>1. SUFFICES ASSUME NEW b \in Avs, Live(b)', Known(toxField[b])'
                   PROVE  coreStatus[toxField[b]] # "closed"
      BY <1>3
    <3>2. Known(toxField[b])
      BY <1>3, <2>2, <3>1 DEF Known
    <3>3. QED BY <1>1, <1>4, <2>1, <3>1, <3>2 DEF OrderInv, ClosedEmpty
  <2>6. frame'[Collector].at = "coreDying" => ~Known(frame[Collector].core)'
    BY <2>2, <2>3 DEF OrderInv, ClosedEmpty, Known
  <2>7. QED BY <2>4, <2>5, <2>6 DEF ClosedEmpty
<1>11. QED BY <1>6, <1>7, <1>8, <1>9, <1>10 DEF OrderInv

LEMMA OrderStarts ==
  ASSUME Orderly, LifeInv, LifeInv', OrderInv,
         NEW t \in Threads, Starts(t)
  PROVE  OrderInv'
<1> USE AvAssumption DEF Orderly, LifeInv, TypeOK, FrameInv, MadeOn, Live, Exclusive,
        OrderInv, ClosesAlone, LiveField, BuildField, ClosingField, Numbered, ClosedEmpty,
        EndedClosed, Constructing, Building, Known, MayCall, MayClose,
        IsAt, Enter, GoTo, Leave, Frame, Idle, CloseEnds, Throw,
        core, av, java, app, Actors, Closing
<1>1. ASSUME NEW c \in Cores, NewCore(t, c)
      PROVE  OrderInv'
  <2>1. ClosesAlone' /\ ClosingField'
    BY <1>1 DEF NewCore
  <2>2. LiveField'
    BY <1>1 DEF NewCore
  <2>3. BuildField'
    BY <1>1 DEF NewCore, Core!Open, Core!Move
  <2>4. Numbered'
    BY <1>1 DEF NewCore, Core!Open, Core!Move
  <2>5. ClosedEmpty'
    BY <1>1 DEF NewCore, Core!Open, Core!Move, InUse
  <2>6. EndedClosed'
    BY <1>1 DEF NewCore, Core!Open, Core!Move
  <2>7. QED BY <2>1, <2>2, <2>3, <2>4, <2>5, <2>6
<1>2. ASSUME NEW c \in Cores, BeginCoreOp(t, c)
      PROVE  OrderInv'
  <2>1. ClosesAlone' /\ ClosingField'
    BY <1>2 DEF BeginCoreOp, Core!Begin
  <2>2. LiveField' /\ BuildField'
    BY <1>2 DEF BeginCoreOp, Core!Begin
  <2>3. Numbered' /\ ClosedEmpty' /\ EndedClosed'
    BY <1>2 DEF BeginCoreOp, Core!Begin
  <2>4. QED BY <2>1, <2>2, <2>3
<1>3. ASSUME NEW c \in Cores, CloseCore(t, c)
      PROVE  OrderInv'
  <2>1. ClosesAlone' /\ ClosingField'
    BY <1>3 DEF CloseCore
  <2>2. LiveField'
    BY <1>3 DEF CloseCore
  <2>3. BuildField'
    <3>1. \A u \in Threads, d \in Cores :
            (Building(u, d)' <=> Building(u, d)) /\ (Building(u, d) => frame'[u] = frame[u])
      BY <1>3 DEF CloseCore
    <3>2. QED BY <1>3, <3>1 DEF CloseCore
  <2>4. Numbered' /\ ClosedEmpty' /\ EndedClosed'
    BY <1>3 DEF CloseCore
  <2>5. QED BY <2>1, <2>2, <2>3, <2>4
<1>4. ASSUME NEW a \in Avs, BeginAvOp(t, a)
      PROVE  OrderInv'
  <2>1. ClosesAlone' /\ ClosingField'
    BY <1>4 DEF BeginAvOp, Av!Begin
  <2>2. LiveField'
    BY <1>4 DEF BeginAvOp, Av!Begin
  <2>3. BuildField'
    BY <1>4 DEF BeginAvOp, Av!Begin
  <2>4. Numbered'
    BY <1>4 DEF BeginAvOp, Av!Begin
  <2>5. ClosedEmpty'
    BY <1>4 DEF BeginAvOp, Av!Begin
  <2>6. EndedClosed'
    BY <1>4 DEF BeginAvOp, Av!Begin
  <2>7. QED BY <2>1, <2>2, <2>3, <2>4, <2>5, <2>6
<1>5. ASSUME NEW a \in Avs, CloseAv(t, a)
      PROVE  OrderInv'
  BY <1>5 DEF CloseAv
<1>6. ASSUME NEW c \in Cores, NEW a \in Avs, Construct(t, c, a)
      PROVE  OrderInv'
  BY <1>6, OrderConstruct
<1>7. QED
  BY <1>1, <1>2, <1>3, <1>4, <1>5, <1>6 DEF Starts

LEMMA OrderContinues ==
  ASSUME Orderly, LifeInv, LifeInv', OrderInv,
         NEW t \in Threads, Continues(t)
  PROVE  OrderInv'
<1> USE AvAssumption DEF Orderly, LifeInv, TypeOK, FrameInv, MadeOn, Live, Exclusive,
        OrderInv, ClosesAlone, LiveField, BuildField, ClosingField, Numbered, ClosedEmpty,
        EndedClosed, Constructing, Building, Known, MayCall, MayClose,
        IsAt, Enter, GoTo, Leave, Frame, Idle, CloseEnds, Throw,
        core, av, java, app, Actors, Closing
<1>1. CASE EndCoreOp(t)
  BY <1>1 DEF EndCoreOp, Core!End, InUse
<1>2. CASE EndAvOp(t)
  <2>1. ClosesAlone' /\ ClosingField'
    BY <1>2 DEF EndAvOp, Av!End
  <2>2. LiveField'
    BY <1>2 DEF EndAvOp, Av!End
  <2>3. BuildField'
    BY <1>2 DEF EndAvOp, Av!End
  <2>4. Numbered'
    BY <1>2 DEF EndAvOp, Av!End
  <2>5. ClosedEmpty'
    BY <1>2 DEF EndAvOp, Av!End
  <2>6. EndedClosed'
    BY <1>2 DEF EndAvOp, Av!End
  <2>7. QED BY <2>1, <2>2, <2>3, <2>4, <2>5, <2>6
<1>3. CASE ConstructThrows(t)
  BY <1>3 DEF ConstructThrows
<1>4. CASE ToxAvNew(t)
  <2>1. ClosesAlone' /\ ClosingField'
    BY <1>4 DEF ToxAvNew, Core!Begin
  <2>2. LiveField'
    BY <1>4 DEF ToxAvNew, Core!Begin
  <2>3. BuildField'
    BY <1>4 DEF ToxAvNew, Core!Begin
  <2>4. Numbered'
    BY <1>4 DEF ToxAvNew, Core!Begin
  <2>5. ClosedEmpty'
    BY <1>4 DEF ToxAvNew, Core!Begin
  <2>6. EndedClosed'
    BY <1>4 DEF ToxAvNew, Core!Begin
  <2>7. QED BY <2>1, <2>2, <2>3, <2>4, <2>5, <2>6
<1>5. CASE Create(t)
  BY <1>5, OrderCreate
<1>6. CASE CreateFails(t)
  <2>1. ClosesAlone' /\ ClosingField'
    BY <1>6 DEF CreateFails
  <2>2. LiveField'
    BY <1>6 DEF CreateFails
  <2>3. BuildField'
    BY <1>6 DEF CreateFails
  <2>4. Numbered'
    BY <1>6 DEF CreateFails
  <2>5. ClosedEmpty'
    BY <1>6 DEF CreateFails
  <2>6. EndedClosed'
    BY <1>6 DEF CreateFails
  <2>7. QED BY <2>1, <2>2, <2>3, <2>4, <2>5, <2>6
<1>7. CASE Constructed(t)
  BY <1>7 DEF Constructed, Core!End
<1>8. CASE CallAvClose(t)
  BY <1>8, OrderCallAvClose
<1>9. CASE ClearAvField(t)
  <2>1. ClosesAlone' /\ ClosingField'
    BY <1>9 DEF ClearAvField
  <2>2. LiveField'
    BY <1>9 DEF ClearAvField
  <2>3. BuildField'
    BY <1>9 DEF ClearAvField
  <2>4. Numbered'
    BY <1>9 DEF ClearAvField
  <2>5. ClosedEmpty'
    BY <1>9 DEF ClearAvField
  <2>6. EndedClosed'
    BY <1>9 DEF ClearAvField
  <2>7. QED BY <2>1, <2>2, <2>3, <2>4, <2>5, <2>6
<1>10. CASE KillIncomplete(t)
  BY <1>10 DEF KillIncomplete, InUse
<1>11. CASE ToxAvKill(t)
  <2>1. ClosesAlone' /\ ClosingField'
    BY <1>11 DEF ToxAvKill, Av!Shut, Av!Move
  <2>2. LiveField'
    BY <1>11 DEF ToxAvKill, Av!Shut, Av!Move
  <2>3. BuildField'
    BY <1>11 DEF ToxAvKill, Av!Shut, Av!Move
  <2>4. Numbered'
    BY <1>11 DEF ToxAvKill, Av!Shut, Av!Move
  <2>5. ClosedEmpty'
    BY <1>11 DEF ToxAvKill, Av!Shut, Av!Move
  <2>6. EndedClosed'
    BY <1>11 DEF ToxAvKill, Av!Shut, Av!Move
  <2>7. QED BY <2>1, <2>2, <2>3, <2>4, <2>5, <2>6
<1>12. CASE ToxAvKillAgain(t)
  BY <1>12, OrderAvCloseReturns DEF Actors
<1>13. CASE ToxKill(t)
  <2>1. ClosesAlone' /\ ClosingField'
    BY <1>13 DEF ToxKill, Core!Shut, Core!Move
  <2>2. LiveField'
    BY <1>13 DEF ToxKill, Core!Shut, Core!Move
  <2>3. BuildField'
    BY <1>13 DEF ToxKill, Core!Shut, Core!Move
  <2>4. Numbered'
    BY <1>13 DEF ToxKill, Core!Shut, Core!Move
  <2>5. ClosedEmpty'
    BY <1>13 DEF ToxKill, Core!Shut, Core!Move
  <2>6. EndedClosed'
    BY <1>13 DEF ToxKill, Core!Shut, Core!Move
  <2>7. QED BY <2>1, <2>2, <2>3, <2>4, <2>5, <2>6
<1>14. CASE ToxKillAgain(t)
  BY <1>14 DEF ToxKillAgain
<1>15. QED
  BY <1>1, <1>2, <1>3, <1>4, <1>5, <1>6, <1>7, <1>8, <1>9, <1>10, <1>11, <1>12, <1>13, <1>14 DEF Continues

LEMMA OrderDestroys ==
  ASSUME Orderly, LifeInv, LifeInv', OrderInv,
         NEW x \in Actors, Destroys(x)
  PROVE  OrderInv'
<1> USE AvAssumption DEF Orderly, LifeInv, TypeOK, FrameInv, MadeOn, Live, Exclusive,
        OrderInv, ClosesAlone, LiveField, BuildField, ClosingField, Numbered, ClosedEmpty,
        EndedClosed, Constructing, Building, Known, MayCall, MayClose,
        IsAt, Enter, GoTo, Leave, Frame, Idle, CloseEnds, Throw,
        core, av, java, app, Actors, Closing
<1>1. CASE KillAv(x)
  BY <1>1, OrderAvCloseReturns
<1>2. CASE KillCore(x)
  <2>1. ClosesAlone' /\ ClosingField'
    BY <1>2 DEF KillCore, Core!Destroyed, Core!Move
  <2>2. LiveField'
    BY <1>2 DEF KillCore, Core!Destroyed, Core!Move
  <2>3. BuildField'
    BY <1>2 DEF KillCore, Core!Destroyed, Core!Move
  <2>4. Numbered'
    BY <1>2 DEF KillCore, Core!Destroyed, Core!Move
  <2>5. ClosedEmpty'
    BY <1>2 DEF KillCore, Core!Destroyed, Core!Move
  <2>6. EndedClosed'
    BY <1>2 DEF KillCore, Core!Destroyed, Core!Move
  <2>7. QED BY <2>1, <2>2, <2>3, <2>4, <2>5, <2>6
<1>3. QED
  BY <1>1, <1>2 DEF Destroys

LEMMA OrderCollects ==
  ASSUME Orderly, LifeInv, LifeInv', OrderInv,
         Collects
  PROVE  OrderInv'
<1> USE AvAssumption DEF Orderly, LifeInv, TypeOK, FrameInv, MadeOn, Live, Exclusive,
        OrderInv, ClosesAlone, LiveField, BuildField, ClosingField, Numbered, ClosedEmpty,
        EndedClosed, Constructing, Building, Known, IsAt, Enter, Frame,
        core, av, java, app, Actors, Closing
<1>1. ASSUME NEW o \in Cores \cup Avs, Drop(o)
      PROVE  OrderInv'
  BY <1>1 DEF Drop
<1>2. ASSUME NEW o \in Cores \cup Avs, FinalizeClosed(o)
      PROVE  OrderInv'
  BY <1>2 DEF FinalizeClosed, Collectable
<1>3. ASSUME NEW a \in Avs, FinalizeLeakedAv(a)
      PROVE  OrderInv'
  <2>1. ClosesAlone' /\ ClosingField'
    BY <1>3 DEF FinalizeLeakedAv, Av!Shut, Av!Move, Collectable
  <2>2. LiveField'
    BY <1>3 DEF FinalizeLeakedAv, Av!Shut, Av!Move, Collectable
  <2>3. BuildField'
    <3>1. \A t \in Threads, c \in Cores : Building(t, c)' => Building(t, c) /\ avField[c] # a
      BY <1>3 DEF FinalizeLeakedAv, Collectable, Reachable
    <3>2. \A t \in Threads, c \in Cores : Building(t, c) => Building(t, c)' /\ frame'[t] = frame[t]
      BY <1>3 DEF FinalizeLeakedAv
    <3>3. avField' = avField /\ coreStatus' = coreStatus /\ avStatus' = [avStatus EXCEPT ![a] = "closing"]
      BY <1>3 DEF FinalizeLeakedAv, Av!Shut, Av!Move
    <3>4. QED BY <3>1, <3>2, <3>3
  <2>4. Numbered'
    BY <1>3 DEF FinalizeLeakedAv, Av!Shut, Av!Move, Collectable
  <2>5. ClosedEmpty'
    BY <1>3 DEF FinalizeLeakedAv, Av!Shut, Av!Move, Collectable
  <2>6. EndedClosed'
    BY <1>3 DEF FinalizeLeakedAv, Av!Shut, Av!Move, Collectable
  <2>7. QED BY <2>1, <2>2, <2>3, <2>4, <2>5, <2>6
<1>4. ASSUME NEW c \in Cores, FinalizeLeakedCore(c)
      PROVE  OrderInv'
  <2>1. ClosesAlone' /\ ClosingField'
    BY <1>4 DEF FinalizeLeakedCore, Core!Shut, Core!Move, Collectable
  <2>2. LiveField'
    BY <1>4 DEF FinalizeLeakedCore, Core!Shut, Core!Move, Collectable
  <2>3. BuildField'
    BY <1>4 DEF FinalizeLeakedCore, Core!Shut, Core!Move, Collectable
  <2>4. Numbered'
    BY <1>4 DEF FinalizeLeakedCore, Core!Shut, Core!Move, Collectable
  <2>5. ClosedEmpty'
    <3>1. ~Known(c)
      BY <1>4 DEF FinalizeLeakedCore, Collectable, Reachable
    <3>2. frame'[Collector].core = c
      BY <1>4 DEF FinalizeLeakedCore
    <3>3. \A d : Known(d)' <=> Known(d)
      BY <1>4 DEF FinalizeLeakedCore
    <3>4. ~Known(c)'
      BY <1>4, <3>1 DEF FinalizeLeakedCore
    <3>5. \A a \in Avs : Live(a)' /\ Known(toxField[a])' => coreStatus'[toxField'[a]] # "closed"
      BY <1>4, <3>3 DEF FinalizeLeakedCore, Core!Shut, Core!Move
    <3>6. QED BY <3>2, <3>4, <3>5
  <2>6. EndedClosed'
    BY <1>4 DEF FinalizeLeakedCore, Core!Shut, Core!Move, Collectable
  <2>7. QED BY <2>1, <2>2, <2>3, <2>4, <2>5, <2>6
<1>5. QED
  BY <1>1, <1>2, <1>3, <1>4 DEF Collects

LEMMA OrderInit == Init => OrderInv
<1> SUFFICES ASSUME Init PROVE OrderInv
  OBVIOUS
<1> USE AvAssumption DEF Init, Core!HInit, Av!HInit, Idle, Frame, Live, Actors
<1>1. ClosesAlone /\ ClosingField /\ BuildField
  BY DEF ClosesAlone, ClosingField, BuildField, Building, Closing
<1>2. LiveField /\ Numbered /\ ClosedEmpty /\ EndedClosed
  BY DEF LiveField, Numbered, ClosedEmpty, EndedClosed
<1>3. QED BY <1>1, <1>2 DEF OrderInv

LEMMA OrderStep ==
  ASSUME Orderly
  PROVE  LifeInv /\ LifeInv' /\ OrderInv /\ [Next]_vars => OrderInv'
<1> SUFFICES ASSUME LifeInv, LifeInv', OrderInv, [Next]_vars PROVE OrderInv'
  OBVIOUS
<1>1. ASSUME NEW t \in Threads, Starts(t) PROVE OrderInv'
  BY <1>1, OrderStarts
<1>2. ASSUME NEW t \in Threads, Continues(t) PROVE OrderInv'
  BY <1>2, OrderContinues
<1>3. ASSUME NEW x \in Actors, Destroys(x) PROVE OrderInv'
  BY <1>3, OrderDestroys
<1>4. CASE Collects
  BY <1>4, OrderCollects
<1>5. CASE UNCHANGED vars
  <2> USE <1>5 DEF vars, core, av, java, app, Live, Building
  <2>1. ClosesAlone' /\ LiveField' /\ BuildField' /\ ClosingField'
    BY DEF OrderInv, ClosesAlone, LiveField, BuildField, ClosingField
  <2>2. Numbered' /\ ClosedEmpty' /\ EndedClosed'
    BY DEF OrderInv, Numbered, ClosedEmpty, EndedClosed, Known
  <2>3. QED BY <2>1, <2>2 DEF OrderInv
<1>6. QED BY <1>1, <1>2, <1>3, <1>4, <1>5 DEF Next, Stopped

\* As long as nobody closes twice or while another call is at work, only the thread that
\* closes a core or session is at work on it, and one that has ended is closed.
THEOREM AlwaysOrder ==
  ASSUME Orderly
  PROVE  Spec => [](LifeInv /\ OrderInv)
<1>1. LifeInv /\ LifeInv' /\ OrderInv /\ [Next]_vars => OrderInv'
  BY OrderStep
<1>2. QED BY <1>1, OrderInit, AlwaysLife, PTL DEF Spec

\* Once a call of ToxCore.close() has ended, the core is closed and has no
\* session: for an application that closes a core when no other thread uses it,
\* even if it makes second sessions, drops objects without closing them, or runs
\* out of memory.
THEOREM CloseAlwaysKills ==
  ASSUME Orderly
  PROVE  Spec => []CloseKills
<1>1. LifeInv /\ OrderInv => CloseKills
  BY DEF LifeInv, TypeOK, OrderInv, EndedClosed, CloseKills, Sessions, Live
<1>2. QED BY <1>1, AlwaysOrder, PTL

-----------------------------------------------------------------------------
(***************************************************************************)
(* Where the application also closes whatever it drops.                    *)
(***************************************************************************)
LEMMA HeldStep ==
  ASSUME "leak" \notin Allowed
  PROVE  LifeInv /\ HeldInv /\ [Next]_vars => HeldInv'
<1> SUFFICES ASSUME LifeInv, HeldInv, [Next]_vars PROVE HeldInv'
  OBVIOUS
<1> USE AvAssumption DEF TypeOK, FrameInv, Live, HeldInv, LifeInv,
        IsAt, Enter, GoTo, Leave, Frame, Idle, CloseEnds, Throw, AvCloseReturns,
        core, av, java, app, Actors, Closing, Stages, OnCore
<1>1. ASSUME NEW t \in Threads, Starts(t) PROVE HeldInv'
  <2>1. ASSUME NEW c \in Cores, NewCore(t, c) PROVE HeldInv'
    BY <2>1 DEF NewCore, Core!Open, Core!Move
  <2>2. ASSUME NEW c \in Cores, BeginCoreOp(t, c) PROVE HeldInv'
    BY <2>2 DEF BeginCoreOp, Core!Begin
  <2>3. ASSUME NEW c \in Cores, CloseCore(t, c) PROVE HeldInv'
    BY <2>3 DEF CloseCore
  <2>4. ASSUME NEW a \in Avs, BeginAvOp(t, a) PROVE HeldInv'
    BY <2>4 DEF BeginAvOp, Av!Begin
  <2>5. ASSUME NEW a \in Avs, CloseAv(t, a) PROVE HeldInv'
    BY <2>5 DEF CloseAv
  <2>6. ASSUME NEW c \in Cores, NEW a \in Avs, Construct(t, c, a) PROVE HeldInv'
    BY <2>6 DEF Construct
  <2>7. QED BY <1>1, <2>1, <2>2, <2>3, <2>4, <2>5, <2>6 DEF Starts
<1>2. ASSUME NEW t \in Threads, Continues(t) PROVE HeldInv'
  <2>1. CASE EndCoreOp(t)
    BY <2>1 DEF EndCoreOp, Core!End
  <2>2. CASE EndAvOp(t)
    BY <2>2 DEF EndAvOp, Av!End
  <2>3. CASE ConstructThrows(t)
    BY <2>3 DEF ConstructThrows
  <2>4. CASE ToxAvNew(t)
    BY <2>4 DEF ToxAvNew, Core!Begin
  <2>5. CASE Create(t)
    BY <2>5 DEF Create, Av!Open, Av!Move
  <2>6. CASE CreateFails(t)
    BY <2>6 DEF CreateFails
  <2>7. CASE Constructed(t)
    BY <2>7 DEF Constructed, Core!End
  <2>8. CASE CallAvClose(t)
    BY <2>8 DEF CallAvClose
  <2>9. CASE ClearAvField(t)
    BY <2>9 DEF ClearAvField
  <2>10. CASE KillIncomplete(t)
    BY <2>10 DEF KillIncomplete
  <2>11. CASE ToxAvKill(t)
    BY <2>11 DEF ToxAvKill, Av!Shut, Av!Move
  <2>12. CASE ToxAvKillAgain(t)
    BY <2>12 DEF ToxAvKillAgain
  <2>13. CASE ToxKill(t)
    BY <2>13 DEF ToxKill, Core!Shut, Core!Move
  <2>14. CASE ToxKillAgain(t)
    BY <2>14 DEF ToxKillAgain
  <2>15. QED BY <1>2, <2>1, <2>2, <2>3, <2>4, <2>5, <2>6, <2>7, <2>8, <2>9, <2>10, <2>11, <2>12, <2>13, <2>14 DEF Continues
<1>3. ASSUME NEW x \in Actors, Destroys(x) PROVE HeldInv'
  <2>1. CASE KillAv(x)
    BY <2>1 DEF KillAv, Av!Destroyed, Av!Move
  <2>2. CASE KillCore(x)
    BY <2>2 DEF KillCore, Core!Destroyed, Core!Move
  <2>3. QED BY <1>3, <2>1, <2>2 DEF Destroys
<1>4. CASE Collects
  <2>1. ASSUME NEW o \in Cores \cup Avs, Drop(o) PROVE HeldInv'
    BY <2>1 DEF Drop
  <2>2. ASSUME NEW o \in Cores \cup Avs, FinalizeClosed(o) PROVE HeldInv'
    BY <2>2 DEF FinalizeClosed, Collectable
  <2>3. ASSUME NEW a \in Avs, FinalizeLeakedAv(a) PROVE HeldInv'
    BY <2>3 DEF FinalizeLeakedAv, Av!Shut, Av!Move, Collectable
  <2>4. ASSUME NEW c \in Cores, FinalizeLeakedCore(c) PROVE HeldInv'
    BY <2>4 DEF FinalizeLeakedCore, Core!Shut, Core!Move, Collectable
  <2>5. QED BY <1>4, <2>1, <2>2, <2>3, <2>4 DEF Collects
<1>5. CASE UNCHANGED vars
  BY <1>5 DEF vars
<1>6. QED BY <1>1, <1>2, <1>3, <1>4, <1>5 DEF Next, Stopped

LEMMA HeldInit == Init => HeldInv
BY DEF Init, Av!HInit, HeldInv, Live

\* No AV operation runs, and no session is destroyed, on a core that has been
\* freed, for an application that closes a core when no other thread uses it and
\* drops no object it has not closed, even if it makes second sessions or runs
\* out of memory.  A session is held until it is closed, so its core is known,
\* and a known core is closed after its session.
THEOREM CoreOutlivesSession ==
  ASSUME Orderly, "leak" \notin Allowed
  PROVE  Spec => []NoDanglingCore
<1>1. LifeInv /\ OrderInv /\ HeldInv => NoDanglingCore
  <2>1. SUFFICES ASSUME LifeInv, OrderInv, HeldInv, NEW x \in Actors,
                        frame[x].at \in {"avOp", "avDying"}
                 PROVE  coreStatus[frame[x].core] # "closed"
    BY DEF NoDanglingCore
  <2>2. frame[x].av \in Avs /\ frame[x].core = toxField[frame[x].av]
    BY <2>1 DEF LifeInv, TypeOK, OnCore
  <2>3. Live(frame[x].av)
    <3>1. frame[x].at = "avOp" => x \in Threads
      BY <2>1 DEF LifeInv, FrameInv, Actors
    <3>2. x # None
      BY <2>1, AvAssumption DEF Actors
    <3>3. frame[x].at = "avOp" => avUser[frame[x].av] = x
      BY <2>1, <3>1 DEF LifeInv, InUse
    <3>4. frame[x].at = "avOp" => Live(frame[x].av)
      BY <2>1, <2>2, <3>2, <3>3 DEF LifeInv, InUse
    <3>5. QED BY <2>1, <2>2, <3>4 DEF LifeInv, InUse, Live
  <2>4. Known(toxField[frame[x].av])
    <3>1. CASE frame[x].av \in held
      BY <2>2, <3>1 DEF Known
    <3>2. CASE \E t \in Threads : frame[t].at = "avAdded" /\ frame[t].av = frame[x].av
      BY <2>1, <2>2, <3>2 DEF Known, LifeInv, TypeOK, OnCore, Actors
    <3>3. QED BY <2>1, <2>2, <2>3, <3>1, <3>2 DEF HeldInv
  <2>5. QED BY <2>1, <2>2, <2>3, <2>4 DEF OrderInv, ClosedEmpty
<1>2. LifeInv /\ HeldInv /\ [Next]_vars => HeldInv'
  BY HeldStep
<1>3. Spec => [](LifeInv /\ OrderInv)
  BY AlwaysOrder
<1>4. QED BY <1>1, <1>2, <1>3, HeldInit, PTL DEF Spec

-----------------------------------------------------------------------------
(***************************************************************************)
(* Where the application also gives a core one session at a time.          *)
(***************************************************************************)
LEMMA BuildsStep ==
  ASSUME Orderly, "second-session" \notin Allowed
  PROVE  LifeInv /\ OrderInv /\ BuildsAlone /\ [Next]_vars => BuildsAlone'
<1> SUFFICES ASSUME LifeInv, OrderInv, BuildsAlone, [Next]_vars PROVE BuildsAlone'
  OBVIOUS
<1>1. ASSUME NEW t \in Threads, Starts(t) PROVE BuildsAlone'
  <2>1. ASSUME NEW c \in Cores, NewCore(t, c) PROVE BuildsAlone'
    BY <2>1, AvAssumption DEF NewCore, Core!Open, Core!Move,
       LifeInv, TypeOK, MadeOn, Live, BuildsAlone, Building, IsAt, Enter, GoTo, Leave, Frame,
       Idle, CloseEnds, Throw, core, av, java, app, Actors, Closing, Stages
  <2>2. ASSUME NEW c \in Cores, BeginCoreOp(t, c) PROVE BuildsAlone'
    BY <2>2, AvAssumption DEF BeginCoreOp, Core!Begin,
       LifeInv, TypeOK, MadeOn, Live, BuildsAlone, Building, IsAt, Enter, GoTo, Leave, Frame,
       Idle, CloseEnds, Throw, core, av, java, app, Actors, Closing, Stages
  <2>3. ASSUME NEW c \in Cores, CloseCore(t, c) PROVE BuildsAlone'
    BY <2>3, AvAssumption DEF CloseCore,
       LifeInv, TypeOK, MadeOn, Live, BuildsAlone, Building, IsAt, Enter, GoTo, Leave, Frame,
       Idle, CloseEnds, Throw, core, av, java, app, Actors, Closing, Stages
  <2>4. ASSUME NEW a \in Avs, BeginAvOp(t, a) PROVE BuildsAlone'
    BY <2>4, AvAssumption DEF BeginAvOp, Av!Begin,
       LifeInv, TypeOK, MadeOn, Live, BuildsAlone, Building, IsAt, Enter, GoTo, Leave, Frame,
       Idle, CloseEnds, Throw, core, av, java, app, Actors, Closing, Stages
  <2>5. ASSUME NEW a \in Avs, CloseAv(t, a) PROVE BuildsAlone'
    BY <2>5, AvAssumption DEF CloseAv,
       LifeInv, TypeOK, MadeOn, Live, BuildsAlone, Building, IsAt, Enter, GoTo, Leave, Frame,
       Idle, CloseEnds, Throw, core, av, java, app, Actors, Closing, Stages
  <2>6. ASSUME NEW c \in Cores, NEW a \in Avs, Construct(t, c, a) PROVE BuildsAlone'
    <3>1. frame \in [Actors -> FrameSet] /\ t \in Actors /\ \A u \in Threads : u \in Actors
      BY DEF LifeInv, TypeOK, FrameSet, Actors
    <3>2. avField[c] = None /\ toxField[a] = None /\ frame[t].at = "idle"
          /\ \A u \in Threads \ {t} : ~(frame[u].core = c /\ frame[u].at \in Closing)
      BY <2>6 DEF Construct, Orderly, MayCall, IsAt
    <3>3. \A u \in Threads : ~Building(u, c)
      BY <3>2 DEF OrderInv, BuildField
    <3>4. \A b \in Avs : Live(b) => toxField[b] # c
      <4>1. SUFFICES ASSUME NEW b \in Avs, Live(b), toxField[b] = c PROVE FALSE
        OBVIOUS
      <4>2. PICK u \in Threads : frame[u].at \in {"avKill", "avDying"} /\ frame[u].av = b
        BY <3>2, <3>3, <4>1, AvAssumption DEF OrderInv, LiveField
      <4>3. frame[u].core = c /\ u # t
        BY <3>2, <4>1, <4>2, AvAssumption DEF LifeInv, FrameInv, Actors
      <4>4. QED BY <3>2, <4>2, <4>3 DEF Closing
    <3>5. /\ toxField' = [toxField EXCEPT ![a] = c] /\ UNCHANGED avStatus
          /\ frame' = [frame EXCEPT ![t] = Frame("ctor", c, a, FALSE)]
      BY <2>6 DEF Construct, Enter, av
    <3>6. ~Live(a)
      BY <3>2, AvAssumption DEF LifeInv, MadeOn, Live
    <3>7. \A b \in Avs : Live(b)' => Live(b) /\ toxField'[b] = toxField[b]
      BY <3>5, <3>6 DEF Live, LifeInv, TypeOK
    <3>8. \A u \in Threads, d \in Cores :
            Building(u, d)' <=> (u = t /\ d = c) \/ (u # t /\ Building(u, d))
      BY <3>1, <3>2, <3>5 DEF Building, Frame
    <3>9. QED BY <3>3, <3>4, <3>7, <3>8 DEF BuildsAlone
  <2>7. QED BY <1>1, <2>1, <2>2, <2>3, <2>4, <2>5, <2>6 DEF Starts
<1>2. ASSUME NEW t \in Threads, Continues(t) PROVE BuildsAlone'
  <2>1. CASE EndCoreOp(t)
    BY <2>1, AvAssumption DEF EndCoreOp, Core!End,
       LifeInv, TypeOK, MadeOn, Live, BuildsAlone, Building, IsAt, Enter, GoTo, Leave, Frame,
       Idle, CloseEnds, Throw, core, av, java, app, Actors, Closing, Stages
  <2>2. CASE EndAvOp(t)
    BY <2>2, AvAssumption DEF EndAvOp, Av!End,
       LifeInv, TypeOK, MadeOn, Live, BuildsAlone, Building, IsAt, Enter, GoTo, Leave, Frame,
       Idle, CloseEnds, Throw, core, av, java, app, Actors, Closing, Stages
  <2>3. CASE ConstructThrows(t)
    BY <2>3, AvAssumption DEF ConstructThrows,
       LifeInv, TypeOK, MadeOn, Live, BuildsAlone, Building, IsAt, Enter, GoTo, Leave, Frame,
       Idle, CloseEnds, Throw, core, av, java, app, Actors, Closing, Stages
  <2>4. CASE ToxAvNew(t)
    BY <2>4, AvAssumption DEF ToxAvNew, Core!Begin,
       LifeInv, TypeOK, MadeOn, Live, BuildsAlone, Building, IsAt, Enter, GoTo, Leave, Frame,
       Idle, CloseEnds, Throw, core, av, java, app, Actors, Closing, Stages
  <2>5. CASE Create(t)
    <3>1. frame[t].at = "avNew" /\ frame[t].av \in Avs
          /\ frame[t].core = toxField[frame[t].av] /\ frame[t].core \in Cores
      BY <2>5 DEF Create, IsAt, LifeInv, TypeOK, FrameInv, OnCore, Actors
    <3>2. \A u \in Threads, d \in Cores : Building(u, d)' => u # t /\ Building(u, d)
      BY <2>5 DEF Create, GoTo, Building, LifeInv, TypeOK, Actors
    <3>3. \A b \in Avs : Live(b)' => Live(b) \/ b = frame[t].av
      BY <2>5 DEF Create, Av!Open, Av!Move, Live, LifeInv, TypeOK
    <3>4. UNCHANGED toxField
      BY <2>5 DEF Create, java
    <3>5. \A u \in Threads : Building(u, frame[t].core) => u = t
      BY <3>1 DEF BuildsAlone, Building
    <3>6. SUFFICES ASSUME NEW u \in Threads, NEW d \in Cores, Building(u, d)'
                   PROVE  /\ \A b \in Avs : Live(b)' => toxField[b] # d
                          /\ \A w \in Threads \ {u} : ~Building(w, d)'
      BY <3>4 DEF BuildsAlone
    <3>7. u # t /\ Building(u, d) /\ d # frame[t].core
      BY <3>2, <3>5, <3>6
    <3>8. QED BY <3>1, <3>2, <3>3, <3>7 DEF BuildsAlone
  <2>6. CASE CreateFails(t)
    BY <2>6, AvAssumption DEF CreateFails,
       LifeInv, TypeOK, MadeOn, Live, BuildsAlone, Building, IsAt, Enter, GoTo, Leave, Frame,
       Idle, CloseEnds, Throw, core, av, java, app, Actors, Closing, Stages
  <2>7. CASE Constructed(t)
    BY <2>7, AvAssumption DEF Constructed, Core!End,
       LifeInv, TypeOK, MadeOn, Live, BuildsAlone, Building, IsAt, Enter, GoTo, Leave, Frame,
       Idle, CloseEnds, Throw, core, av, java, app, Actors, Closing, Stages
  <2>8. CASE CallAvClose(t)
    <3>1. \A u \in Threads : frame'[u] = frame[u] \/ frame'[u].at \in {"idle", "avClose"}
      BY <2>8 DEF CallAvClose, LifeInv, TypeOK, Leave, Enter, Idle, Frame, Actors
    <3>2. \A u \in Threads, d \in Cores : Building(u, d)' => Building(u, d)
      BY <3>1 DEF Building
    <3>3. \A b \in Avs : Live(b)' => Live(b) /\ toxField'[b] = toxField[b]
      BY <2>8 DEF CallAvClose, Live, av, java
    <3>4. QED BY <3>2, <3>3 DEF BuildsAlone
  <2>9. CASE ClearAvField(t)
    BY <2>9, AvAssumption DEF ClearAvField,
       LifeInv, TypeOK, MadeOn, Live, BuildsAlone, Building, IsAt, Enter, GoTo, Leave, Frame,
       Idle, CloseEnds, Throw, core, av, java, app, Actors, Closing, Stages
  <2>10. CASE KillIncomplete(t)
    BY <2>10, AvAssumption DEF KillIncomplete,
       LifeInv, TypeOK, MadeOn, Live, BuildsAlone, Building, IsAt, Enter, GoTo, Leave, Frame,
       Idle, CloseEnds, Throw, core, av, java, app, Actors, Closing, Stages
  <2>11. CASE ToxAvKill(t)
    BY <2>11, AvAssumption DEF ToxAvKill, Av!Shut, Av!Move,
       LifeInv, TypeOK, MadeOn, Live, BuildsAlone, Building, IsAt, Enter, GoTo, Leave, Frame,
       Idle, CloseEnds, Throw, core, av, java, app, Actors, Closing, Stages
  <2>12. CASE ToxAvKillAgain(t)
    <3>1. \A u \in Threads : frame'[u] = frame[u] \/ frame'[u].at \in {"idle", "toxKill"}
      BY <2>12 DEF ToxAvKillAgain, LifeInv, TypeOK, AvCloseReturns, GoTo, Leave, Idle, Frame, Actors
    <3>2. \A u \in Threads, d \in Cores : Building(u, d)' => Building(u, d)
      BY <3>1 DEF Building
    <3>3. \A b \in Avs : Live(b)' => Live(b) /\ toxField'[b] = toxField[b]
      BY <2>12 DEF ToxAvKillAgain, Live, av, java
    <3>4. QED BY <3>2, <3>3 DEF BuildsAlone
  <2>13. CASE ToxKill(t)
    BY <2>13, AvAssumption DEF ToxKill, Core!Shut, Core!Move,
       LifeInv, TypeOK, MadeOn, Live, BuildsAlone, Building, IsAt, Enter, GoTo, Leave, Frame,
       Idle, CloseEnds, Throw, core, av, java, app, Actors, Closing, Stages
  <2>14. CASE ToxKillAgain(t)
    BY <2>14, AvAssumption DEF ToxKillAgain,
       LifeInv, TypeOK, MadeOn, Live, BuildsAlone, Building, IsAt, Enter, GoTo, Leave, Frame,
       Idle, CloseEnds, Throw, core, av, java, app, Actors, Closing, Stages
  <2>15. QED BY <1>2, <2>1, <2>2, <2>3, <2>4, <2>5, <2>6, <2>7, <2>8, <2>9, <2>10, <2>11, <2>12, <2>13, <2>14 DEF Continues
<1>3. ASSUME NEW x \in Actors, Destroys(x) PROVE BuildsAlone'
  <2>1. CASE KillAv(x)
    <3>1. \A u \in Threads : frame'[u] = frame[u] \/ frame'[u].at \in {"idle", "toxKill"}
      BY <2>1 DEF KillAv, LifeInv, TypeOK, AvCloseReturns, GoTo, Leave, Idle, Frame, Actors
    <3>2. \A u \in Threads, d \in Cores : Building(u, d)' => Building(u, d)
      BY <3>1 DEF Building
    <3>3. \A b \in Avs : Live(b)' => Live(b) /\ toxField'[b] = toxField[b]
      BY <2>1 DEF KillAv, Av!Destroyed, Av!Move, Live, LifeInv, TypeOK, java
    <3>4. QED BY <3>2, <3>3 DEF BuildsAlone
  <2>2. CASE KillCore(x)
    BY <2>2, AvAssumption DEF KillCore, Core!Destroyed, Core!Move,
       LifeInv, TypeOK, MadeOn, Live, BuildsAlone, Building, IsAt, Enter, GoTo, Leave, Frame,
       Idle, CloseEnds, Throw, core, av, java, app, Actors, Closing, Stages
  <2>3. QED BY <1>3, <2>1, <2>2 DEF Destroys
<1>4. CASE Collects
  <2>1. ASSUME NEW o \in Cores \cup Avs, Drop(o) PROVE BuildsAlone'
    BY <2>1, AvAssumption DEF Drop,
       LifeInv, TypeOK, MadeOn, Live, BuildsAlone, Building, IsAt, Enter, GoTo, Leave, Frame,
       Idle, CloseEnds, Throw, core, av, java, app, Actors, Closing, Stages
  <2>2. ASSUME NEW o \in Cores \cup Avs, FinalizeClosed(o) PROVE BuildsAlone'
    BY <2>2, AvAssumption DEF FinalizeClosed, Collectable,
       LifeInv, TypeOK, MadeOn, Live, BuildsAlone, Building, IsAt, Enter, GoTo, Leave, Frame,
       Idle, CloseEnds, Throw, core, av, java, app, Actors, Closing, Stages
  <2>3. ASSUME NEW a \in Avs, FinalizeLeakedAv(a) PROVE BuildsAlone'
    BY <2>3, AvAssumption DEF FinalizeLeakedAv, Av!Shut, Av!Move, Collectable,
       LifeInv, TypeOK, MadeOn, Live, BuildsAlone, Building, IsAt, Enter, GoTo, Leave, Frame,
       Idle, CloseEnds, Throw, core, av, java, app, Actors, Closing, Stages
  <2>4. ASSUME NEW c \in Cores, FinalizeLeakedCore(c) PROVE BuildsAlone'
    BY <2>4, AvAssumption DEF FinalizeLeakedCore, Core!Shut, Core!Move, Collectable,
       LifeInv, TypeOK, MadeOn, Live, BuildsAlone, Building, IsAt, Enter, GoTo, Leave, Frame,
       Idle, CloseEnds, Throw, core, av, java, app, Actors, Closing, Stages
  <2>5. QED BY <1>4, <2>1, <2>2, <2>3, <2>4 DEF Collects
<1>5. CASE UNCHANGED vars
  BY <1>5 DEF vars, BuildsAlone, Building, Live, core, av, java, app
<1>6. QED BY <1>1, <1>2, <1>3, <1>4, <1>5 DEF Next, Stopped

LEMMA BuildsInit == Init => BuildsAlone
BY DEF Init, Idle, Frame, BuildsAlone, Building, Actors

LEMMA NoCrashStep ==
  ASSUME "no-memory" \notin Allowed
  PROVE  LifeInv /\ BuildsAlone /\ NoCrash /\ [Next]_vars => NoCrash'
<1> SUFFICES ASSUME LifeInv, BuildsAlone, NoCrash, [Next]_vars PROVE NoCrash'
  OBVIOUS
<1> USE DEF NoCrash, app
<1>1. ASSUME NEW t \in Threads, Starts(t) PROVE NoCrash'
  BY <1>1 DEF Starts, NewCore, BeginCoreOp, CloseCore, BeginAvOp, CloseAv, Construct
<1>2. ASSUME NEW t \in Threads, CreateFails(t) PROVE FALSE
  <2>1. frame[t].at = "avNew" /\ hasAv[frame[t].core]
    BY <1>2 DEF CreateFails, IsAt
  <2>2. frame[t].core \in Cores /\ Building(t, frame[t].core)
    BY <2>1 DEF LifeInv, FrameInv, Building, Actors
  <2>3. QED BY <2>1, <2>2 DEF LifeInv, Exclusive, BuildsAlone
<1>3. ASSUME NEW t \in Threads, Continues(t) PROVE NoCrash'
  BY <1>2, <1>3 DEF Continues, EndCoreOp, EndAvOp, ConstructThrows, ToxAvNew, Create, Constructed,
     CallAvClose, ClearAvField, KillIncomplete, ToxAvKill, ToxAvKillAgain, ToxKill, ToxKillAgain
<1>4. ASSUME NEW x \in Actors, Destroys(x) PROVE NoCrash'
  BY <1>4 DEF Destroys, KillAv, KillCore
<1>5. CASE Collects
  BY <1>5 DEF Collects, Drop, FinalizeClosed, FinalizeLeakedAv, FinalizeLeakedCore
<1>6. CASE UNCHANGED vars
  BY <1>6 DEF vars
<1>7. QED BY <1>1, <1>3, <1>4, <1>5, <1>6 DEF Next, Stopped

\* toxAvNew never passes NULL to toxav_callback_call, for an application that
\* closes a core when no other thread uses it and makes one session at a time on
\* it, on a machine with memory, even if it drops objects without closing them:
\* while a session is being made, has_av is not set.
THEOREM ToxAvNewNeverCrashes ==
  ASSUME Allowed \subseteq {"leak"}
  PROVE  Spec => []NoCrash
<1>1. Orderly /\ "second-session" \notin Allowed /\ "no-memory" \notin Allowed
  BY DEF Orderly
<1>2. Spec => [](LifeInv /\ OrderInv)
  BY <1>1, AlwaysOrder
<1>3. LifeInv /\ OrderInv /\ BuildsAlone /\ [Next]_vars => BuildsAlone'
  BY <1>1, BuildsStep
<1>4. LifeInv /\ BuildsAlone /\ NoCrash /\ [Next]_vars => NoCrash'
  BY <1>1, NoCrashStep
<1>5. Init => NoCrash
  BY DEF Init, NoCrash
<1>6. QED BY <1>2, <1>3, <1>4, <1>5, BuildsInit, PTL DEF Spec
=============================================================================
