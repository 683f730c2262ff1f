--------------------------- MODULE InstanceManager ---------------------------
(***************************************************************************)
(* The native instance manager of tox4j (cpp/tox4j/ToxInstances.h) as its  *)
(* callers use it: Java threads that create an object (toxNew / toxAvNew), *)
(* call methods on it (with_instance) and close it (toxKill), and the      *)
(* JVM's finalizer thread.                                                 *)
(*                                                                         *)
(* A Java object is identified with the native object it creates: at most  *)
(* one is ever made for it.  instances[n] is the object in slot n, None    *)
(* when the slot is DEAD; a COLLECTED slot is a DEAD one on the freelist.  *)
(* A std::mutex is the actor that holds it, None when it is free.          *)
(***************************************************************************)
EXTENDS Naturals, Sequences

CONSTANTS
  Threads,       \* the application's threads
  Collector,     \* the JVM's finalizer thread
  Handles,       \* Java objects wrapping a native instance
  None,
  EarlyCollect   \* may an object be finalized while one of its methods runs?

Actors == Threads \cup {Collector}

ASSUME ActorsAssumption ==
  /\ Collector \notin Threads
  /\ None \notin Actors
  /\ None \notin Handles
  /\ EarlyCollect \in BOOLEAN

VARIABLES
  mgr,        \* owner of instance_manager::mutex
  instances,  \* instance_manager::instances
  freelist,   \* instance_manager::freelist
  inst,       \* owner of each object's tox_instance::mutex
  native,     \* memory of each object's subsystem, events and mutex
  number,     \* the Java field instanceNumber
  heap,       \* the Java object's own life
  pc,         \* where each actor is
  obj,        \* the Java object the actor's method was called on
  arg,        \* the instance number the method passed to native code
  raw,        \* the native object the actor holds a pointer to
  closed,     \* history: objects on which a close() has returned
  late        \* history: threads whose call began after such a return

vars == <<mgr, instances, freelist, inst, native, number, heap, pc, obj, arg,
          raw, closed, late>>

manager == <<instances, freelist>>
history == <<closed, late>>

(***************************************************************************)
(* Program counters, by what the actor holds.                              *)
(***************************************************************************)
Locked  == {"use-wait", "use-locked", "dying", "dying-locked", "dying-free",
            "unlock"}                              \* owns the manager's mutex
Using   == {"use-wait", "use-locked", "run"}       \* inside with_instance
Dying   == {"dying", "dying-locked", "dying-free"} \* owns the moved-out object
HoldsInst == {"use-locked", "run", "dying-locked"} \* owns raw's mutex
Pointing  == {"add"} \cup Using \cup Dying         \* raw will be dereferenced
Entering  == {"use", "kill", "finalize"}           \* about to lock the manager
Stages    == {"idle", "unlock"} \cup Entering \cup Pointing

IsValid(n) == n \in 1..Len(instances)
IsLive(n)  == IsValid(n) /\ instances[n] # None
InSlot(h)  == \E n \in 1..Len(instances) : instances[n] = h
IsFree(n)  == \E i \in 1..Len(freelist) : freelist[i] = n

GoTo(a, stage) == pc' = [pc EXCEPT ![a] = stage]

Return(a) ==
  /\ GoTo(a, "idle")
  /\ obj' = [obj EXCEPT ![a] = None]
  /\ arg' = [arg EXCEPT ![a] = 0]
  /\ raw' = [raw EXCEPT ![a] = None]

-----------------------------------------------------------------------------
(* Construction: ToxCoreImpl's constructor, toxNew and instance_manager::add. *)

\* tox_new succeeds; the instance is built outside the manager's lock.
New(t, h) ==
  /\ pc[t] = "idle" /\ heap[h] = "fresh"
  /\ heap' = [heap EXCEPT ![h] = "building"]
  /\ native' = [native EXCEPT ![h] = "live"]
  /\ obj' = [obj EXCEPT ![t] = h]
  /\ raw' = [raw EXCEPT ![t] = h]
  /\ GoTo(t, "add")
  /\ UNCHANGED <<mgr, manager, inst, number, arg, history>>

\* tox_new fails: the constructor throws, the object keeps instanceNumber 0
\* and only the finalizer will see it again.
NewFails(t, h) ==
  /\ pc[t] = "idle" /\ heap[h] = "fresh"
  /\ heap' = [heap EXCEPT ![h] = "dropped"]
  /\ UNCHANGED <<mgr, manager, inst, native, number, pc, obj, arg, raw, history>>

\* Reuses the number freed last, or appends a slot.
Add(t) ==
  /\ pc[t] = "add" /\ mgr = None
  /\ LET h == raw[t]
         n == IF freelist # <<>> THEN freelist[Len(freelist)]
                                 ELSE Len(instances) + 1
     IN /\ IF freelist # <<>>
           THEN /\ freelist' = SubSeq(freelist, 1, Len(freelist) - 1)
                /\ instances' = [instances EXCEPT ![n] = h]
           ELSE /\ instances' = Append(instances, h)
                /\ UNCHANGED freelist
        /\ number' = [number EXCEPT ![h] = n]
        /\ heap' = [heap EXCEPT ![h] = "held"]
  /\ Return(t)
  /\ UNCHANGED <<mgr, inst, native, history>>

-----------------------------------------------------------------------------
(* A method of the Java object: it reads instanceNumber, then calls a static *)
(* native method, which does not keep the object alive.                      *)

Call(t, h, stage) ==
  /\ pc[t] = "idle" /\ heap[h] = "held"
  /\ obj' = [obj EXCEPT ![t] = h]
  /\ arg' = [arg EXCEPT ![t] = number[h]]
  /\ late' = IF h \in closed THEN late \cup {t} ELSE late \ {t}
  /\ GoTo(t, stage)
  /\ UNCHANGED <<mgr, manager, inst, native, number, heap, raw, closed>>

Use(t, h) == Call(t, h, "use")

\* Faulty: gives the manager's lock up before it waits for the instance.
EnterUnlocked(t) ==
  /\ pc[t] = "use" /\ mgr = None
  /\ IsLive(arg[t])
  /\ raw' = [raw EXCEPT ![t] = instances[arg[t]]]
  /\ GoTo(t, "use-wait")
  /\ UNCHANGED <<mgr, manager, inst, native, number, heap, obj, arg, history>>

\* with_instance: take the manager's lock and look the number up.
Enter(t) ==
  /\ pc[t] = "use" /\ mgr = None
  /\ IsLive(arg[t])
  /\ mgr' = t
  /\ raw' = [raw EXCEPT ![t] = instances[arg[t]]]
  /\ GoTo(t, "use-wait")
  /\ UNCHANGED <<manager, inst, native, number, heap, obj, arg, history>>

\* ToxKilledException.
Refuse(t) ==
  /\ pc[t] = "use" /\ mgr = None
  /\ ~IsLive(arg[t])
  /\ Return(t)
  /\ UNCHANGED <<mgr, manager, inst, native, number, heap, history>>

\* tox_instance::with_lock, still under the manager's lock ...
LockInstance(t) ==
  /\ pc[t] = "use-wait" /\ inst[raw[t]] = None
  /\ inst' = [inst EXCEPT ![raw[t]] = t]
  /\ GoTo(t, "use-locked")
  /\ UNCHANGED <<mgr, manager, native, number, heap, obj, arg, raw, history>>

\* ... which the lambda gives up before it runs the operation.
UnlockManager(t) ==
  /\ pc[t] = "use-locked"
  /\ mgr' = None
  /\ GoTo(t, "run")
  /\ UNCHANGED <<manager, inst, native, number, heap, obj, arg, raw, history>>

\* Faulty: an error path that leaves the instance's mutex locked.
FinishLocked(t) ==
  /\ pc[t] = "run"
  /\ Return(t)
  /\ UNCHANGED <<mgr, manager, inst, native, number, heap, history>>

\* The operation ends and with_lock's guard is destroyed.
Finish(t) ==
  /\ pc[t] = "run"
  /\ inst' = [inst EXCEPT ![raw[t]] = None]
  /\ Return(t)
  /\ UNCHANGED <<mgr, manager, native, number, heap, history>>

-----------------------------------------------------------------------------
(* close() and instance_manager::kill. *)

Close(t, h) == Call(t, h, "kill")

\* Move the instance out of its slot, which leaves the slot DEAD.
RemoveSlot(a, n) ==
  /\ raw' = [raw EXCEPT ![a] = instances[n]]
  /\ instances' = [instances EXCEPT ![n] = None]
  /\ mgr' = a
  /\ GoTo(a, "dying")

Kill(t) ==
  /\ pc[t] = "kill" /\ mgr = None
  /\ IsLive(arg[t])
  /\ RemoveSlot(t, arg[t])
  /\ UNCHANGED <<freelist, inst, native, number, heap, obj, arg, history>>

\* The slot is DEAD already: a second close is silently accepted.
KillAgain(t) ==
  /\ pc[t] = "kill" /\ mgr = None
  /\ ~IsLive(arg[t])
  /\ Return(t)
  /\ closed' = closed \cup {obj[t]}
  /\ UNCHANGED <<mgr, manager, inst, native, number, heap, late>>

\* Faulty: does not wait for the operation in progress.
LockDyingAtOnce(a) ==
  /\ pc[a] = "dying"
  /\ inst' = [inst EXCEPT ![raw[a]] = a]
  /\ GoTo(a, "dying-locked")
  /\ UNCHANGED <<mgr, manager, native, number, heap, obj, arg, raw, history>>

\* lock_guard ilock(*dying.mutex): wait for the operation in progress.
LockDying(a) ==
  /\ pc[a] = "dying" /\ inst[raw[a]] = None
  /\ inst' = [inst EXCEPT ![raw[a]] = a]
  /\ GoTo(a, "dying-locked")
  /\ UNCHANGED <<mgr, manager, native, number, heap, obj, arg, raw, history>>

\* Destructors run in reverse order: ilock first ...
UnlockDying(a) ==
  /\ pc[a] = "dying-locked"
  /\ inst' = [inst EXCEPT ![raw[a]] = None]
  /\ GoTo(a, "dying-free")
  /\ UNCHANGED <<mgr, manager, native, number, heap, obj, arg, raw, history>>

\* Faulty: the pointers are released, not deleted.
DestroyLeaks(a) ==
  /\ pc[a] = "dying-free"
  /\ raw' = [raw EXCEPT ![a] = None]
  /\ GoTo(a, "unlock")
  /\ UNCHANGED <<mgr, manager, inst, native, number, heap, obj, arg, history>>

\* ... then dying itself: its mutex, its events and the subsystem ...
Destroy(a) ==
  /\ pc[a] = "dying-free"
  /\ native' = [native EXCEPT ![raw[a]] = "freed"]
  /\ raw' = [raw EXCEPT ![a] = None]
  /\ GoTo(a, "unlock")
  /\ UNCHANGED <<mgr, manager, inst, number, heap, obj, arg, history>>

\* Faulty: close() already puts the number on the freelist.
KillFreesNumber(t) ==
  /\ pc[t] = "unlock"
  /\ mgr' = None
  /\ freelist' = Append(freelist, arg[t])
  /\ Return(t)
  /\ closed' = closed \cup {obj[t]}
  /\ UNCHANGED <<instances, inst, native, number, heap, late>>

\* ... and last the manager's lock.
KillReturns(t) ==
  /\ pc[t] = "unlock"
  /\ mgr' = None
  /\ Return(t)
  /\ closed' = closed \cup {obj[t]}
  /\ UNCHANGED <<manager, inst, native, number, heap, late>>

-----------------------------------------------------------------------------
(* Garbage collection: Java finalize() and instance_manager::finalize. *)

\* The application forgets its last reference.
Drop(h) ==
  /\ heap[h] = "held"
  /\ heap' = [heap EXCEPT ![h] = "dropped"]
  /\ UNCHANGED <<mgr, manager, inst, native, number, pc, obj, arg, raw, history>>

\* No method runs on the object, or the virtual machine sees that those which
\* do will not touch it again.
Unreachable(h) ==
  heap[h] = "dropped" /\ (EarlyCollect \/ \A t \in Threads : obj[t] # h)

\* An object whose constructor threw: instance number 0, nothing to do.
FinalizeIncomplete(h) ==
  /\ pc[Collector] = "idle" /\ Unreachable(h)
  /\ number[h] = 0
  /\ heap' = [heap EXCEPT ![h] = "finalized"]
  /\ UNCHANGED <<mgr, manager, inst, native, number, pc, obj, arg, raw, history>>

Finalize(h) ==
  /\ pc[Collector] = "idle" /\ Unreachable(h)
  /\ number[h] # 0
  /\ heap' = [heap EXCEPT ![h] = "finalizing"]
  /\ obj' = [obj EXCEPT ![Collector] = h]
  /\ arg' = [arg EXCEPT ![Collector] = number[h]]
  /\ GoTo(Collector, "finalize")
  /\ UNCHANGED <<mgr, manager, inst, native, number, raw, history>>

\* A leaked instance is killed first.
FinalizeLeaked ==
  /\ pc[Collector] = "finalize" /\ mgr = None
  /\ IsLive(arg[Collector]) /\ ~IsFree(arg[Collector])
  /\ RemoveSlot(Collector, arg[Collector])
  /\ UNCHANGED <<freelist, inst, native, number, heap, obj, arg, history>>

\* setFree, or IllegalStateException when the number is not a slot's or is on
\* the freelist already: Java prints it and the number is lost.
FinalizeClosed ==
  /\ pc[Collector] = "finalize" /\ mgr = None
  /\ ~IsLive(arg[Collector]) \/ IsFree(arg[Collector])
  /\ LET n  == arg[Collector]
         ok == IsValid(n) /\ ~IsFree(n)
     IN /\ freelist' = IF ok THEN Append(freelist, n) ELSE freelist
        /\ heap' = [heap EXCEPT ![obj[Collector]] =
                      IF ok THEN "finalized" ELSE "rejected"]
  /\ Return(Collector)
  /\ UNCHANGED <<mgr, instances, inst, native, number, history>>

\* Faulty: frees the index of the slot, not its number.
FinalizeFreesIndex ==
  /\ pc[Collector] = "unlock"
  /\ mgr' = None
  /\ freelist' = Append(freelist, arg[Collector] - 1)
  /\ heap' = [heap EXCEPT ![obj[Collector]] = "finalized"]
  /\ Return(Collector)
  /\ UNCHANGED <<instances, inst, native, number, history>>

\* The leaked instance is destroyed: setFree, then the lock is released.
FinalizeReturns ==
  /\ pc[Collector] = "unlock"
  /\ mgr' = None
  /\ freelist' = Append(freelist, arg[Collector])
  /\ heap' = [heap EXCEPT ![obj[Collector]] = "finalized"]
  /\ Return(Collector)
  /\ UNCHANGED <<instances, inst, native, number, history>>

-----------------------------------------------------------------------------
Init ==
  /\ mgr = None
  /\ instances = <<>>
  /\ freelist = <<>>
  /\ inst = [h \in Handles |-> None]
  /\ native = [h \in Handles |-> "absent"]
  /\ number = [h \in Handles |-> 0]
  /\ heap = [h \in Handles |-> "fresh"]
  /\ pc = [a \in Actors |-> "idle"]
  /\ obj = [a \in Actors |-> None]
  /\ arg = [a \in Actors |-> 0]
  /\ raw = [a \in Actors |-> None]
  /\ closed = {}
  /\ late = {}

Starts(t) == \E h \in Handles : New(t, h) \/ NewFails(t, h) \/ Use(t, h) \/ Close(t, h)

\* A thread inside native code, and what it can still do there.
Continues(t) ==
  \/ Add(t)
  \/ Enter(t) \/ Refuse(t) \/ LockInstance(t) \/ UnlockManager(t) \/ Finish(t)
  \/ Kill(t) \/ KillAgain(t) \/ KillReturns(t)

Dies(a) == LockDying(a) \/ UnlockDying(a) \/ Destroy(a)

Collects == FinalizeLeaked \/ FinalizeClosed \/ FinalizeReturns

CollectStarts(h) == Finalize(h) \/ FinalizeIncomplete(h)

\* Every object there is has been collected: the model, not the program, ends.
Exhausted ==
  /\ \A h \in Handles : heap[h] \in {"finalized", "rejected"}
  /\ \A a \in Actors : pc[a] = "idle"
  /\ UNCHANGED vars

Next ==
  \/ \E t \in Threads : Starts(t) \/ Continues(t)
  \/ \E a \in Actors : Dies(a)
  \/ \E h \in Handles : Drop(h) \/ CollectStarts(h)
  \/ Collects
  \/ Exhausted

Spec == Init /\ [][Next]_vars

(***************************************************************************)
(* A thread inside native code is scheduled again and again, operations of *)
(* toxcore return, and so does a finalizer once it runs.  Nothing makes a  *)
(* thread start a call, the application drop an object or the collector    *)
(* run at all, and a mutex is not assumed to be fair.                      *)
(***************************************************************************)
Fairness ==
  /\ \A t \in Threads : WF_vars(Continues(t))
  /\ \A a \in Actors : WF_vars(Dies(a))
  /\ WF_vars(Collects)

FairSpec == Spec /\ Fairness

-----------------------------------------------------------------------------
TypeOK ==
  /\ mgr \in Actors \cup {None}
  /\ instances \in Seq(Handles \cup {None})
  /\ freelist \in Seq(Nat \ {0})
  /\ inst \in [Handles -> Actors \cup {None}]
  /\ native \in [Handles -> {"absent", "live", "freed"}]
  /\ number \in [Handles -> Nat]
  /\ heap \in [Handles -> {"fresh", "building", "held", "dropped", "finalizing",
                           "finalized", "rejected"}]
  /\ pc \in [Actors -> Stages]
  /\ obj \in [Actors -> Handles \cup {None}]
  /\ arg \in [Actors -> Nat]
  /\ raw \in [Actors -> Handles \cup {None}]
  /\ closed \subseteq Handles
  /\ late \subseteq Threads

\* Nobody ever holds a raw pointer to a subsystem, events object or mutex that
\* has been destroyed: with_instance runs its operation without the manager's
\* lock, so only the instance's own mutex keeps kill and finalize from
\* destroying what the operation is using, and they destroy nothing twice.
NoUseAfterFree ==
  \A a \in Actors : pc[a] \in Pointing =>
     raw[a] \in Handles /\ native[raw[a]] = "live"

\* The instance numbers handed out are exactly those of Java objects not yet
\* finalized, each owned by one object, and the ones on the freelist, each there
\* once: add, kill and finalize neither lose a number nor give it away while an
\* object that will still pass it to native code exists.
Owner(h) == number[h] # 0 /\ heap[h] \in {"held", "dropped", "finalizing"}

NumbersAccounted ==
  /\ \A h, k \in Handles : Owner(h) /\ Owner(k) /\ number[h] = number[k] => h = k
  /\ \A i, j \in 1..Len(freelist) : freelist[i] = freelist[j] => i = j
  /\ \A n \in 1..Len(instances) :
       IsFree(n) <=> ~\E h \in Handles : Owner(h) /\ number[h] = n
  /\ \A h \in Handles : Owner(h) => IsValid(number[h])
  /\ \A i \in 1..Len(freelist) : IsValid(freelist[i])

\* A method runs on the native instance its own object created, never on one
\* that was given the same number later.
OwnInstance ==
  \A a \in Actors : pc[a] \in Pointing => raw[a] = obj[a]

\* "once close() has been called, all subsequent calls will result in
\* ToxKilledException": a call that began after a close() returned never gets
\* past with_instance's liveness check.
ClosedStaysClosed ==
  \A t \in late : pc[t] \notin Using

\* finalize accepts every object once, and what it has accepted is freed, also
\* when the application leaked it without close().
CollectedIsFreed ==
  \A h \in Handles :
    /\ heap[h] # "rejected"
    /\ heap[h] = "finalized" => native[h] # "live"

\* Who waits for an instance's mutex holds the manager's lock, and so stops
\* everybody else; the thread it waits for is always past the manager's lock
\* and running, never itself waiting: no cycle of waits can form.
WaitsOnlyForRunning ==
  \A a \in Actors :
    pc[a] \in {"use-wait", "dying"} /\ inst[raw[a]] # None
      => inst[raw[a]] # a /\ pc[inst[raw[a]]] = "run"

\* An instance moved out of its slot by kill or finalize is destroyed, however
\* many calls the other threads keep making.
MovedOut(h) ==
  native[h] = "live" /\ heap[h] # "building" /\ ~InSlot(h)

RemovedIsFreed == \A h \in Handles : MovedOut(h) ~> native[h] = "freed"

\* When the application stops making calls and the collector stops collecting,
\* every call and every finalizer that had begun returns.
NobodyStarts ==
  /\ \A t \in Threads : ~Starts(t)
  /\ \A h \in Handles : ~CollectStarts(h)

Quiescence ==
  <>[][NobodyStarts]_vars => []<>(\A a \in Actors : pc[a] = "idle")
=============================================================================
