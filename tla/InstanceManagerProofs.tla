------------------------ MODULE InstanceManagerProofs ------------------------
(***************************************************************************)
(* Theorems about InstanceManager, for any sets of threads and objects;    *)
(* at the end the safety half of ImplementsHandles: every step of the      *)
(* instance manager is a step of InstanceHandles or leaves the mapped      *)
(* state alone.                                                            *)
(***************************************************************************)
EXTENDS InstanceRefinement, SequenceTheorems, TLAPS

(***************************************************************************)
(* Type correctness.  It needs to know what a returning call leaves behind *)
(* in closed and on the freelist, and that a number on the freelist is a   *)
(* slot's, so that add replaces an element of the vector.                  *)
(***************************************************************************)
\* Who is inside a call knows the object it was made on; who has removed a slot
\* was given that slot's number.
CallInv ==
  \A a \in Actors :
    /\ pc[a] # "idle" => obj[a] \in Handles
    /\ pc[a] = "add" => raw[a] \in Handles
    /\ pc[a] \in Dying \cup {"unlock"} => IsValid(arg[a])

FreeInv == \A i \in 1..Len(freelist) : IsValid(freelist[i])

TypeInv == TypeOK /\ CallInv /\ FreeInv

\* What vector::pop_back leaves.
LEMMA PopBack ==
  ASSUME NEW S, NEW s \in Seq(S), s # <<>>
  PROVE  /\ SubSeq(s, 1, Len(s) - 1) \in Seq(S)
         /\ Len(SubSeq(s, 1, Len(s) - 1)) = Len(s) - 1
         /\ \A i \in 1..Len(s) - 1 : SubSeq(s, 1, Len(s) - 1)[i] = s[i]
<1> DEFINE n == Len(s) - 1
<1>1. n \in Nat
  BY EmptySeq
<1>2. \A i \in 1..n : s[i] \in S
  BY <1>1, ElementOfSeq
<1> HIDE DEF n
<1>3. /\ SubSeq(s, 1, n) \in Seq(S)
      /\ Len(SubSeq(s, 1, n)) = IF 1 <= n THEN n - 1 + 1 ELSE 0
      /\ \A i \in 1..n - 1 + 1 : SubSeq(s, 1, n)[i] = s[1 + i - 1]
  <2>1. n \in Int /\ 1 \in Int
    BY <1>1
  <2>2. QED BY <1>2, <2>1, SubSeqProperties
<1>4. /\ SubSeq(s, 1, n) \in Seq(S)
      /\ Len(SubSeq(s, 1, n)) = n
      /\ \A i \in 1..n : SubSeq(s, 1, n)[i] = s[i]
  BY <1>1, <1>3
<1>5. QED BY <1>4 DEF n

LEMMA TypeInit == Init => TypeInv
BY ActorsAssumption DEF Init, TypeInv, TypeOK, CallInv, FreeInv, IsValid, Actors,
   Stages, Entering, Pointing, Using, Dying

LEMMA TypeStarts ==
  ASSUME TypeInv, NEW t \in Threads, NEW h \in Handles,
         New(t, h) \/ NewFails(t, h) \/ Use(t, h) \/ Close(t, h)
  PROVE  TypeInv'
<1> USE ActorsAssumption DEF TypeInv, TypeOK, CallInv, FreeInv, IsValid, Actors, Stages,
        Entering, Pointing, Using, Dying, GoTo, manager, history
<1>1. CASE New(t, h)
  BY <1>1 DEF New
<1>2. CASE NewFails(t, h)
  BY <1>2 DEF NewFails
<1>3. CASE Use(t, h)
  BY <1>3 DEF Use, Call
<1>4. CASE Close(t, h)
  BY <1>4 DEF Close, Call
<1>5. QED BY <1>1, <1>2, <1>3, <1>4

LEMMA TypeContinues ==
  ASSUME TypeInv, NEW t \in Threads, Continues(t)
  PROVE  TypeInv'
<1> USE ActorsAssumption DEF TypeInv, TypeOK, CallInv, FreeInv, IsValid, Actors, Stages,
        Entering, Pointing, Using, Dying, GoTo, Return, manager, history
<1>1. CASE Add(t)
  <2>1. raw[t] \in Handles
    BY <1>1 DEF Add
  <2>2. CASE freelist = <<>>
    <3>1. instances' = Append(instances, raw[t]) /\ freelist' = freelist
      BY <1>1, <2>2 DEF Add
    <3>2. instances' \in Seq(Handles \cup {None}) /\ Len(instances') = Len(instances) + 1
      BY <3>1, <2>1, AppendProperties
    <3>3. number' \in [Handles -> Nat]
      BY <1>1, <2>1, <2>2 DEF Add
    <3>4. QED BY <1>1, <2>1, <3>1, <3>2, <3>3 DEF Add
  <2>3. CASE freelist # <<>>
    <3> DEFINE m == Len(freelist)
    <3>1. m \in Nat \ {0} /\ freelist[m] \in 1..Len(instances)
      BY <2>3, EmptySeq
    <3>2. /\ freelist' \in Seq(Nat \ {0})
          /\ Len(freelist') = m - 1
          /\ \A i \in 1..m - 1 : freelist'[i] = freelist[i]
      <4>1. freelist' = SubSeq(freelist, 1, m - 1)
        BY <1>1, <2>3 DEF Add
      <4>2. QED BY <4>1, <2>3, PopBack
    <3>3. instances' = [instances EXCEPT ![freelist[m]] = raw[t]]
      BY <1>1, <2>3 DEF Add
    <3>4. instances' \in Seq(Handles \cup {None}) /\ Len(instances') = Len(instances)
      BY <2>1, <3>1, <3>3, ExceptSeq
    <3>5. number' \in [Handles -> Nat]
      BY <1>1, <2>1, <2>3, <3>1 DEF Add
    <3>6. FreeInv'
      <4>1. \A i \in 1..m - 1 : freelist[i] \in 1..Len(instances)
        BY <3>1
      <4>2. \A i \in 1..Len(freelist') : freelist'[i] \in 1..Len(instances')
        BY <3>1, <3>2, <3>4, <4>1
      <4>3. QED BY <4>2
    <3>7. CallInv'
      BY <1>1, <2>1, <3>4 DEF Add
    <3>8. TypeOK'
      <4>1. /\ Return(t)
            /\ heap' = [heap EXCEPT ![raw[t]] = "held"]
            /\ UNCHANGED <<mgr, inst, native, history>>
        BY <1>1 DEF Add
      <4>2. QED BY <2>1, <3>2, <3>4, <3>5, <4>1
    <3>9. QED BY <3>6, <3>7, <3>8
  <2>4. QED BY <2>2, <2>3
<1>2. CASE Enter(t)
  BY <1>2 DEF Enter, IsLive
<1>3. CASE Refuse(t)
  BY <1>3 DEF Refuse
<1>4. CASE LockInstance(t)
  BY <1>4 DEF LockInstance
<1>5. CASE UnlockManager(t)
  BY <1>5 DEF UnlockManager
<1>6. CASE Finish(t)
  BY <1>6 DEF Finish
<1>7. CASE Kill(t)
  BY <1>7 DEF Kill, RemoveSlot, IsLive
<1>8. CASE KillAgain(t)
  BY <1>8 DEF KillAgain
<1>9. CASE KillReturns(t)
  BY <1>9 DEF KillReturns
<1>10. QED
  BY <1>1, <1>2, <1>3, <1>4, <1>5, <1>6, <1>7, <1>8, <1>9 DEF Continues

LEMMA TypeDies ==
  ASSUME TypeInv, NEW a \in Actors, Dies(a)
  PROVE  TypeInv'
<1> USE ActorsAssumption DEF TypeInv, TypeOK, CallInv, FreeInv, IsValid, Actors, Stages,
        Entering, Pointing, Using, Dying, GoTo, manager, history
<1>1. CASE LockDying(a)
  BY <1>1 DEF LockDying
<1>2. CASE UnlockDying(a)
  BY <1>2 DEF UnlockDying
<1>3. CASE Destroy(a)
  BY <1>3 DEF Destroy
<1>4. QED BY <1>1, <1>2, <1>3 DEF Dies

LEMMA TypeCollects ==
  ASSUME TypeInv,
         Collects \/ \E h \in Handles : Drop(h) \/ CollectStarts(h)
  PROVE  TypeInv'
<1> USE ActorsAssumption DEF TypeInv, TypeOK, CallInv, FreeInv, IsValid, Actors, Stages,
        Entering, Pointing, Using, Dying, GoTo, Return, manager, history
<1>1. CASE FinalizeLeaked
  BY <1>1 DEF FinalizeLeaked, RemoveSlot, IsLive
<1>2. CASE FinalizeClosed
  BY <1>2 DEF FinalizeClosed
<1>3. CASE FinalizeReturns
  BY <1>3 DEF FinalizeReturns
<1>4. ASSUME NEW h \in Handles, Drop(h) PROVE TypeInv'
  BY <1>4 DEF Drop
<1>5. ASSUME NEW h \in Handles, Finalize(h) PROVE TypeInv'
  BY <1>5 DEF Finalize
<1>6. ASSUME NEW h \in Handles, FinalizeIncomplete(h) PROVE TypeInv'
  BY <1>6 DEF FinalizeIncomplete
<1>7. QED
  BY <1>1, <1>2, <1>3, <1>4, <1>5, <1>6 DEF Collects, CollectStarts

LEMMA TypeUnchanged == TypeInv /\ UNCHANGED vars => TypeInv'
BY DEF vars, TypeInv, TypeOK, CallInv, FreeInv, IsValid

LEMMA TypeStep == TypeInv /\ [Next]_vars => TypeInv'
BY TypeStarts, TypeContinues, TypeDies, TypeCollects, TypeUnchanged
   DEF Next, Starts, Exhausted

\* Every variable always has its type.
THEOREM TypeCorrect == Spec => []TypeOK
<1>1. TypeInv => TypeOK
  BY DEF TypeInv
<1>2. QED BY TypeInit, TypeStep, <1>1, PTL DEF Spec

-----------------------------------------------------------------------------
(***************************************************************************)
(* No use after free.  NoUseAfterFree alone is not inductive: that nobody  *)
(* else points at what Destroy frees follows from who holds which lock.    *)
(***************************************************************************)
\* The manager's mutex is held exactly by the actor between its two lock calls.
ManagerOwned == \A a \in Actors : pc[a] \in Locked <=> mgr = a

\* An instance's mutex is held exactly by the actor that locked it.
InstanceOwned ==
  /\ \A a \in Actors : pc[a] \in HoldsInst => inst[raw[a]] = a
  /\ \A h \in Handles : inst[h] # None =>
       pc[inst[h]] \in HoldsInst /\ raw[inst[h]] = h

\* A slot holds a live instance, which no other slot holds.
SlotsLive ==
  /\ \A n \in 1..Len(instances) : instances[n] # None => native[instances[n]] = "live"
  /\ \A m, n \in 1..Len(instances) :
       instances[m] # None /\ instances[m] = instances[n] => m = n

FreshAbsent == \A h \in Handles : heap[h] = "fresh" => native[h] = "absent"

Alone(a) == \A b \in Actors \ {a} : pc[b] \in Pointing => raw[b] # raw[a]

\* Nobody else knows an instance before it is added, ...
Unpublished ==
  \A a \in Actors : pc[a] = "add" => ~InSlot(raw[a]) /\ Alone(a)

\* ... and once one is moved out of its slot, only the operation that is
\* running on it, until its mutex has been taken by the actor that destroys it.
Moved ==
  \A a \in Actors :
    /\ pc[a] \in Dying => ~InSlot(raw[a])
    /\ pc[a] \in Dying => \A b \in Actors \ {a} :
         pc[b] \in Pointing /\ raw[b] = raw[a] => pc[b] = "run"
    /\ pc[a] = "dying-free" => Alone(a)

Safe ==
  /\ NoUseAfterFree
  /\ ManagerOwned
  /\ InstanceOwned
  /\ SlotsLive
  /\ FreshAbsent
  /\ Unpublished
  /\ Moved

\* add writes one slot, a new one or one on the freelist, and touches no other.
LEMMA AddSlot ==
  ASSUME TypeInv, NEW t \in Threads, Add(t)
  PROVE  \E k \in 1..Len(instances'):
           /\ instances'[k] = raw[t]
           /\ \A n \in 1..Len(instances') : n # k =>
                n \in 1..Len(instances) /\ instances'[n] = instances[n]
<1> USE ActorsAssumption DEF TypeInv, TypeOK, CallInv, FreeInv, IsValid, Actors
<1>1. raw[t] \in Handles
  BY DEF Add
<1>2. CASE freelist = <<>>
  <2>1. instances' = Append(instances, raw[t])
    BY <1>2 DEF Add
  <2>2. /\ Len(instances') = Len(instances) + 1
        /\ \A n \in 1..Len(instances) : instances'[n] = instances[n]
        /\ instances'[Len(instances) + 1] = raw[t]
    BY <1>1, <2>1, AppendProperties
  <2>3. Len(instances) \in Nat
    OBVIOUS
  <2>4. /\ Len(instances) + 1 \in 1..Len(instances')
        /\ \A n \in 1..Len(instances') : n # Len(instances) + 1 => n \in 1..Len(instances)
    BY <2>2, <2>3
  <2>5. QED BY <2>2, <2>4
<1>3. CASE freelist # <<>>
  <2> DEFINE k == freelist[Len(freelist)]
  <2>1. k \in 1..Len(instances)
    BY <1>3, EmptySeq
  <2>2. instances' = [instances EXCEPT ![k] = raw[t]]
    BY <1>3 DEF Add
  <2>3. /\ Len(instances') = Len(instances)
        /\ \A n \in 1..Len(instances) :
             instances'[n] = IF n = k THEN raw[t] ELSE instances[n]
    BY <1>1, <2>1, <2>2, ExceptSeq
  <2>4. QED BY <2>1, <2>3
<1>4. QED BY <1>2, <1>3

LEMMA SafeInit == Init => Safe
BY ActorsAssumption DEF Init, Safe, NoUseAfterFree, ManagerOwned, InstanceOwned, SlotsLive,
   FreshAbsent, Unpublished, Moved, Pointing, Using, Dying, Locked, HoldsInst, Actors

LEMMA SafeStarts ==
  ASSUME TypeInv, Safe, NEW t \in Threads, NEW h \in Handles,
         New(t, h) \/ NewFails(t, h) \/ Use(t, h) \/ Close(t, h)
  PROVE  Safe'
<1> USE ActorsAssumption DEF TypeInv, TypeOK, Safe, NoUseAfterFree, ManagerOwned,
        InstanceOwned, SlotsLive, FreshAbsent, Unpublished, Moved, Alone, InSlot,
        Actors, Stages, Entering, Pointing, Using, Dying, Locked, HoldsInst, GoTo,
        manager, history
<1>1. CASE New(t, h)
  <2>1. NoUseAfterFree'
    BY <1>1 DEF New
  <2>2. ManagerOwned'
    BY <1>1 DEF New
  <2>3. InstanceOwned'
    BY <1>1 DEF New
  <2>4. SlotsLive'
    BY <1>1 DEF New
  <2>5. FreshAbsent'
    BY <1>1 DEF New
  <2>6. Unpublished'
    <3>1. native[h] = "absent"
      BY <1>1 DEF New
    <3>2. \A b \in Actors : pc[b] \in Pointing => raw[b] # h
      BY <3>1
    <3>3. ~InSlot(h)
      <4>1. SUFFICES ASSUME NEW n \in 1..Len(instances), instances[n] = h PROVE FALSE
        OBVIOUS
      <4>2. instances[n] # None
        BY <4>1
      <4>3. QED BY <3>1, <4>1, <4>2
    <3>4. Alone(t)' /\ ~InSlot(h)'
      BY <1>1, <3>2, <3>3 DEF New
    <3>5. ASSUME NEW b \in Actors \ {t}, pc[b] = "add"
          PROVE  ~InSlot(raw[b])' /\ Alone(b)'
      BY <1>1, <3>2, <3>5 DEF New
    <3>6. QED BY <1>1, <3>4, <3>5 DEF New
  <2>7. Moved'
    BY <1>1 DEF New
  <2>8. QED BY <2>1, <2>2, <2>3, <2>4, <2>5, <2>6, <2>7
<1>2. CASE NewFails(t, h)
  BY <1>2 DEF NewFails
<1>3. CASE Use(t, h)
  BY <1>3 DEF Use, Call
<1>4. CASE Close(t, h)
  BY <1>4 DEF Close, Call
<1>5. QED BY <1>1, <1>2, <1>3, <1>4

LEMMA SafeContinues ==
  ASSUME TypeInv, Safe, NEW t \in Threads, Continues(t)
  PROVE  Safe'
<1> USE ActorsAssumption DEF TypeInv, TypeOK, Safe, NoUseAfterFree, ManagerOwned,
        InstanceOwned, SlotsLive, FreshAbsent, Unpublished, Moved, Alone, InSlot,
        Actors, Stages, Entering, Pointing, Using, Dying, Locked, HoldsInst, GoTo,
        Return, manager, history
<1>1. CASE Add(t)
  <2>1. NoUseAfterFree'
    BY <1>1 DEF Add
  <2>2. ManagerOwned'
    BY <1>1 DEF Add
  <2>3. InstanceOwned'
    BY <1>1 DEF Add
  <2>4. SlotsLive'
    <3>1. PICK k \in 1..Len(instances') :
            /\ instances'[k] = raw[t]
            /\ \A n \in 1..Len(instances') : n # k =>
                 n \in 1..Len(instances) /\ instances'[n] = instances[n]
      BY <1>1, AddSlot
    <3>2. native' = native /\ native[raw[t]] = "live" /\ ~InSlot(raw[t])
      BY <1>1 DEF Add
    <3>3. /\ \A n \in 1..Len(instances) : instances[n] # raw[t]
          /\ \A n \in 1..Len(instances) :
               instances[n] # None => native[instances[n]] = "live"
          /\ \A m, n \in 1..Len(instances) :
               instances[m] # None /\ instances[m] = instances[n] => m = n
      BY <3>2
    <3>4. QED BY ONLY <3>1, <3>2, <3>3 DEF SlotsLive
  <2>5. FreshAbsent'
    BY <1>1 DEF Add
  <2>6. Unpublished'
    <3>1. ASSUME NEW b \in Actors, pc'[b] = "add"
          PROVE  ~InSlot(raw[b])' /\ Alone(b)'
      <4>1. b # t /\ pc[b] = "add" /\ raw'[b] = raw[b] /\ raw[b] # raw[t]
        BY <1>1, <3>1 DEF Add
      <4>2. ~InSlot(raw[b])'
        BY <1>1, <4>1, AddSlot
      <4>3. Alone(b)'
        BY <1>1, <4>1 DEF Add
      <4>4. QED BY <4>2, <4>3
    <3>2. QED BY <3>1
  <2>7. Moved'
    BY <1>1 DEF Add
  <2>8. QED BY <2>1, <2>2, <2>3, <2>4, <2>5, <2>6, <2>7
<1>2. CASE Enter(t)
  BY <1>2 DEF Enter, IsLive, IsValid
<1>3. CASE Refuse(t)
  BY <1>3 DEF Refuse
<1>4. CASE LockInstance(t)
  BY <1>4 DEF LockInstance
<1>5. CASE UnlockManager(t)
  BY <1>5 DEF UnlockManager
<1>6. CASE Finish(t)
  BY <1>6 DEF Finish
<1>7. CASE Kill(t)
  <2>1. NoUseAfterFree'
    BY <1>7 DEF Kill, RemoveSlot, IsLive, IsValid
  <2>2. ManagerOwned' /\ InstanceOwned'
    BY <1>7 DEF Kill, RemoveSlot, IsLive, IsValid
  <2>3. SlotsLive' /\ FreshAbsent'
    BY <1>7 DEF Kill, RemoveSlot, IsLive, IsValid
  <2>4. Unpublished'
    BY <1>7 DEF Kill, RemoveSlot, IsLive, IsValid
  <2>5. Moved'
    BY <1>7 DEF Kill, RemoveSlot, IsLive, IsValid
  <2>6. QED BY <2>1, <2>2, <2>3, <2>4, <2>5
<1>8. CASE KillAgain(t)
  BY <1>8 DEF KillAgain
<1>9. CASE KillReturns(t)
  BY <1>9 DEF KillReturns
<1>10. QED
  BY <1>1, <1>2, <1>3, <1>4, <1>5, <1>6, <1>7, <1>8, <1>9 DEF Continues

LEMMA SafeDies ==
  ASSUME TypeInv, Safe, NEW a \in Actors, Dies(a)
  PROVE  Safe'
<1> USE ActorsAssumption DEF TypeInv, TypeOK, Safe, NoUseAfterFree, ManagerOwned,
        InstanceOwned, SlotsLive, FreshAbsent, Unpublished, Moved, Alone, InSlot,
        Actors, Stages, Entering, Pointing, Using, Dying, Locked, HoldsInst, GoTo,
        manager, history
<1>1. CASE LockDying(a)
  <2>1. NoUseAfterFree'
    BY <1>1 DEF LockDying
  <2>2. ManagerOwned'
    BY <1>1 DEF LockDying
  <2>3. InstanceOwned'
    BY <1>1 DEF LockDying
  <2>4. SlotsLive'
    BY <1>1 DEF LockDying
  <2>5. FreshAbsent'
    BY <1>1 DEF LockDying
  <2>6. Unpublished'
    BY <1>1 DEF LockDying
  <2>7. Moved'
    BY <1>1 DEF LockDying
  <2>8. QED BY <2>1, <2>2, <2>3, <2>4, <2>5, <2>6, <2>7
<1>2. CASE UnlockDying(a)
  BY <1>2 DEF UnlockDying
<1>3. CASE Destroy(a)
  BY <1>3 DEF Destroy
<1>4. QED BY <1>1, <1>2, <1>3 DEF Dies

LEMMA SafeCollects ==
  ASSUME TypeInv, Safe,
         Collects \/ \E h \in Handles : Drop(h) \/ CollectStarts(h)
  PROVE  Safe'
<1> USE ActorsAssumption DEF TypeInv, TypeOK, Safe, NoUseAfterFree, ManagerOwned,
        InstanceOwned, SlotsLive, FreshAbsent, Unpublished, Moved, Alone, InSlot,
        Actors, Stages, Entering, Pointing, Using, Dying, Locked, HoldsInst, GoTo,
        Return, manager, history
<1>1. CASE FinalizeLeaked
  BY <1>1 DEF FinalizeLeaked, RemoveSlot, IsLive, IsValid
<1>2. CASE FinalizeClosed
  BY <1>2 DEF FinalizeClosed, IsValid
<1>3. CASE FinalizeReturns
  <2>1. NoUseAfterFree'
    BY <1>3 DEF FinalizeReturns
  <2>2. ManagerOwned'
    BY <1>3 DEF FinalizeReturns
  <2>3. InstanceOwned'
    BY <1>3 DEF FinalizeReturns
  <2>4. SlotsLive'
    BY <1>3 DEF FinalizeReturns
  <2>5. FreshAbsent'
    BY <1>3 DEF FinalizeReturns
  <2>6. Unpublished'
    BY <1>3 DEF FinalizeReturns
  <2>7. Moved'
    BY <1>3 DEF FinalizeReturns
  <2>8. QED BY <2>1, <2>2, <2>3, <2>4, <2>5, <2>6, <2>7
<1>4. ASSUME NEW h \in Handles, Drop(h) PROVE Safe'
  BY <1>4 DEF Drop
<1>5. ASSUME NEW h \in Handles, Finalize(h) PROVE Safe'
  BY <1>5 DEF Finalize
<1>6. ASSUME NEW h \in Handles, FinalizeIncomplete(h) PROVE Safe'
  BY <1>6 DEF FinalizeIncomplete
<1>7. QED
  BY <1>1, <1>2, <1>3, <1>4, <1>5, <1>6 DEF Collects, CollectStarts

LEMMA SafeStep == TypeInv /\ Safe /\ [Next]_vars => Safe'
<1>1. TypeInv /\ Safe /\ UNCHANGED vars => Safe'
  BY DEF vars, Safe, NoUseAfterFree, ManagerOwned, InstanceOwned, SlotsLive,
     FreshAbsent, Unpublished, Moved, Alone, InSlot
<1>2. QED
  BY <1>1, SafeStarts, SafeContinues, SafeDies, SafeCollects
     DEF Next, Starts, Exhausted

LEMMA AlwaysSafe == Spec => [](TypeInv /\ Safe)
BY TypeInit, SafeInit, TypeStep, SafeStep, PTL DEF Spec

\* with_instance, kill and finalize never touch memory that was freed and never
\* free it twice, however many threads call them and whatever the collector does.
THEOREM MemorySafety == Spec => []NoUseAfterFree
<1>1. Safe => NoUseAfterFree
  BY DEF Safe
<1>2. QED BY AlwaysSafe, <1>1, PTL

\* The two levels of locks cannot deadlock: who waits for an instance's mutex
\* waits for an operation that holds nothing else.
THEOREM DeadlockFreedom == Spec => []WaitsOnlyForRunning
<1>1. TypeInv /\ Safe => WaitsOnlyForRunning
  <2>1. SUFFICES ASSUME TypeInv, Safe, NEW a \in Actors,
                        pc[a] \in {"use-wait", "dying"}, inst[raw[a]] # None
                 PROVE  inst[raw[a]] # a /\ pc[inst[raw[a]]] = "run"
    BY DEF WaitsOnlyForRunning
  <2> DEFINE b == inst[raw[a]]
  <2>2. raw[a] \in Handles
    BY <2>1 DEF Safe, NoUseAfterFree, Pointing, Using, Dying
  <2>3. b \in Actors /\ pc[b] \in HoldsInst
    BY <2>1, <2>2 DEF TypeInv, TypeOK, Safe, InstanceOwned
  <2>4. mgr = a /\ b # a
    BY <2>1, <2>3 DEF Safe, ManagerOwned, Locked, HoldsInst
  <2> HIDE DEF b
  <2>5. pc[b] \notin Locked
    <3>1. pc[b] \in Locked <=> mgr = b
      BY <2>1, <2>3 DEF Safe, ManagerOwned
    <3>2. QED BY <3>1, <2>4
  <2>6. b # a /\ pc[b] = "run"
    BY <2>3, <2>4, <2>5 DEF HoldsInst, Locked
  <2>7. QED BY <2>6 DEF b
<1>2. QED BY AlwaysSafe, <1>1, PTL

-----------------------------------------------------------------------------
(***************************************************************************)
(* The numbers by which Java objects refer to their native instances.      *)
(***************************************************************************)
\* A slot holds the object that was given its number and is not yet finalized.
SlotOwned ==
  \A n \in 1..Len(instances) : instances[n] # None =>
    Owner(instances[n]) /\ number[instances[n]] = n

\* An object has a number from add on; it has a native instance until then only
\* while it is being constructed.
Published ==
  \A h \in Handles :
    /\ heap[h] \in {"fresh", "building"} => number[h] = 0
    /\ heap[h] \in {"held", "finalizing"} => number[h] # 0
    /\ native[h] = "live" => number[h] # 0 \/ heap[h] = "building"

\* A native method was passed the number of the object it was called on.
Passed ==
  \A a \in Actors :
    /\ pc[a] = "add" => raw[a] = obj[a] /\ heap[raw[a]] = "building"
    /\ pc[a] \notin {"idle", "add"} => arg[a] # 0 /\ arg[a] = number[obj[a]]

\* The finalizer thread has the object it finalizes to itself.
Finalizing ==
  /\ pc[Collector] \in {"idle", "finalize", "unlock"} \cup Dying
  /\ \A t \in Threads : pc[t] # "finalize"
  /\ pc[Collector] # "idle" => heap[obj[Collector]] = "finalizing"
  /\ pc[Collector] \in Dying => raw[Collector] = obj[Collector]
  /\ pc[Collector] = "unlock" => native[obj[Collector]] # "live"

\* A live instance is in its slot, or being moved out.
LiveKept ==
  \A h \in Handles : native[h] = "live" /\ number[h] # 0 =>
    \/ InSlot(h)
    \/ \E a \in Actors : pc[a] \in Dying /\ raw[a] = h

Numbering ==
  /\ SlotOwned
  /\ NumbersAccounted
  /\ Published
  /\ Passed
  /\ Finalizing
  /\ LiveKept
  /\ CollectedIsFreed

-----------------------------------------------------------------------------
\* add gives the object a number that no other object has and takes it off the
\* freelist, where it was the last or not at all.
LEMMA AddNumber ==
  ASSUME TypeInv, NumbersAccounted, NEW t \in Threads, Add(t)
  PROVE  \E k \in Nat \ {0} :
           /\ number' = [number EXCEPT ![raw[t]] = k]
           /\ k \in 1..Len(instances') /\ instances'[k] = raw[t]
           /\ \A n \in 1..Len(instances) : n \in 1..Len(instances')
           /\ \A n \in 1..Len(instances') : n # k =>
                n \in 1..Len(instances) /\ instances'[n] = instances[n]
           /\ \A h \in Handles : Owner(h) => number[h] # k
           /\ \A n \in Nat : IsFree(n)' <=> IsFree(n) /\ n # k
           /\ \A i, j \in 1..Len(freelist') : freelist'[i] = freelist'[j] => i = j
           /\ \A i \in 1..Len(freelist') : freelist'[i] \in Nat
<1>1. /\ instances \in Seq(Handles \cup {None}) /\ Len(instances) \in Nat
      /\ freelist \in Seq(Nat \ {0}) /\ raw[t] \in Handles
  BY DEF TypeInv, TypeOK, CallInv, Actors, Add
<1>2. /\ \A i \in 1..Len(freelist) : freelist[i] \in 1..Len(instances)
      /\ \A i, j \in 1..Len(freelist) : freelist[i] = freelist[j] => i = j
      /\ \A h \in Handles : Owner(h) => number[h] \in 1..Len(instances)
      /\ \A n \in 1..Len(instances) :
           IsFree(n) => \A h \in Handles : Owner(h) => number[h] # n
  BY DEF NumbersAccounted, IsValid
<1>3. CASE freelist = <<>>
  <2> DEFINE k == Len(instances) + 1
  <2>1. /\ instances' = Append(instances, raw[t])
        /\ freelist' = freelist
        /\ number' = [number EXCEPT ![raw[t]] = k]
    BY <1>3 DEF Add
  <2>2. /\ Len(instances') = Len(instances) + 1
        /\ \A n \in 1..Len(instances) : instances'[n] = instances[n]
        /\ instances'[Len(instances) + 1] = raw[t]
    BY <1>1, <2>1, AppendProperties
  <2>3. /\ k \in 1..Len(instances') /\ k \in Nat \ {0}
        /\ \A n \in 1..Len(instances) : n \in 1..Len(instances')
        /\ \A n \in 1..Len(instances') : n # k => n \in 1..Len(instances)
    BY <1>1, <2>2
  <2>4. \A h \in Handles : Owner(h) => number[h] # k
    BY <1>1, <1>2
  <2>5. Len(freelist) = 0 /\ Len(freelist') = 0
    BY <1>3, <2>1
  <2>6. /\ \A n \in Nat : IsFree(n)' <=> IsFree(n) /\ n # k
        /\ \A i, j \in 1..Len(freelist') : freelist'[i] = freelist'[j] => i = j
        /\ \A i \in 1..Len(freelist') : freelist'[i] \in Nat
    BY <2>5 DEF IsFree
  <2> HIDE DEF k
  <2>7. instances'[k] = raw[t] /\ \A n \in 1..Len(instances) : instances'[n] = instances[n]
    BY <2>2 DEF k
  <2>8. QED BY ONLY <2>1, <2>3, <2>4, <2>6, <2>7
<1>4. CASE freelist # <<>>
  <2> DEFINE m == Len(freelist)
             k == freelist[m]
  <2>1. m \in Nat \ {0}
    BY <1>1, <1>4, EmptySeq
  <2>2. k \in 1..Len(instances) /\ k \in Nat \ {0}
    BY <1>1, <1>2, <2>1
  <2>3. /\ instances' = [instances EXCEPT ![k] = raw[t]]
        /\ freelist' = SubSeq(freelist, 1, m - 1)
        /\ number' = [number EXCEPT ![raw[t]] = k]
    BY <1>4 DEF Add
  <2> HIDE DEF k
  <2>4. /\ Len(instances') = Len(instances)
        /\ \A n \in 1..Len(instances) :
             instances'[n] = IF n = k THEN raw[t] ELSE instances[n]
    BY <1>1, <2>2, <2>3, ExceptSeq
  <2>5. /\ freelist' \in Seq(Nat \ {0})
        /\ Len(freelist') = m - 1
        /\ \A i \in 1..m - 1 : freelist'[i] = freelist[i]
    BY <1>1, <1>4, <2>3, PopBack
  <2>6. \A h \in Handles : Owner(h) => number[h] # k
    <3>1. IsFree(k)
      BY <2>1 DEF IsFree, k
    <3>2. QED BY <1>2, <2>2, <3>1
  <2> HIDE DEF m
  <2>7. freelist[m] = k /\ m = Len(freelist)
    BY DEF k, m
  <2>8. \A i : i \in 1..m <=> i \in 1..m - 1 \/ i = m
    BY <2>1
  <2>9. \A i \in 1..m - 1 : freelist'[i] = freelist[i] /\ freelist[i] # k /\ i \in 1..m
    <3>1. \A i \in 1..m - 1 : i # m
      BY <2>1
    <3>2. QED BY <1>2, <2>5, <2>7, <2>8, <3>1
  <2>10. \A n \in Nat : IsFree(n)' <=> IsFree(n) /\ n # k
    <3>1. \A n : IsFree(n)' <=> \E i \in 1..m - 1 : freelist'[i] = n
      BY <2>5 DEF IsFree
    <3>2. \A n : IsFree(n) <=> \E i \in 1..m : freelist[i] = n
      BY <2>7 DEF IsFree
    <3>3. QED BY ONLY <3>1, <3>2, <2>7, <2>8, <2>9
  <2>11. /\ \A i, j \in 1..Len(freelist') : freelist'[i] = freelist'[j] => i = j
         /\ \A i \in 1..Len(freelist') : freelist'[i] \in Nat
    <3>1. /\ \A i, j \in 1..m - 1 : freelist[i] = freelist[j] => i = j
          /\ \A i \in 1..m - 1 : freelist[i] \in Nat
      BY <1>1, <1>2, <2>7, <2>8, ElementOfSeq
    <3>2. QED BY <2>5, <2>9, <3>1
  <2>12. QED BY <2>2, <2>3, <2>4, <2>6, <2>10, <2>11
<1>5. QED BY <1>3, <1>4

\* setFree makes one number free that was not.
LEMMA FreeNumber ==
  ASSUME TypeInv, NEW n \in Nat \ {0}, freelist' = Append(freelist, n),
         \A i, j \in 1..Len(freelist) : freelist[i] = freelist[j] => i = j,
         ~IsFree(n)
  PROVE  /\ \A m \in Nat : IsFree(m)' <=> IsFree(m) \/ m = n
         /\ \A i, j \in 1..Len(freelist') : freelist'[i] = freelist'[j] => i = j
         /\ \A i \in 1..Len(freelist') : freelist'[i] = n \/ IsFree(freelist'[i])
<1>1. /\ Len(freelist) \in Nat
      /\ Len(freelist') = Len(freelist) + 1
      /\ \A i \in 1..Len(freelist) : freelist'[i] = freelist[i]
      /\ freelist'[Len(freelist) + 1] = n
  BY AppendProperties DEF TypeInv, TypeOK
<1>2. QED BY <1>1 DEF IsFree

LEMMA NumberInit == Init => Numbering
BY ActorsAssumption DEF Init, Numbering, SlotOwned, NumbersAccounted, Published, Passed,
   Finalizing, LiveKept, CollectedIsFreed, Owner, IsFree, IsValid, InSlot, Dying, Actors

\* What changes no owner of a number.
LEMMA AccountedStays ==
  ASSUME NumbersAccounted, UNCHANGED <<freelist, number>>,
         Len(instances') = Len(instances), \A h \in Handles : Owner(h)' <=> Owner(h)
  PROVE  NumbersAccounted'
BY DEF NumbersAccounted, IsFree, IsValid

\* What moves no instance out of its slot and keeps those that are being moved out
\* until they are destroyed.
LEMMA LiveStays ==
  ASSUME LiveKept,
         \A h \in Handles : native'[h] = "live" /\ number'[h] # 0 =>
           native[h] = "live" /\ number[h] # 0 /\ (InSlot(h) => InSlot(h)'),
         \A a \in Actors : pc[a] \in Dying =>
           (pc'[a] \in Dying /\ raw'[a] = raw[a]) \/ native'[raw[a]] # "live"
  PROVE  LiveKept'
BY DEF LiveKept

\* What leaves slots, numbers and instances alone.
LEMMA Aside ==
  ASSUME TypeInv, Numbering, UNCHANGED <<instances, freelist, number, native>>,
         \A h \in Handles : Owner(h)' <=> Owner(h),
         \A a \in Actors : pc[a] \in Dying => pc'[a] \in Dying /\ raw'[a] = raw[a]
  PROVE  SlotOwned' /\ NumbersAccounted' /\ LiveKept'
<1>1. SlotOwned'
  BY DEF TypeInv, TypeOK, Numbering, SlotOwned, Owner
<1>2. NumbersAccounted'
  BY AccountedStays DEF Numbering
<1>3. LiveKept'
  BY DEF Numbering, LiveKept, InSlot
<1>4. QED BY <1>1, <1>2, <1>3

LEMMA NumberStarts ==
  ASSUME TypeInv, Safe, Numbering, NEW t \in Threads, NEW h \in Handles,
         New(t, h) \/ NewFails(t, h) \/ Use(t, h) \/ Close(t, h)
  PROVE  Numbering'
<1> USE ActorsAssumption DEF TypeInv, TypeOK, Numbering, SlotOwned, Published, Passed,
        Finalizing, CollectedIsFreed, Owner, Actors, Stages, Entering, Pointing, Using,
        Dying, GoTo, Return, manager, history
<1>1. CASE New(t, h)
  <2>1. SlotOwned' /\ Published' /\ Passed' /\ Finalizing' /\ CollectedIsFreed'
    BY <1>1 DEF New
  <2>2. NumbersAccounted'
    <3>1. \A k \in Handles : Owner(k)' <=> Owner(k)
      BY <1>1 DEF New
    <3>2. QED BY <1>1, <3>1, AccountedStays DEF New
  <2>3. LiveKept'
    <3>1. \A k \in Handles : native'[k] = "live" /\ number'[k] # 0 =>
            native[k] = "live" /\ number[k] # 0
      BY <1>1 DEF New
    <3>2. \A b \in Actors : pc[b] \in Dying => pc'[b] \in Dying /\ raw'[b] = raw[b]
      BY <1>1 DEF New
    <3>3. \A k \in Handles : InSlot(k) => InSlot(k)'
      BY <1>1 DEF New, InSlot
    <3>4. QED BY <3>1, <3>2, <3>3, LiveStays
  <2>4. QED BY <2>1, <2>2, <2>3
<1>2. CASE NewFails(t, h)
  <2>1. Published' /\ Passed' /\ Finalizing' /\ CollectedIsFreed'
    BY <1>2 DEF NewFails
  <2>2. SlotOwned' /\ NumbersAccounted' /\ LiveKept'
    <3>1. \A k \in Handles : Owner(k)' <=> Owner(k)
      BY <1>2 DEF NewFails
    <3>2. QED BY <1>2, <3>1, Aside DEF NewFails
  <2>3. QED BY <2>1, <2>2
<1>3. CASE Use(t, h)
  <2>1. Published' /\ Passed' /\ Finalizing' /\ CollectedIsFreed'
    BY <1>3 DEF Use, Call
  <2>2. SlotOwned' /\ NumbersAccounted' /\ LiveKept'
    BY <1>3, Aside DEF Use, Call
  <2>3. QED BY <2>1, <2>2
<1>4. CASE Close(t, h)
  <2>1. Published' /\ Passed' /\ Finalizing' /\ CollectedIsFreed'
    BY <1>4 DEF Close, Call
  <2>2. SlotOwned' /\ NumbersAccounted' /\ LiveKept'
    BY <1>4, Aside DEF Close, Call
  <2>3. QED BY <2>1, <2>2
<1>5. QED BY <1>1, <1>2, <1>3, <1>4

LEMMA NumberAdd ==
  ASSUME TypeInv, Safe, Numbering, NEW t \in Threads, Add(t)
  PROVE  Numbering'
<1>1. PICK k \in Nat \ {0} :
        /\ number' = [number EXCEPT ![raw[t]] = k]
        /\ k \in 1..Len(instances') /\ instances'[k] = raw[t]
        /\ \A n \in 1..Len(instances) : n \in 1..Len(instances')
        /\ \A n \in 1..Len(instances') : n # k =>
             n \in 1..Len(instances) /\ instances'[n] = instances[n]
        /\ \A h \in Handles : Owner(h) => number[h] # k
        /\ \A n \in Nat : IsFree(n)' <=> IsFree(n) /\ n # k
        /\ \A i, j \in 1..Len(freelist') : freelist'[i] = freelist'[j] => i = j
        /\ \A i \in 1..Len(freelist') : freelist'[i] \in Nat
  BY AddNumber DEF Numbering
<1>2. /\ raw[t] \in Handles /\ t \in Actors /\ t # Collector
      /\ pc \in [Actors -> Stages] /\ number \in [Handles -> Nat]
      /\ obj \in [Actors -> Handles \cup {None}] /\ raw \in [Actors -> Handles \cup {None}]
      /\ DOMAIN heap = Handles /\ DOMAIN arg = Actors
  BY ActorsAssumption DEF TypeInv, TypeOK, CallInv, Add, Actors
<1>3. /\ number[raw[t]] = 0 /\ heap[raw[t]] = "building" /\ pc[t] = "add"
      /\ heap' = [heap EXCEPT ![raw[t]] = "held"]
      /\ native' = native /\ pc' = [pc EXCEPT ![t] = "idle"]
      /\ obj' = [obj EXCEPT ![t] = None] /\ arg' = [arg EXCEPT ![t] = 0]
      /\ raw' = [raw EXCEPT ![t] = None]
  BY <1>2 DEF Add, Return, GoTo, Numbering, Passed, Published
<1>4. \A h \in Handles : Owner(h)' <=> Owner(h) \/ h = raw[t]
  BY <1>1, <1>2, <1>3 DEF Owner
<1>5. Published' /\ CollectedIsFreed'
  BY <1>1, <1>2, <1>3 DEF Numbering, Published, CollectedIsFreed
<1>6. Passed'
  <2>1. SUFFICES ASSUME NEW a \in Actors, a # t
                 PROVE  /\ pc[a] = "add" => raw[a] = obj[a] /\ heap'[raw[a]] = "building"
                        /\ pc[a] \notin {"idle", "add"} =>
                             arg[a] # 0 /\ arg[a] = number'[obj[a]]
    BY <1>2, <1>3 DEF Passed
  <2>2. pc[a] = "add" => raw[a] # raw[t]
    BY <1>2, <1>3, <2>1 DEF Safe, Unpublished, Alone, Pointing
  <2>3. pc[a] \notin {"idle", "add"} => obj[a] # raw[t]
    BY <1>2, <1>3, <2>1 DEF Numbering, Passed
  <2>4. pc[a] # "idle" => obj[a] \in Handles
    BY DEF TypeInv, CallInv
  <2>5. QED BY <1>1, <1>2, <1>3, <2>2, <2>3, <2>4 DEF Numbering, Passed
<1>7. Finalizing'
  BY ActorsAssumption, <1>2, <1>3 DEF Numbering, Finalizing, Dying, Actors
<1>8. SlotOwned'
  <2>1. \A n \in 1..Len(instances) : instances[n] # raw[t]
    BY <1>2, <1>3 DEF Safe, Unpublished, InSlot
  <2>2. \A n \in 1..Len(instances) : instances[n] \in Handles \cup {None}
    BY DEF TypeInv, TypeOK
  <2>3. SUFFICES ASSUME NEW n \in 1..Len(instances'), instances'[n] # None
                 PROVE  number'[instances'[n]] # 0
                        /\ heap'[instances'[n]] \in {"held", "dropped", "finalizing"}
                        /\ number'[instances'[n]] = n
    BY DEF SlotOwned, Owner
  <2>4. CASE n = k
    BY <1>1, <1>2, <1>3, <2>4
  <2>5. CASE n # k
    BY <1>1, <1>2, <1>3, <2>1, <2>2, <2>3, <2>5 DEF Numbering, SlotOwned, Owner
  <2>6. QED BY <2>4, <2>5
<1>9. NumbersAccounted'
  <2>1. /\ \A g, h \in Handles : Owner(g) /\ Owner(h) /\ number[g] = number[h] => g = h
        /\ \A n \in 1..Len(instances) :
             IsFree(n) <=> ~\E h \in Handles : Owner(h) /\ number[h] = n
        /\ \A h \in Handles : Owner(h) => IsValid(number[h])
        /\ \A n : IsFree(n) => IsValid(n)
    BY DEF Numbering, NumbersAccounted, IsFree
  <2>2. \A h \in Handles : number'[h] = IF h = raw[t] THEN k ELSE number[h]
    BY <1>1, <1>2
  <2>3. \A g, h \in Handles : Owner(g)' /\ Owner(h)' /\ number'[g] = number'[h] => g = h
    BY <1>1, <1>4, <2>1, <2>2
  <2>4. \A n \in 1..Len(instances') :
          IsFree(n)' <=> ~\E h \in Handles : Owner(h)' /\ number'[h] = n
    <3>1. SUFFICES ASSUME NEW n \in 1..Len(instances')
                   PROVE  IsFree(n)' <=> ~\E h \in Handles : Owner(h)' /\ number'[h] = n
      OBVIOUS
    <3>2. n \in Nat
      OBVIOUS
    <3>3. CASE n = k
      BY <1>1, <1>2, <1>4, <2>2, <3>2, <3>3
    <3>4. CASE n # k
      <4>1. IsFree(n)' <=> IsFree(n)
        BY <1>1, <3>2, <3>4
      <4>2. IsFree(n) <=> ~\E h \in Handles : Owner(h) /\ number[h] = n
        BY <1>1, <2>1, <3>4
      <4>3. \A h \in Handles : Owner(h)' /\ number'[h] = n <=> Owner(h) /\ number[h] = n
        <5>1. ~Owner(raw[t])
          BY <1>3 DEF Owner
        <5>2. QED BY <1>4, <2>2, <3>4, <5>1
      <4>4. QED BY <4>1, <4>2, <4>3
    <3>5. QED BY <3>3, <3>4
  <2>5. \A h \in Handles : Owner(h)' => IsValid(number[h])'
    BY <1>1, <1>4, <2>1, <2>2 DEF IsValid
  <2>6. \A i \in 1..Len(freelist') : IsValid(freelist[i])'
    <3>1. SUFFICES ASSUME NEW i \in 1..Len(freelist')
                   PROVE  freelist'[i] \in 1..Len(instances')
      BY DEF IsValid
    <3>2. IsFree(freelist[i])'
      BY DEF IsFree
    <3>3. IsFree(freelist'[i])
      BY <1>1, <3>2 DEF IsFree
    <3>4. QED BY <1>1, <2>1, <3>3 DEF IsValid
  <2>7. QED BY <1>1, <2>3, <2>4, <2>5, <2>6 DEF NumbersAccounted
<1>10. LiveKept'
  <2>1. \A h \in Handles : InSlot(h) => InSlot(h)'
    <3>1. SUFFICES ASSUME NEW h \in Handles, NEW n \in 1..Len(instances), instances[n] = h
                   PROVE  \E m \in 1..Len(instances') : instances'[m] = h
      BY DEF InSlot
    <3>2. Owner(h) /\ number[h] = n
      BY ActorsAssumption, <3>1 DEF Numbering, SlotOwned
    <3>3. n # k /\ n \in 1..Len(instances')
      BY <1>1, <3>2
    <3>4. QED BY <1>1, <3>1, <3>3
  <2>2. \A h \in Handles : h = raw[t] => InSlot(h)'
    BY <1>1 DEF InSlot
  <2>3. \A a \in Actors : pc[a] \in Dying => pc'[a] \in Dying /\ raw'[a] = raw[a]
    BY <1>2, <1>3 DEF Dying
  <2>4. QED BY <1>1, <1>2, <1>3, <2>1, <2>2, <2>3 DEF Numbering, LiveKept
<1>11. QED BY <1>5, <1>6, <1>7, <1>8, <1>9, <1>10 DEF Numbering

LEMMA NumberContinues ==
  ASSUME TypeInv, Safe, Numbering, NEW t \in Threads, Continues(t)
  PROVE  Numbering'
<1> USE ActorsAssumption DEF TypeInv, TypeOK, Numbering, SlotOwned, Published, Passed,
        Finalizing, CollectedIsFreed, Owner, Actors, Stages, Entering, Pointing, Using,
        Dying, GoTo, Return, manager, history
<1>1. CASE Add(t)
  BY <1>1, NumberAdd
<1>2. CASE Enter(t)
  <2>1. Published' /\ Passed' /\ Finalizing' /\ CollectedIsFreed'
    BY <1>2 DEF Enter, IsLive, IsValid
  <2>2. SlotOwned' /\ NumbersAccounted' /\ LiveKept'
    BY <1>2, Aside DEF Enter, IsLive, IsValid
  <2>3. QED BY <2>1, <2>2
<1>3. CASE Refuse(t)
  <2>1. Published' /\ Passed' /\ Finalizing' /\ CollectedIsFreed'
    BY <1>3 DEF Refuse
  <2>2. SlotOwned' /\ NumbersAccounted' /\ LiveKept'
    BY <1>3, Aside DEF Refuse
  <2>3. QED BY <2>1, <2>2
<1>4. CASE LockInstance(t)
  <2>1. Published' /\ Passed' /\ Finalizing' /\ CollectedIsFreed'
    BY <1>4 DEF LockInstance
  <2>2. SlotOwned' /\ NumbersAccounted' /\ LiveKept'
    BY <1>4, Aside DEF LockInstance
  <2>3. QED BY <2>1, <2>2
<1>5. CASE UnlockManager(t)
  <2>1. Published' /\ Passed' /\ Finalizing' /\ CollectedIsFreed'
    BY <1>5 DEF UnlockManager
  <2>2. SlotOwned' /\ NumbersAccounted' /\ LiveKept'
    BY <1>5, Aside DEF UnlockManager
  <2>3. QED BY <2>1, <2>2
<1>6. CASE Finish(t)
  <2>1. Published' /\ Passed' /\ Finalizing' /\ CollectedIsFreed'
    BY <1>6 DEF Finish
  <2>2. SlotOwned' /\ NumbersAccounted' /\ LiveKept'
    BY <1>6, Aside DEF Finish
  <2>3. QED BY <2>1, <2>2
<1>7. CASE Kill(t)
  <2>1. SlotOwned' /\ Published' /\ Passed' /\ CollectedIsFreed'
    BY <1>7 DEF Kill, RemoveSlot, IsLive, IsValid
  <2>2. Finalizing'
    <3>1. /\ pc'[Collector] = pc[Collector] /\ raw'[Collector] = raw[Collector]
          /\ obj' = obj /\ heap' = heap /\ native' = native
      BY <1>7 DEF Kill, RemoveSlot
    <3>2. \A u \in Threads : pc'[u] # "finalize"
      BY <1>7 DEF Kill, RemoveSlot
    <3>3. QED BY <3>1, <3>2
  <2>3. NumbersAccounted'
    <3>1. UNCHANGED <<freelist, number, heap>> /\ Len(instances') = Len(instances)
      BY <1>7 DEF Kill, RemoveSlot, IsLive, IsValid
    <3>2. \A h \in Handles : Owner(h)' <=> Owner(h)
      BY <3>1
    <3>3. QED BY <3>1, <3>2, AccountedStays
  <2>4. LiveKept'
    <3>1. /\ arg[t] \in 1..Len(instances)
          /\ instances' = [instances EXCEPT ![arg[t]] = None]
          /\ native' = native /\ number' = number
      BY <1>7 DEF Kill, RemoveSlot, IsLive, IsValid
    <3>2. \A h \in Handles : InSlot(h) => InSlot(h)' \/ h = instances[arg[t]]
      BY <3>1 DEF InSlot
    <3>3. \A a \in Actors : pc[a] \in Dying => pc'[a] \in Dying /\ raw'[a] = raw[a]
      BY <1>7 DEF Kill, RemoveSlot
    <3>4. pc'[t] \in Dying /\ raw'[t] = instances[arg[t]]
      BY <1>7 DEF Kill, RemoveSlot
    <3>5. ASSUME NEW h \in Handles, native'[h] = "live", number'[h] # 0
          PROVE  InSlot(h)' \/ \E a \in Actors : pc'[a] \in Dying /\ raw'[a] = h
      <4>1. InSlot(h) \/ \E a \in Actors : pc[a] \in Dying /\ raw[a] = h
        BY <3>1, <3>5 DEF LiveKept
      <4>2. CASE InSlot(h)
        <5>1. InSlot(h)' \/ h = raw'[t]
          BY <3>2, <3>4, <4>2
        <5>2. t \in Actors
          OBVIOUS
        <5>3. QED BY ONLY <3>4, <5>1, <5>2 DEF Dying
      <4>3. CASE \E a \in Actors : pc[a] \in Dying /\ raw[a] = h
        BY ONLY <3>3, <4>3
      <4>4. QED BY <4>1, <4>2, <4>3
    <3>6. QED BY <3>5 DEF LiveKept
  <2>5. QED BY <2>1, <2>2, <2>3, <2>4
<1>8. CASE KillAgain(t)
  <2>1. Published' /\ Passed' /\ Finalizing' /\ CollectedIsFreed'
    BY <1>8 DEF KillAgain
  <2>2. SlotOwned' /\ NumbersAccounted' /\ LiveKept'
    BY <1>8, Aside DEF KillAgain
  <2>3. QED BY <2>1, <2>2
<1>9. CASE KillReturns(t)
  <2>1. Published' /\ Passed' /\ Finalizing' /\ CollectedIsFreed'
    BY <1>9 DEF KillReturns
  <2>2. SlotOwned' /\ NumbersAccounted' /\ LiveKept'
    BY <1>9, Aside DEF KillReturns
  <2>3. QED BY <2>1, <2>2
<1>10. QED
  BY <1>1, <1>2, <1>3, <1>4, <1>5, <1>6, <1>7, <1>8, <1>9 DEF Continues

LEMMA NumberDies ==
  ASSUME TypeInv, Safe, Numbering, NEW a \in Actors, Dies(a)
  PROVE  Numbering'
<1> USE ActorsAssumption DEF TypeInv, TypeOK, Numbering, SlotOwned, Published, Passed,
        Finalizing, CollectedIsFreed, Owner, Actors, Stages, Entering, Pointing, Using,
        Dying, GoTo, Return, manager, history
<1>1. CASE LockDying(a)
  <2>1. Published' /\ Passed' /\ Finalizing' /\ CollectedIsFreed'
    BY <1>1 DEF LockDying
  <2>2. SlotOwned' /\ NumbersAccounted' /\ LiveKept'
    BY <1>1, Aside DEF LockDying
  <2>3. QED BY <2>1, <2>2
<1>2. CASE UnlockDying(a)
  <2>1. Published' /\ Passed' /\ Finalizing' /\ CollectedIsFreed'
    BY <1>2 DEF UnlockDying
  <2>2. SlotOwned' /\ NumbersAccounted' /\ LiveKept'
    BY <1>2, Aside DEF UnlockDying
  <2>3. QED BY <2>1, <2>2
<1>3. CASE Destroy(a)
  <2>1. SlotOwned' /\ Published' /\ Passed' /\ CollectedIsFreed'
    BY <1>3 DEF Destroy
  <2>2. Finalizing'
    <3>1. raw[a] \in Handles
      BY <1>3 DEF Destroy, Safe, NoUseAfterFree
    <3>2. CASE a = Collector
      BY <1>3, <3>1, <3>2 DEF Destroy
    <3>3. CASE a # Collector
      BY <1>3, <3>1, <3>3 DEF Destroy
    <3>4. QED BY <3>2, <3>3
  <2>3. NumbersAccounted'
    BY <1>3, AccountedStays DEF Destroy
  <2>4. LiveKept'
    <3>1. raw[a] \in Handles
      BY <1>3 DEF Destroy, Safe, NoUseAfterFree
    <3>2. /\ \A h \in Handles : native'[h] = "live" => native[h] = "live"
          /\ \A b \in Actors : pc[b] \in Dying =>
               (pc'[b] \in Dying /\ raw'[b] = raw[b]) \/ native'[raw[b]] # "live"
      BY <1>3, <3>1 DEF Destroy
    <3>3. number' = number /\ \A h \in Handles : InSlot(h) => InSlot(h)'
      BY <1>3 DEF Destroy, InSlot
    <3>4. QED BY <3>2, <3>3, LiveStays
  <2>5. QED BY <2>1, <2>2, <2>3, <2>4
<1>4. QED BY <1>1, <1>2, <1>3 DEF Dies

\* How finalize ends.
Freed ==
  /\ freelist' = Append(freelist, arg[Collector])
  /\ heap' = [heap EXCEPT ![obj[Collector]] = "finalized"]
  /\ Return(Collector)
  /\ UNCHANGED <<instances, inst, native, number, history>>

LEMMA NumberFreed ==
  ASSUME TypeInv, Safe, Numbering, pc[Collector] \in {"finalize", "unlock"},
         native[obj[Collector]] # "live", Freed
  PROVE  Numbering'
<1> DEFINE h == obj[Collector]
           n == arg[Collector]
<1>1. /\ h \in Handles /\ heap[h] = "finalizing" /\ native[h] # "live"
      /\ n = number[h] /\ n \in Nat \ {0}
      /\ Collector \in Actors
      /\ pc \in [Actors -> Stages] /\ number \in [Handles -> Nat]
      /\ obj \in [Actors -> Handles \cup {None}] /\ raw \in [Actors -> Handles \cup {None}]
      /\ DOMAIN heap = Handles /\ DOMAIN arg = Actors
  BY DEF TypeInv, TypeOK, CallInv, Numbering, Finalizing, Passed, Actors
<1>2. Owner(h) /\ IsValid(n) /\ ~IsFree(n)
  BY <1>1 DEF Numbering, NumbersAccounted, Owner, IsValid
<1>3. /\ heap' = [heap EXCEPT ![h] = "finalized"]
      /\ pc' = [pc EXCEPT ![Collector] = "idle"] /\ obj' = [obj EXCEPT ![Collector] = None]
      /\ arg' = [arg EXCEPT ![Collector] = 0] /\ raw' = [raw EXCEPT ![Collector] = None]
      /\ UNCHANGED <<instances, native, number>>
      /\ pc[Collector] \in {"finalize", "unlock"}
  BY DEF Freed, Return, GoTo
<1>4. /\ \A m \in Nat : IsFree(m)' <=> IsFree(m) \/ m = n
      /\ \A i, j \in 1..Len(freelist') : freelist'[i] = freelist'[j] => i = j
      /\ \A i \in 1..Len(freelist') : freelist'[i] = n \/ IsFree(freelist'[i])
  BY <1>1, <1>2, FreeNumber DEF Freed, Numbering, NumbersAccounted
<1>5. \A k \in Handles : Owner(k)' <=> Owner(k) /\ k # h
  BY <1>1, <1>3 DEF Owner
<1> HIDE DEF h, n
<1>6. Published' /\ CollectedIsFreed'
  BY <1>1, <1>3 DEF Numbering, Published, CollectedIsFreed
<1>7. Passed'
  <2>1. SUFFICES ASSUME NEW a \in Actors, a # Collector
                 PROVE  /\ pc[a] = "add" => raw[a] = obj[a] /\ heap'[raw[a]] = "building"
                        /\ pc[a] \notin {"idle", "add"} =>
                             arg[a] # 0 /\ arg[a] = number[obj[a]]
    BY <1>1, <1>3 DEF Passed
  <2>2. pc[a] = "add" => raw[a] # h
    BY <1>1 DEF Numbering, Passed
  <2>3. QED BY <1>1, <1>3, <2>2 DEF Numbering, Passed
<1>8. Finalizing'
  BY ActorsAssumption, <1>1, <1>3 DEF Numbering, Finalizing, Dying, Actors
<1>9. SlotOwned'
  <2>1. \A m \in 1..Len(instances) : instances[m] # None =>
          instances[m] \in Handles /\ instances[m] # h
    BY <1>1 DEF TypeInv, TypeOK, Safe, SlotsLive
  <2>2. QED BY <1>3, <1>5, <2>1 DEF Numbering, SlotOwned
<1>10. NumbersAccounted'
  <2>1. /\ \A g, k \in Handles : Owner(g) /\ Owner(k) /\ number[g] = number[k] => g = k
        /\ \A m \in 1..Len(instances) :
             IsFree(m) <=> ~\E k \in Handles : Owner(k) /\ number[k] = m
        /\ \A k \in Handles : Owner(k) => IsValid(number[k])
        /\ \A m : IsFree(m) => IsValid(m)
    BY DEF Numbering, NumbersAccounted, IsFree
  <2>2. \A g, k \in Handles : Owner(g)' /\ Owner(k)' /\ number'[g] = number'[k] => g = k
    BY <1>3, <1>5, <2>1
  <2>3. ASSUME NEW m \in 1..Len(instances)
        PROVE  IsFree(m)' <=> ~\E k \in Handles : Owner(k)' /\ number'[k] = m
    <3>1. m \in Nat
      OBVIOUS
    <3>2. CASE m = n
      BY <1>1, <1>2, <1>3, <1>4, <1>5, <2>1, <3>1, <3>2
    <3>3. CASE m # n
      <4>1. \A k \in Handles : Owner(k)' /\ number'[k] = m <=> Owner(k) /\ number[k] = m
        BY <1>1, <1>3, <1>5, <3>3
      <4>2. QED BY <1>4, <2>1, <3>1, <3>3, <4>1
    <3>4. QED BY <3>2, <3>3
  <2>4. \A k \in Handles : Owner(k)' => IsValid(number[k])'
    BY <1>3, <1>5, <2>1 DEF IsValid
  <2>5. \A i \in 1..Len(freelist') : IsValid(freelist[i])'
    BY <1>2, <1>3, <1>4, <2>1 DEF IsValid
  <2>6. QED BY <1>3, <1>4, <2>2, <2>3, <2>4, <2>5 DEF NumbersAccounted
<1>11. LiveKept'
  <2>1. \A a \in Actors : pc[a] \in Dying => pc'[a] \in Dying /\ raw'[a] = raw[a]
    BY <1>1, <1>3 DEF Dying
  <2>2. \A k \in Handles : InSlot(k) => InSlot(k)'
    BY <1>3 DEF InSlot
  <2>3. QED BY <1>3, <2>1, <2>2 DEF Numbering, LiveKept
<1>12. QED BY <1>6, <1>7, <1>8, <1>9, <1>10, <1>11 DEF Numbering

\* finalize finds in the slot of its number the instance of its own object.
LEMMA LeakedIsOwn ==
  ASSUME TypeInv, Safe, Numbering, FinalizeLeaked
  PROVE  instances[arg[Collector]] = obj[Collector] /\ obj[Collector] \in Handles
<1> DEFINE n == arg[Collector]
<1>1. pc[Collector] = "finalize" /\ n \in 1..Len(instances) /\ instances[n] # None
  BY DEF FinalizeLeaked, IsLive, IsValid
<1>2. instances[n] \in Handles
  BY <1>1 DEF TypeInv, TypeOK
<1>3. obj[Collector] \in Handles /\ heap[obj[Collector]] = "finalizing"
      /\ n # 0 /\ n = number[obj[Collector]]
  BY <1>1 DEF TypeInv, CallInv, Numbering, Finalizing, Passed, Actors
<1>4. Owner(instances[n]) /\ number[instances[n]] = n
  BY <1>1 DEF Numbering, SlotOwned
<1>5. QED BY <1>2, <1>3, <1>4 DEF Numbering, NumbersAccounted, Owner

LEMMA NumberLeaked ==
  ASSUME TypeInv, Safe, Numbering, FinalizeLeaked
  PROVE  Numbering'
<1> USE ActorsAssumption DEF TypeInv, TypeOK, Numbering, SlotOwned, Published, Passed,
        Finalizing, CollectedIsFreed, Owner, Actors, Stages, Entering, Pointing, Using,
        Dying, GoTo, Return, manager, history, FinalizeLeaked, RemoveSlot, IsLive, IsValid
<1>1. SlotOwned' /\ Published' /\ Passed' /\ CollectedIsFreed'
  <2>1. SlotOwned'
    OBVIOUS
  <2>2. Published'
    OBVIOUS
  <2>3. Passed'
    OBVIOUS
  <2>4. CollectedIsFreed'
    OBVIOUS
  <2>5. QED BY ONLY <2>1, <2>2, <2>3, <2>4
<1>2. Finalizing'
  <2>1. instances[arg[Collector]] = obj[Collector]
    BY LeakedIsOwn
  <2>2. QED BY <2>1
<1>3. NumbersAccounted'
  BY AccountedStays
<1>4. LiveKept'
  <2>1. \A h \in Handles : InSlot(h) => InSlot(h)' \/ h = raw'[Collector]
    BY DEF InSlot
  <2>2. pc'[Collector] \in Dying /\ \A a \in Actors : pc[a] \notin Dying
    BY DEF Safe, ManagerOwned, Locked
  <2>3. UNCHANGED <<native, number>> /\ Collector \in Actors
    OBVIOUS
  <2>4. QED BY <2>1, <2>2, <2>3 DEF LiveKept
<1>5. QED BY <1>1, <1>2, <1>3, <1>4

LEMMA NumberClosed ==
  ASSUME TypeInv, Safe, Numbering, FinalizeClosed
  PROVE  Numbering'
<1> DEFINE h == obj[Collector]
           n == arg[Collector]
<1>1. pc[Collector] = "finalize" /\ mgr = None /\ Collector \in Actors
  BY DEF FinalizeClosed, Actors
<1>2. h \in Handles /\ heap[h] = "finalizing" /\ n # 0 /\ n = number[h]
  BY <1>1 DEF TypeInv, CallInv, Numbering, Finalizing, Passed
<1>3. IsValid(n) /\ ~IsFree(n)
  BY <1>2 DEF Numbering, NumbersAccounted, Owner, IsValid
<1>4. ~IsLive(n)
  BY <1>3 DEF FinalizeClosed
<1>5. native[h] # "live"
  <2>1. ~InSlot(h)
    <3>1. h # None
      BY <1>2, ActorsAssumption
    <3>2. QED BY <1>2, <1>3, <1>4, <3>1 DEF InSlot, IsLive, Numbering, SlotOwned
  <2>2. \A a \in Actors : pc[a] \notin Dying
    BY <1>1, ActorsAssumption DEF Safe, ManagerOwned, Locked, Dying
  <2>3. QED BY <1>2, <2>1, <2>2 DEF Numbering, LiveKept
<1>6. Freed
  BY <1>3 DEF FinalizeClosed, Freed
<1>7. QED BY <1>1, <1>5, <1>6, NumberFreed

LEMMA NumberCollects ==
  ASSUME TypeInv, Safe, Numbering,
         Collects \/ \E h \in Handles : Drop(h) \/ CollectStarts(h)
  PROVE  Numbering'
<1>1. CASE FinalizeLeaked
  BY <1>1, NumberLeaked
<1>2. CASE FinalizeClosed
  BY <1>2, NumberClosed
<1>3. CASE FinalizeReturns
  <2>1. pc[Collector] = "unlock" /\ native[obj[Collector]] # "live" /\ Freed
    BY <1>3 DEF FinalizeReturns, Freed, Numbering, Finalizing
  <2>2. QED BY <2>1, NumberFreed
<1> USE ActorsAssumption DEF TypeInv, TypeOK, Numbering, SlotOwned, Published, Passed,
        Finalizing, CollectedIsFreed, Owner, Actors, Stages, Entering, Pointing, Using,
        Dying, GoTo, Return, manager, history
<1>4. ASSUME NEW h \in Handles, Drop(h) PROVE Numbering'
  <2>1. Published' /\ Passed' /\ Finalizing' /\ CollectedIsFreed'
    BY <1>4 DEF Drop
  <2>2. SlotOwned' /\ NumbersAccounted' /\ LiveKept'
    BY <1>4, Aside DEF Drop
  <2>3. QED BY <2>1, <2>2
<1>5. ASSUME NEW h \in Handles, Finalize(h) PROVE Numbering'
  <2>1. Published' /\ Passed' /\ Finalizing' /\ CollectedIsFreed'
    BY <1>5 DEF Finalize, Unreachable
  <2>2. SlotOwned' /\ NumbersAccounted' /\ LiveKept'
    BY <1>5, Aside DEF Finalize, Unreachable
  <2>3. QED BY <2>1, <2>2
<1>6. ASSUME NEW h \in Handles, FinalizeIncomplete(h) PROVE Numbering'
  <2>1. Published' /\ Passed' /\ Finalizing' /\ CollectedIsFreed'
    BY <1>6 DEF FinalizeIncomplete, Unreachable
  <2>2. SlotOwned' /\ NumbersAccounted' /\ LiveKept'
    BY <1>6, Aside DEF FinalizeIncomplete, Unreachable
  <2>3. QED BY <2>1, <2>2
<1>7. QED
  BY <1>1, <1>2, <1>3, <1>4, <1>5, <1>6 DEF Collects, CollectStarts

LEMMA NumberStep == TypeInv /\ Safe /\ Numbering /\ [Next]_vars => Numbering'
<1>1. Numbering /\ UNCHANGED vars => Numbering'
  BY DEF vars, Numbering, SlotOwned, NumbersAccounted, Published, Passed, Finalizing,
     LiveKept, CollectedIsFreed, Owner, IsFree, IsValid, InSlot
<1>2. QED
  BY <1>1, NumberStarts, NumberContinues, NumberDies, NumberCollects
     DEF Next, Starts, Exhausted

LEMMA AlwaysNumbered == Spec => [](TypeInv /\ Safe /\ Numbering)
BY AlwaysSafe, NumberInit, NumberStep, PTL DEF Spec

\* The numbers handed out are those of objects not yet finalized, each owned by
\* one object, and those on the freelist, each there once: add, kill and finalize
\* lose none and give none away early, even if objects are finalized early.
THEOREM NumbersSound == Spec => []NumbersAccounted
<1>1. Numbering => NumbersAccounted
  BY DEF Numbering
<1>2. QED BY AlwaysNumbered, <1>1, PTL

\* finalize rejects no number, and a finalized object's instance is freed.
THEOREM CollectionFrees == Spec => []CollectedIsFreed
<1>1. Numbering => CollectedIsFreed
  BY DEF Numbering
<1>2. QED BY AlwaysNumbered, <1>1, PTL

-----------------------------------------------------------------------------
(***************************************************************************)
(* The rest holds where no object is finalized while one of its methods    *)
(* runs.                                                                   *)
(***************************************************************************)
\* An object is not collected while one of its methods runs.
Kept ==
  \A t \in Threads : pc[t] \notin {"idle", "add"} => heap[obj[t]] \in {"held", "dropped"}

\* A closed object's instance is in no slot, nor is one that was just destroyed.
ClosedOut ==
  /\ \A h \in closed : ~InSlot(h) /\ heap[h] \notin {"fresh", "building"}
  /\ \A a \in Actors : pc[a] = "unlock" => ~InSlot(obj[a])
  /\ \A t \in late : pc[t] = "use" => obj[t] \in closed

Own == Kept /\ OwnInstance /\ ClosedOut /\ ClosedStaysClosed

\* with_instance and kill find in the slot of their number the instance of the
\* object they were called on.
LEMMA LiveIsOwn ==
  ASSUME TypeInv, Numbering, Kept, NEW t \in Threads, pc[t] \in {"use", "kill"},
         IsLive(arg[t])
  PROVE  instances[arg[t]] = obj[t] /\ obj[t] \in Handles /\ InSlot(obj[t])
<1> DEFINE n == arg[t]
<1>1. n \in 1..Len(instances) /\ instances[n] # None /\ instances[n] \in Handles
  BY DEF IsLive, IsValid, TypeInv, TypeOK
<1>2. obj[t] \in Handles /\ n # 0 /\ n = number[obj[t]] /\ heap[obj[t]] \in {"held", "dropped"}
  BY DEF TypeInv, CallInv, Numbering, Passed, Kept, Actors
<1>3. Owner(instances[n]) /\ number[instances[n]] = n
  BY <1>1 DEF Numbering, SlotOwned
<1>4. instances[n] = obj[t]
  BY <1>1, <1>2, <1>3 DEF Numbering, NumbersAccounted, Owner
<1>5. QED BY <1>1, <1>2, <1>4 DEF InSlot

\* Where the slot of its number is DEAD, an object's instance is in no slot.
LEMMA DeadIsOut ==
  ASSUME TypeInv, Numbering, NEW a \in Actors, pc[a] \notin {"idle", "add"}, ~IsLive(arg[a])
  PROVE  ~InSlot(obj[a])
<1>1. obj[a] \in Handles /\ arg[a] = number[obj[a]]
  BY DEF TypeInv, CallInv, Numbering, Passed
<1>2. obj[a] # None
  BY <1>1, ActorsAssumption
<1>3. QED BY <1>1, <1>2 DEF Numbering, SlotOwned, InSlot, IsLive, IsValid

\* A slot that is emptied or left alone puts no instance back.
LEMMA OutStays ==
  ASSUME ClosedOut, TypeInv,
         \A h \in Handles : InSlot(h)' => InSlot(h),
         \A h \in closed : heap'[h] \notin {"fresh", "building"},
         UNCHANGED closed,
         \A a \in Actors : pc'[a] = "unlock" =>
           obj'[a] \in Handles /\ obj'[a] = obj[a] /\ (pc[a] = "unlock" \/ ~InSlot(obj[a])),
         \A t \in late' : pc'[t] = "use" => obj'[t] \in closed
  PROVE  ClosedOut'
<1>1. \A h \in closed : h \in Handles
  BY DEF TypeInv, TypeOK
<1>2. \A h \in closed' : ~InSlot(h)' /\ heap'[h] \notin {"fresh", "building"}
  BY <1>1 DEF ClosedOut
<1>3. ASSUME NEW a \in Actors, pc'[a] = "unlock"
      PROVE  ~InSlot(obj[a])'
  <2>1. PICK h \in Handles : h = obj'[a] /\ h = obj[a]
    BY <1>3
  <2>2. ~InSlot(h)
    BY <1>3, <2>1 DEF ClosedOut
  <2>3. ~InSlot(h)'
    BY <2>2
  <2>4. QED BY <2>1, <2>3 DEF InSlot
<1>4. QED BY <1>2, <1>3 DEF ClosedOut

LEMMA OwnInit == Init => Own
BY ActorsAssumption DEF Init, Own, Kept, OwnInstance, ClosedOut, ClosedStaysClosed,
   Pointing, Using, Dying, Actors

LEMMA OwnStarts ==
  ASSUME TypeInv, Safe, Numbering, Own, NEW t \in Threads, NEW h \in Handles,
         New(t, h) \/ NewFails(t, h) \/ Use(t, h) \/ Close(t, h)
  PROVE  Own'
<1>1. instances' = instances /\ closed' = closed
  BY DEF New, NewFails, Use, Close, Call, manager, history
<1>2. \A k : InSlot(k)' <=> InSlot(k)
  BY <1>1 DEF InSlot
<1>3. Kept' /\ OwnInstance' /\ ClosedStaysClosed'
  <2> USE ActorsAssumption DEF TypeInv, TypeOK, CallInv, Own, Kept, OwnInstance,
          ClosedStaysClosed, Actors, Stages, Entering, Pointing, Using, Dying, GoTo,
          manager, history
  <2>1. CASE New(t, h)
    BY <2>1 DEF New
  <2>2. CASE NewFails(t, h)
    BY <2>2 DEF NewFails
  <2>3. CASE Use(t, h)
    BY <2>3 DEF Use, Call
  <2>4. CASE Close(t, h)
    BY <2>4 DEF Close, Call
  <2>5. QED BY <2>1, <2>2, <2>3, <2>4
<1>4. ClosedOut'
  <2> USE ActorsAssumption DEF TypeInv, TypeOK, CallInv, Own, ClosedOut, Actors, Stages,
          GoTo, manager, history
  <2>1. \A k \in closed : heap'[k] \notin {"fresh", "building"}
    BY DEF New, NewFails, Use, Close, Call
  <2>2. \A a \in Actors : pc'[a] = "unlock" => pc[a] = "unlock" /\ obj'[a] = obj[a]
    BY DEF New, NewFails, Use, Close, Call
  <2>3. \A b \in late' : pc'[b] = "use" => obj'[b] \in closed
    <3>1. CASE New(t, h)
      BY <3>1 DEF New
    <3>2. CASE NewFails(t, h)
      BY <3>2 DEF NewFails
    <3>3. CASE Use(t, h)
      BY <3>3 DEF Use, Call
    <3>4. CASE Close(t, h)
      BY <3>4 DEF Close, Call
    <3>5. QED BY <3>1, <3>2, <3>3, <3>4
  <2>4. QED BY <1>1, <1>2, <2>1, <2>2, <2>3, OutStays
<1>5. QED BY <1>3, <1>4 DEF Own

LEMMA OwnAdd ==
  ASSUME TypeInv, Safe, Numbering, Own, NEW t \in Threads, Add(t)
  PROVE  Own'
<1>1. PICK h \in Handles : h = raw[t] /\ heap[h] = "building" /\ pc[t] = "add"
  BY DEF Add, TypeInv, CallInv, Numbering, Passed, Actors
<1>2. /\ heap' = [heap EXCEPT ![h] = "held"]
      /\ pc' = [pc EXCEPT ![t] = "idle"] /\ obj' = [obj EXCEPT ![t] = None]
      /\ raw' = [raw EXCEPT ![t] = None]
      /\ UNCHANGED <<closed, late>>
  BY <1>1 DEF Add, Return, GoTo, history
<1>3. /\ t \in Actors /\ t # Collector /\ late \subseteq Threads /\ closed \subseteq Handles
      /\ pc \in [Actors -> Stages] /\ heap \in [Handles -> {"fresh", "building", "held",
           "dropped", "finalizing", "finalized", "rejected"}]
      /\ obj \in [Actors -> Handles \cup {None}] /\ raw \in [Actors -> Handles \cup {None}]
      /\ \A a \in Actors : pc[a] # "idle" => obj[a] \in Handles
  BY ActorsAssumption DEF TypeInv, TypeOK, CallInv, Actors
<1>4. Kept'
  BY <1>1, <1>2, <1>3 DEF Own, Kept, Actors
<1>5. OwnInstance' /\ ClosedStaysClosed'
  BY <1>1, <1>2, <1>3 DEF Own, OwnInstance, ClosedStaysClosed, Pointing, Using, Dying, Actors
<1>6. ClosedOut'
  <2>1. \A k \in Handles : InSlot(k)' => InSlot(k) \/ k = h
    BY <1>1, AddSlot DEF InSlot
  <2>2. \A k \in closed' : ~InSlot(k)' /\ heap'[k] \notin {"fresh", "building"}
    BY <1>1, <1>2, <1>3, <2>1 DEF Own, ClosedOut
  <2>3. ASSUME NEW a \in Actors, pc'[a] = "unlock"
        PROVE  ~InSlot(obj[a])'
    <3>1. PICK k \in Handles : k = obj'[a] /\ k = obj[a] /\ pc[a] = "unlock"
      BY <1>2, <1>3, <2>3
    <3>2. ~InSlot(k)
      BY <3>1 DEF Own, ClosedOut
    <3>3. heap[k] # "building"
      <4>1. CASE a \in Threads
        BY <3>1, <4>1 DEF Own, Kept
      <4>2. CASE a = Collector
        BY <3>1, <4>2 DEF Numbering, Finalizing
      <4>3. QED BY <4>1, <4>2 DEF Actors
    <3>4. ~InSlot(k)'
      BY <1>1, <2>1, <3>2, <3>3
    <3>5. QED BY <3>1, <3>4 DEF InSlot
  <2>4. \A b \in late' : pc'[b] = "use" => obj'[b] \in closed'
    BY <1>2, <1>3 DEF Own, ClosedOut, Actors
  <2>5. QED BY <2>2, <2>3, <2>4 DEF ClosedOut
<1>7. QED BY <1>4, <1>5, <1>6 DEF Own

\* What a thread does inside with_instance.
LEMMA OwnUses ==
  ASSUME TypeInv, Safe, Numbering, Own, NEW t \in Threads,
         Enter(t) \/ Refuse(t) \/ LockInstance(t) \/ UnlockManager(t) \/ Finish(t)
  PROVE  Own'
<1>1. instances' = instances /\ closed' = closed /\ heap' = heap
  BY DEF Enter, Refuse, LockInstance, UnlockManager, Finish, manager, history
<1>2. \A k : InSlot(k)' <=> InSlot(k)
  BY <1>1 DEF InSlot
<1>3. Enter(t) => raw'[t] = obj[t] /\ obj[t] \in Handles /\ t \notin late
  <2>1. SUFFICES ASSUME Enter(t) PROVE raw'[t] = obj[t] /\ obj[t] \in Handles /\ t \notin late
    OBVIOUS
  <2>2. instances[arg[t]] = obj[t] /\ obj[t] \in Handles /\ InSlot(obj[t])
    BY <2>1, LiveIsOwn DEF Enter, Own
  <2>3. t \notin late
    BY <2>1, <2>2 DEF Own, ClosedOut, Enter
  <2>4. QED BY <2>1, <2>2, <2>3 DEF Enter, TypeInv, TypeOK, Actors
<1>4. Kept' /\ OwnInstance' /\ ClosedStaysClosed'
  <2> USE ActorsAssumption DEF TypeInv, TypeOK, CallInv, Own, Kept, OwnInstance,
          ClosedStaysClosed, Actors, Stages, Entering, Pointing, Using, Dying, GoTo,
          Return, manager, history
  <2>1. CASE Enter(t)
    BY <1>3, <2>1 DEF Enter
  <2>2. CASE Refuse(t)
    BY <2>2 DEF Refuse
  <2>3. CASE LockInstance(t)
    BY <2>3 DEF LockInstance
  <2>4. CASE UnlockManager(t)
    BY <2>4 DEF UnlockManager
  <2>5. CASE Finish(t)
    BY <2>5 DEF Finish
  <2>6. QED BY <2>1, <2>2, <2>3, <2>4, <2>5
<1>5. ClosedOut'
  <2>1. \A a \in Actors : pc'[a] = "unlock" => pc[a] = "unlock" /\ obj'[a] = obj[a]
    BY DEF Enter, Refuse, LockInstance, UnlockManager, Finish, GoTo, Return, TypeInv,
       TypeOK, Actors
  <2>2. \A b \in late' : pc'[b] = "use" => pc[b] = "use" /\ obj'[b] = obj[b] /\ b \in late
    BY DEF Enter, Refuse, LockInstance, UnlockManager, Finish, GoTo, Return, TypeInv,
       TypeOK, Actors, history
  <2>3. \A a \in Actors : pc[a] = "unlock" => obj[a] \in Handles
    BY DEF TypeInv, CallInv
  <2>4. QED BY <1>1, <1>2, <2>1, <2>2, <2>3, OutStays DEF Own, ClosedOut
<1>6. QED BY <1>4, <1>5 DEF Own

\* kill and finalize, from the lookup to the destruction.
LEMMA OwnKills ==
  ASSUME TypeInv, Safe, Numbering, Own, NEW a \in Actors,
         \/ a \in Threads /\ Kill(a)
         \/ a = Collector /\ FinalizeLeaked
         \/ Dies(a)
  PROVE  Own'
<1>1. closed' = closed /\ late' = late /\ heap' = heap /\ obj' = obj
  BY DEF Kill, FinalizeLeaked, Dies, LockDying, UnlockDying, Destroy, manager, history
<1>2. \A h \in Handles : InSlot(h)' => InSlot(h)
  BY ActorsAssumption DEF Kill, FinalizeLeaked, RemoveSlot, Dies, LockDying, UnlockDying,
     Destroy, manager, InSlot, IsLive, IsValid, TypeInv, TypeOK
<1>3. Kill(a) /\ a \in Threads => raw'[a] = obj[a]
  BY LiveIsOwn DEF Kill, RemoveSlot, Own, TypeInv, TypeOK
<1>4. FinalizeLeaked => raw'[Collector] = obj[Collector]
  BY LeakedIsOwn DEF FinalizeLeaked, RemoveSlot, TypeInv, TypeOK, Actors
<1>5. Kept' /\ OwnInstance' /\ ClosedStaysClosed'
  <2> USE ActorsAssumption DEF TypeInv, TypeOK, CallInv, Own, Kept, OwnInstance,
          ClosedStaysClosed, Actors, Stages, Entering, Pointing, Using, Dying, GoTo,
          RemoveSlot, manager, history
  <2>1. CASE a \in Threads /\ Kill(a)
    BY <1>3, <2>1 DEF Kill
  <2>2. CASE a = Collector /\ FinalizeLeaked
    BY <1>4, <2>2 DEF FinalizeLeaked
  <2>3. CASE LockDying(a)
    BY <2>3 DEF LockDying
  <2>4. CASE UnlockDying(a)
    BY <2>4 DEF UnlockDying
  <2>5. CASE Destroy(a)
    BY <2>5 DEF Destroy
  <2>6. QED BY <2>1, <2>2, <2>3, <2>4, <2>5 DEF Dies
<1>6. \/ pc' = [pc EXCEPT ![a] = "dying"]
      \/ pc' = [pc EXCEPT ![a] = "dying-locked"]
      \/ pc' = [pc EXCEPT ![a] = "dying-free"]
      \/ pc' = [pc EXCEPT ![a] = "unlock"] /\ pc[a] = "dying-free"
  BY DEF Kill, FinalizeLeaked, RemoveSlot, Dies, LockDying, UnlockDying, Destroy, GoTo
<1>7. pc \in [Actors -> Stages] /\ late \subseteq Actors
  BY DEF TypeInv, TypeOK, Actors
<1>8. ClosedOut'
  <2>1. \A h \in closed : heap'[h] \notin {"fresh", "building"}
    BY <1>1 DEF Own, ClosedOut
  <2>2. \A b \in Actors : pc'[b] = "unlock" =>
          pc[b] = "unlock" \/ (pc[b] = "dying-free" /\ b = a)
    <3>1. \A b \in Actors : b # a => pc'[b] = pc[b]
      BY <1>6, <1>7
    <3>2. pc'[a] = "unlock" => pc[a] = "dying-free"
      BY <1>6, <1>7
    <3>3. QED BY <3>1, <3>2
  <2>3. pc[a] = "dying-free" => ~InSlot(obj[a]) /\ obj[a] \in Handles
    BY DEF Safe, Moved, Dying, Pointing, Own, OwnInstance, TypeInv, CallInv
  <2>4. \A b \in late' : pc'[b] = "use" => pc[b] = "use"
    BY <1>1, <1>6, <1>7
  <2>5. \A b \in Actors : pc[b] = "unlock" => obj[b] \in Handles
    BY DEF TypeInv, CallInv
  <2>6. QED BY <1>1, <1>2, <2>1, <2>2, <2>3, <2>4, <2>5, OutStays DEF Own, ClosedOut
<1>9. QED BY <1>5, <1>8 DEF Own

\* A close() that returns.
LEMMA OwnReturns ==
  ASSUME TypeInv, Safe, Numbering, Own, NEW t \in Threads, KillAgain(t) \/ KillReturns(t)
  PROVE  Own'
<1>1. PICK h \in Handles : h = obj[t]
  BY DEF KillAgain, KillReturns, TypeInv, CallInv, Actors
<1>2. ~InSlot(h) /\ heap[h] \in {"held", "dropped"}
  <2>1. ~InSlot(obj[t])
    BY DeadIsOut DEF KillAgain, KillReturns, Own, ClosedOut, Actors
  <2>2. QED BY <1>1, <2>1 DEF KillAgain, KillReturns, Own, Kept
<1>3. /\ instances' = instances /\ heap' = heap /\ late' = late
      /\ closed' = closed \cup {h}
      /\ pc' = [pc EXCEPT ![t] = "idle"] /\ obj' = [obj EXCEPT ![t] = None]
      /\ raw' = [raw EXCEPT ![t] = None]
  BY <1>1 DEF KillAgain, KillReturns, Return, GoTo, manager
<1>4. /\ t \in Actors /\ late \subseteq Threads /\ pc \in [Actors -> Stages]
      /\ obj \in [Actors -> Handles \cup {None}] /\ raw \in [Actors -> Handles \cup {None}]
  BY DEF TypeInv, TypeOK, Actors
<1>5. Kept' /\ OwnInstance' /\ ClosedStaysClosed'
  BY <1>3, <1>4 DEF Own, Kept, OwnInstance, ClosedStaysClosed, Pointing, Using, Dying, Actors
<1>6. ClosedOut'
  <2>1. \A k : InSlot(k)' <=> InSlot(k)
    BY <1>3 DEF InSlot
  <2>2. \A k \in closed' : ~InSlot(k)' /\ heap'[k] \notin {"fresh", "building"}
    BY <1>2, <1>3, <2>1 DEF Own, ClosedOut
  <2>3. \A a \in Actors : pc'[a] = "unlock" => ~InSlot(obj[a])'
    BY <1>3, <1>4 DEF Own, ClosedOut, InSlot
  <2>4. \A b \in late' : pc'[b] = "use" => obj'[b] \in closed'
    BY <1>3, <1>4 DEF Own, ClosedOut, Actors
  <2>5. QED BY <2>2, <2>3, <2>4 DEF ClosedOut
<1>7. QED BY <1>5, <1>6 DEF Own

\* The collector starts on an object, or is done with it.
LEMMA OwnCollects ==
  ASSUME ~EarlyCollect, TypeInv, Safe, Numbering, Own,
         \/ \E h \in Handles : Drop(h) \/ CollectStarts(h)
         \/ FinalizeClosed \/ FinalizeReturns
  PROVE  Own'
<1>1. instances' = instances /\ closed' = closed /\ late' = late
  BY DEF Drop, CollectStarts, Finalize, FinalizeIncomplete, FinalizeClosed,
     FinalizeReturns, manager, history
<1>2. \A k : InSlot(k)' <=> InSlot(k)
  BY <1>1 DEF InSlot
<1>3. Collector \in Actors /\ Collector \notin Threads
  BY ActorsAssumption DEF Actors
<1>4. \A t \in Threads : pc'[t] = pc[t] /\ obj'[t] = obj[t] /\ raw'[t] = raw[t]
  BY <1>3 DEF Drop, CollectStarts, Finalize, FinalizeIncomplete, FinalizeClosed,
     FinalizeReturns, Return, GoTo, TypeInv, TypeOK, Actors
<1>5. pc'[Collector] \in {"idle", "finalize"} \/ UNCHANGED <<pc, obj, raw>>
  BY <1>3 DEF Drop, CollectStarts, Finalize, FinalizeIncomplete, FinalizeClosed,
     FinalizeReturns, Return, GoTo, TypeInv, TypeOK, Actors
<1>6. Kept'
  <2>1. SUFFICES ASSUME NEW t \in Threads, pc[t] \notin {"idle", "add"}
                 PROVE  heap'[obj[t]] \in {"held", "dropped"}
    BY <1>4 DEF Kept
  <2>2. heap[obj[t]] \in {"held", "dropped"} /\ obj[t] \in Handles
    BY <2>1 DEF Own, Kept, TypeInv, CallInv, Actors
  <2>3. ASSUME NEW h \in Handles, Drop(h) PROVE heap'[obj[t]] \in {"held", "dropped"}
    BY <2>2, <2>3 DEF Drop, TypeInv, TypeOK
  <2>4. ASSUME NEW h \in Handles, CollectStarts(h)
        PROVE  heap'[obj[t]] \in {"held", "dropped"}
    BY <2>2, <2>4 DEF CollectStarts, Finalize, FinalizeIncomplete, Unreachable, TypeInv,
       TypeOK
  <2>5. CASE FinalizeClosed \/ FinalizeReturns
    <3>1. heap[obj[Collector]] = "finalizing"
      BY <2>5 DEF FinalizeClosed, FinalizeReturns, Numbering, Finalizing
    <3>2. QED BY <2>2, <2>5, <3>1 DEF FinalizeClosed, FinalizeReturns, TypeInv, TypeOK
  <2>6. QED BY <2>3, <2>4, <2>5
<1>7. OwnInstance' /\ ClosedStaysClosed'
  BY <1>1, <1>3, <1>4, <1>5 DEF Own, OwnInstance, ClosedStaysClosed, Pointing, Using, Dying,
     Actors, TypeInv, TypeOK
<1>8. ClosedOut'
  <2>1. \A h \in closed : heap'[h] \notin {"fresh", "building"}
    BY DEF Drop, CollectStarts, Finalize, FinalizeIncomplete, FinalizeClosed,
       FinalizeReturns, TypeInv, TypeOK, CallInv, Own, ClosedOut
  <2>2. \A a \in Actors : pc'[a] = "unlock" => pc[a] = "unlock" /\ obj'[a] = obj[a]
    BY <1>3, <1>4, <1>5 DEF Actors
  <2>3. \A a \in Actors : pc[a] = "unlock" => obj[a] \in Handles
    BY DEF TypeInv, CallInv
  <2>4. \A b \in late' : pc'[b] = "use" => obj'[b] \in closed
    BY <1>1, <1>4 DEF Own, ClosedOut, TypeInv, TypeOK
  <2>5. QED BY <1>1, <1>2, <2>1, <2>2, <2>3, <2>4, OutStays DEF Own
<1>9. QED BY <1>6, <1>7, <1>8 DEF Own

LEMMA OwnStep ==
  ASSUME ~EarlyCollect
  PROVE  TypeInv /\ Safe /\ Numbering /\ Own /\ [Next]_vars => Own'
<1>1. Own /\ UNCHANGED vars => Own'
  BY DEF vars, Own, Kept, OwnInstance, ClosedOut, ClosedStaysClosed, InSlot
<1>2. \A t \in Threads : t \in Actors
  BY DEF Actors
<1>3. QED
  BY <1>1, <1>2, OwnStarts, OwnAdd, OwnUses, OwnKills, OwnReturns, OwnCollects
     DEF Next, Starts, Continues, Collects, Exhausted, Actors

LEMMA AlwaysOwn ==
  ASSUME ~EarlyCollect
  PROVE  Spec => []Own
<1>1. TypeInv /\ Safe /\ Numbering /\ Own /\ [Next]_vars => Own'
  BY OwnStep
<1>2. QED BY AlwaysNumbered, OwnInit, <1>1, PTL DEF Spec

\* A method runs on its own object's native instance, never on one that was given
\* the same number later, as long as the virtual machine keeps an object while one
\* of its methods runs.
THEOREM OwnInstanceOnly ==
  ASSUME ~EarlyCollect
  PROVE  Spec => []OwnInstance
<1>1. Own => OwnInstance
  BY DEF Own
<1>2. QED BY AlwaysOwn, <1>1, PTL

\* Under the same proviso no call that began after a close() returned reaches an
\* instance: it ends in ToxKilledException.
THEOREM CloseIsFinal ==
  ASSUME ~EarlyCollect
  PROVE  Spec => []ClosedStaysClosed
<1>1. Own => ClosedStaysClosed
  BY DEF Own
<1>2. QED BY AlwaysOwn, <1>1, PTL

-----------------------------------------------------------------------------
(* The manager implements InstanceHandles.                                 *)

\* Who waits for an instance under the manager's lock finds it still in its slot;
\* what is being destroyed was once added.
Held ==
  \A a \in Actors :
    /\ pc[a] = "use-wait" => InSlot(raw[a])
    /\ pc[a] \in Dying => heap[raw[a]] # "building"

\* At most one thread runs on an instance, and the mapping names it.
UserInv ==
  \A h \in Handles :
    /\ UserOf(h) \in Threads \cup {None}
    /\ \A t \in Threads : Runs(t, h) <=> UserOf(h) = t

\* What the status of an instance says of its memory and its slot.
StatusInv ==
  \A h \in Handles :
    /\ InSlot(h) => StatusOf(h) = "open"
    /\ native[h] = "absent" => StatusOf(h) = "absent"
    /\ native[h] = "live" /\ heap[h] = "building" => StatusOf(h) = "absent"
    /\ native[h] = "live" /\ heap[h] # "building" /\ ~InSlot(h) => StatusOf(h) = "closing"
    /\ native[h] = "freed" => StatusOf(h) = "closed"

MapInv == TypeInv /\ Safe /\ Numbering /\ Held /\ UserInv /\ StatusInv

-----------------------------------------------------------------------------
LEMMA OneUser == TypeInv /\ Safe => UserInv
<1>1. SUFFICES ASSUME TypeInv, Safe, NEW h \in Handles
               PROVE  /\ UserOf(h) \in Threads \cup {None}
                      /\ \A t \in Threads : Runs(t, h) <=> UserOf(h) = t
  BY DEF UserInv
<1>2. \A t \in Threads : Runs(t, h) => inst[h] = t
  BY <1>1 DEF Safe, InstanceOwned, HoldsInst, Runs, Actors
<1>3. CASE \E t \in Threads : Runs(t, h)
  <2>1. UserOf(h) \in Threads /\ Runs(UserOf(h), h)
    BY <1>3 DEF UserOf
  <2>2. QED BY <1>2, <2>1
<1>4. CASE ~\E t \in Threads : Runs(t, h)
  BY <1>4, ActorsAssumption DEF UserOf, Actors
<1>5. QED BY <1>3, <1>4

LEMMA StatusKnown == TypeInv /\ Safe /\ Numbering => StatusInv
<1>1. SUFFICES ASSUME TypeInv, Safe, Numbering, NEW h \in Handles
               PROVE  /\ InSlot(h) => StatusOf(h) = "open"
                      /\ native[h] = "absent" => StatusOf(h) = "absent"
                      /\ native[h] = "live" /\ heap[h] = "building" => StatusOf(h) = "absent"
                      /\ native[h] = "live" /\ heap[h] # "building" /\ ~InSlot(h) =>
                           StatusOf(h) = "closing"
                      /\ native[h] = "freed" => StatusOf(h) = "closed"
  BY DEF StatusInv
<1>2. InSlot(h) => native[h] = "live" /\ heap[h] # "building"
  <2>1. SUFFICES ASSUME NEW n \in 1..Len(instances), instances[n] = h
                 PROVE  native[h] = "live" /\ heap[h] # "building"
    BY DEF InSlot
  <2>2. instances[n] # None
    BY <2>1, ActorsAssumption
  <2>3. native[h] = "live"
    BY <1>1, <2>1, <2>2 DEF Safe, SlotsLive
  <2>4. Owner(h)
    BY <1>1, <2>1, <2>2 DEF Numbering, SlotOwned
  <2>5. QED BY <2>3, <2>4 DEF Owner
<1>3. QED BY <1>2 DEF StatusOf

LEMMA HeldInit == Init => Held
BY DEF Init, Held, Dying

\* add, kill and finalize change the slots, while nobody waits under the lock.
LEMMA HeldSlots ==
  ASSUME TypeInv, Safe, Numbering, Held,
         \/ \E t \in Threads : Add(t) \/ Kill(t)
         \/ FinalizeLeaked
  PROVE  Held'
<1> USE ActorsAssumption DEF TypeInv, TypeOK, Actors, GoTo, Return
<1>1. \A a \in Actors : pc[a] # "use-wait" /\ pc[a] \notin Dying
  BY DEF Add, Kill, FinalizeLeaked, Safe, ManagerOwned, Locked, Dying
<1>2. \A a \in Actors : pc'[a] # "use-wait"
  BY <1>1 DEF Add, Kill, FinalizeLeaked, RemoveSlot
<1>3. ASSUME NEW a \in Actors, pc'[a] \in Dying
      PROVE  heap'[raw'[a]] # "building"
  <2>1. /\ IsLive(arg[a]) /\ raw' = [raw EXCEPT ![a] = instances[arg[a]]]
        /\ heap' = heap
    <3>1. CASE \E t \in Threads : Add(t)
      BY <1>1, <1>3, <3>1 DEF Add, Dying
    <3>2. CASE \E t \in Threads : Kill(t)
      BY <1>1, <1>3, <3>2 DEF Kill, RemoveSlot, Dying
    <3>3. CASE FinalizeLeaked
      BY <1>1, <1>3, <3>3 DEF FinalizeLeaked, RemoveSlot, Dying
    <3>4. QED BY <3>1, <3>2, <3>3
  <2>2. Owner(instances[arg[a]])
    BY <2>1 DEF IsLive, IsValid, Numbering, SlotOwned
  <2>3. QED BY <2>1, <2>2 DEF Owner
<1>4. QED BY <1>2, <1>3 DEF Held

LEMMA HeldRest ==
  ASSUME TypeInv, Safe, Numbering, Held, [Next]_vars,
         ~(\E t \in Threads : Add(t) \/ Kill(t)), ~FinalizeLeaked
  PROVE  Held'
<1> USE ActorsAssumption DEF TypeInv, TypeOK, Actors, GoTo, Return
<1>1. instances' = instances
  BY DEF Next, Starts, New, NewFails, Use, Close, Call, Continues, Enter, Refuse,
     LockInstance, UnlockManager, Finish, KillAgain, KillReturns, Dies, LockDying,
     UnlockDying, Destroy, Drop, CollectStarts, Finalize, FinalizeIncomplete, Collects,
     FinalizeClosed, FinalizeReturns, Exhausted, vars, manager
<1>2. ASSUME NEW a \in Actors, pc'[a] = "use-wait"
      PROVE  InSlot(raw[a])'
  <2>1. (pc[a] = "use-wait" /\ raw'[a] = raw[a]) \/ Enter(a)
    <3>1. ASSUME NEW t \in Threads, Starts(t)
          PROVE  pc[a] = "use-wait" /\ raw'[a] = raw[a]
      BY <1>2, <3>1 DEF Starts, New, NewFails, Use, Close, Call
    <3>2. ASSUME NEW t \in Threads, Enter(t)
          PROVE  (pc[a] = "use-wait" /\ raw'[a] = raw[a]) \/ Enter(a)
      BY <1>2, <3>2 DEF Enter
    <3>3. ASSUME NEW t \in Threads,
                 \/ Refuse(t) \/ LockInstance(t) \/ UnlockManager(t) \/ Finish(t)
                 \/ KillAgain(t) \/ KillReturns(t)
          PROVE  pc[a] = "use-wait" /\ raw'[a] = raw[a]
      BY <1>2, <3>3 DEF Refuse, LockInstance, UnlockManager, Finish, KillAgain, KillReturns
    <3>4. ASSUME NEW b \in Actors, Dies(b)
          PROVE  pc[a] = "use-wait" /\ raw'[a] = raw[a]
      BY <1>2, <3>4 DEF Dies, LockDying, UnlockDying, Destroy
    <3>5. ASSUME NEW h \in Handles, Drop(h) \/ CollectStarts(h)
          PROVE  pc[a] = "use-wait" /\ raw'[a] = raw[a]
      BY <1>2, <3>5 DEF Drop, CollectStarts, Finalize, FinalizeIncomplete
    <3>6. CASE FinalizeClosed \/ FinalizeReturns \/ UNCHANGED vars
      BY <1>2, <3>6 DEF FinalizeClosed, FinalizeReturns, vars
    <3>7. QED BY <3>1, <3>2, <3>3, <3>4, <3>5, <3>6 DEF Next, Continues, Collects, Exhausted
  <2>2. CASE Enter(a)
    BY <1>1, <2>2 DEF Enter, IsLive, IsValid, InSlot
  <2>3. QED BY <1>1, <2>1, <2>2 DEF Held, InSlot
<1>3. ASSUME NEW a \in Actors, pc'[a] \in Dying
      PROVE  heap'[raw'[a]] # "building"
  <2>1. pc[a] \in Dying /\ raw'[a] = raw[a]
    BY <1>3 DEF Next, Starts, New, NewFails, Use, Close, Call, Continues, Enter, Refuse,
     LockInstance, UnlockManager, Finish, KillAgain, KillReturns, Dies, LockDying,
     UnlockDying, Destroy, Drop, CollectStarts, Finalize, FinalizeIncomplete, Collects,
     FinalizeClosed, FinalizeReturns, Exhausted, vars, Dying
  <2>2. raw[a] \in Handles /\ heap[raw[a]] \notin {"fresh", "building"}
    BY <2>1 DEF Held, Safe, NoUseAfterFree, FreshAbsent, Pointing
  <2>3. \A h \in Handles : heap'[h] = "building" => heap[h] \in {"fresh", "building"}
    BY DEF Next, Starts, New, NewFails, Use, Close, Call, Continues, Enter, Refuse,
     LockInstance, UnlockManager, Finish, KillAgain, KillReturns, Dies, LockDying,
     UnlockDying, Destroy, Drop, CollectStarts, Finalize, FinalizeIncomplete, Collects,
     FinalizeClosed, FinalizeReturns, Exhausted, vars
  <2>4. QED BY <2>1, <2>2, <2>3
<1>4. QED BY <1>2, <1>3 DEF Held

LEMMA AlwaysMapped == Spec => []MapInv
<1>1. TypeInv /\ Safe /\ Numbering /\ Held /\ [Next]_vars => Held'
  BY HeldSlots, HeldRest
<1>2. TypeInv /\ Safe /\ Numbering /\ Held => MapInv
  BY OneUser, StatusKnown DEF MapInv
<1>3. QED BY AlwaysNumbered, HeldInit, <1>1, <1>2, PTL DEF Spec

-----------------------------------------------------------------------------
LEMMA MapInit == Init => Abstract!HInit
<1>1. Init => \A h \in Handles : StatusOf(h) = "absent" /\ UserOf(h) = None
  BY ActorsAssumption DEF Init, StatusOf, UserOf, Runs, InSlot, Actors
<1>2. QED BY <1>1 DEF Abstract!HInit

LEMMA SameUsers ==
  ASSUME MapInv, MapInv', \A h \in Handles, t \in Threads : Runs(t, h)' <=> Runs(t, h)
  PROVE  \A h \in Handles : UserOf(h)' = UserOf(h)
BY DEF MapInv, UserInv

LEMMA SameStatus ==
  ASSUME NEW h \in Handles, native'[h] = native[h], InSlot(h)' <=> InSlot(h),
         (heap'[h] = "building") <=> (heap[h] = "building")
  PROVE  StatusOf(h)' = StatusOf(h)
BY DEF StatusOf

LEMMA MapAdd ==
  ASSUME MapInv, MapInv', NEW t \in Threads, Add(t)
  PROVE  \E h \in Handles : Abstract!Open(h)
<1>1. PICK h \in Handles : h = raw[t] /\ heap[h] = "building" /\ native[h] = "live"
                           /\ ~InSlot(h)
  BY DEF Add, MapInv, TypeInv, CallInv, Numbering, Passed, Safe, NoUseAfterFree, Unpublished,
     Pointing, Actors
<1>2. PICK k \in Nat \ {0} :
         /\ k \in 1..Len(instances') /\ instances'[k] = raw[t]
         /\ \A n \in 1..Len(instances) : n \in 1..Len(instances')
         /\ \A n \in 1..Len(instances') : n # k =>
              n \in 1..Len(instances) /\ instances'[n] = instances[n]
         /\ \A g \in Handles : Owner(g) => number[g] # k
  BY AddNumber DEF MapInv, Numbering
<1>3. StatusOf(h) = "absent" /\ StatusOf(h)' = "open"
  <2>1. InSlot(h)'
    BY <1>1, <1>2 DEF InSlot
  <2>2. QED BY <1>1, <2>1 DEF MapInv, StatusInv
<1>4. ASSUME NEW g \in Handles, g # h PROVE StatusOf(g)' = StatusOf(g)
  <2>1. native'[g] = native[g] /\ heap'[g] = heap[g]
    BY <1>1, <1>4 DEF Add, MapInv, TypeInv, TypeOK
  <2>2. InSlot(g)' => InSlot(g)
    BY <1>1, <1>2, <1>4 DEF InSlot
  <2>3. InSlot(g) => InSlot(g)'
    <3>1. SUFFICES ASSUME NEW n \in 1..Len(instances), instances[n] = g
                   PROVE  \E m \in 1..Len(instances') : instances'[m] = g
      BY DEF InSlot
    <3>2. n # k
      BY <1>2, <3>1, ActorsAssumption DEF MapInv, Numbering, SlotOwned
    <3>3. QED BY <1>2, <3>1, <3>2
  <2>4. QED BY <2>1, <2>2, <2>3, SameStatus
<1>5. \A g \in Handles : UserOf(g)' = UserOf(g)
  <2>1. \A g \in Handles, u \in Threads : Runs(u, g)' <=> Runs(u, g)
    BY DEF Add, Return, GoTo, Runs, MapInv, TypeInv, TypeOK, Actors
  <2>2. QED BY <2>1, SameUsers
<1>6. QED BY <1>3, <1>4, <1>5 DEF Abstract!Open, Abstract!Move

LEMMA MapLock ==
  ASSUME MapInv, MapInv', NEW t \in Threads, LockInstance(t)
  PROVE  \E h \in Handles : Abstract!Begin(t, h)
<1>1. PICK h \in Handles : h = raw[t] /\ inst[h] = None /\ pc[t] = "use-wait"
  BY DEF LockInstance, MapInv, TypeInv, Safe, NoUseAfterFree, Pointing, Using, Actors
<1>2. StatusOf(h) = "open"
  BY <1>1 DEF MapInv, Held, StatusInv, InSlot, Actors
<1>3. \A g \in Handles : StatusOf(g)' = StatusOf(g)
  BY SameStatus DEF LockInstance, manager, InSlot
<1>4. UserOf(h) = None
  <2>1. \A u \in Threads : ~Runs(u, h)
    BY <1>1, ActorsAssumption DEF MapInv, Safe, InstanceOwned, HoldsInst, Runs, Actors
  <2>2. QED BY <2>1 DEF MapInv, UserInv
<1>5. \A g \in Handles : UserOf(g) # t
  BY <1>1 DEF MapInv, UserInv, Runs
<1>6. \A g \in Handles : UserOf(g)' = IF g = h THEN t ELSE UserOf(g)
  <2>1. \A g \in Handles, u \in Threads : Runs(u, g)' <=> Runs(u, g) \/ (u = t /\ g = h)
    BY <1>1 DEF LockInstance, GoTo, Runs, MapInv, TypeInv, TypeOK, Actors
  <2>2. QED BY <1>4, <2>1 DEF MapInv, UserInv
<1>7. QED BY <1>2, <1>3, <1>4, <1>5, <1>6 DEF Abstract!Begin

LEMMA MapFinish ==
  ASSUME MapInv, MapInv', NEW t \in Threads, Finish(t)
  PROVE  \E h \in Handles : Abstract!End(t, h)
<1>1. PICK h \in Handles : h = raw[t] /\ pc[t] = "run"
  BY DEF Finish, MapInv, TypeInv, Safe, NoUseAfterFree, Pointing, Using, Actors
<1>2. \A g \in Handles : StatusOf(g)' = StatusOf(g)
  BY SameStatus DEF Finish, manager, InSlot
<1>3. UserOf(h) = t /\ \A g \in Handles : g # h => UserOf(g) # t
  BY <1>1 DEF MapInv, UserInv, Runs
<1>4. \A g \in Handles : UserOf(g)' = IF g = h THEN None ELSE UserOf(g)
  <2>1. \A g \in Handles, u \in Threads : Runs(u, g)' <=> Runs(u, g) /\ u # t
    BY <1>1 DEF Finish, Return, GoTo, Runs, MapInv, TypeInv, TypeOK, Actors
  <2>2. QED BY <1>3, <2>1 DEF MapInv, UserInv
<1>5. QED BY <1>2, <1>3, <1>4 DEF Abstract!End

\* kill and the finalization of a leaked instance.
LEMMA MapRemove ==
  ASSUME MapInv, MapInv', NEW a \in Actors,
         \/ a \in Threads /\ Kill(a)
         \/ a = Collector /\ FinalizeLeaked
  PROVE  \E h \in Handles : Abstract!Shut(h)
<1> DEFINE n == arg[a]
<1>1. /\ n \in 1..Len(instances) /\ instances[n] # None
      /\ instances' = [instances EXCEPT ![n] = None]
      /\ UNCHANGED <<native, heap>>
      /\ pc[a] \in {"kill", "finalize"} /\ pc' = [pc EXCEPT ![a] = "dying"]
      /\ raw' = [raw EXCEPT ![a] = instances[n]]
  BY DEF Kill, FinalizeLeaked, RemoveSlot, GoTo, IsLive, IsValid
<1>2. PICK h \in Handles : h = instances[n]
  BY <1>1 DEF MapInv, TypeInv, TypeOK
<1>3. \A m \in 1..Len(instances) : instances[m] = h => m = n
  BY <1>1, <1>2 DEF MapInv, Safe, SlotsLive
<1>4. Len(instances') = Len(instances)
      /\ \A m \in 1..Len(instances) : instances'[m] = IF m = n THEN None ELSE instances[m]
  BY <1>1, ExceptSeq DEF MapInv, TypeInv, TypeOK
<1>5. h # None
  BY <1>2, ActorsAssumption
<1>6. StatusOf(h) = "open" /\ StatusOf(h)' = "closing"
  <2>1. InSlot(h) /\ ~InSlot(h)'
    BY <1>1, <1>2, <1>3, <1>4, <1>5 DEF InSlot
  <2>2. native[h] = "live"
    BY <1>1, <1>2 DEF MapInv, Safe, SlotsLive
  <2>3. heap[h] # "building"
    BY <1>1, <1>2 DEF MapInv, Numbering, SlotOwned, Owner
  <2>4. QED BY <1>1, <2>1, <2>2, <2>3 DEF MapInv, StatusInv
<1>7. ASSUME NEW g \in Handles, g # h PROVE StatusOf(g)' = StatusOf(g)
  <2>1. InSlot(g)' <=> InSlot(g)
    BY <1>1, <1>2, <1>4, <1>7, ActorsAssumption DEF InSlot
  <2>2. QED BY <1>1, <2>1, SameStatus
<1>8. \A g \in Handles : UserOf(g)' = UserOf(g)
  <2>1. \A g \in Handles, u \in Threads : Runs(u, g)' <=> Runs(u, g)
    BY <1>1 DEF Runs, MapInv, TypeInv, TypeOK, Actors
  <2>2. QED BY <2>1, SameUsers
<1>9. QED BY <1>6, <1>7, <1>8 DEF Abstract!Shut, Abstract!Move

LEMMA MapDestroy ==
  ASSUME MapInv, MapInv', NEW a \in Actors, Destroy(a)
  PROVE  \E h \in Handles : Abstract!Destroyed(h)
<1>1. PICK h \in Handles : h = raw[a] /\ native[h] = "live" /\ pc[a] = "dying-free"
  BY DEF Destroy, MapInv, Safe, NoUseAfterFree, Pointing, Dying
<1>2. StatusOf(h) = "closing"
  <2>1. ~InSlot(h)
    BY <1>1 DEF MapInv, Safe, Moved, Dying, InSlot
  <2>2. heap[h] # "building"
    BY <1>1 DEF MapInv, Held, Dying
  <2>3. QED BY <1>1, <2>1, <2>2 DEF MapInv, StatusInv
<1>3. StatusOf(h)' = "closed"
  BY <1>1 DEF Destroy, MapInv, StatusInv, TypeInv, TypeOK
<1>4. ASSUME NEW g \in Handles, g # h PROVE StatusOf(g)' = StatusOf(g)
  BY <1>1, <1>4, SameStatus DEF Destroy, manager, InSlot, MapInv, TypeInv, TypeOK
<1>5. UserOf(h) = None
  <2>1. \A u \in Threads : ~Runs(u, h)
    BY <1>1 DEF MapInv, Safe, Moved, Alone, Pointing, Using, Runs, Actors
  <2>2. QED BY <2>1 DEF MapInv, UserInv
<1>6. \A g \in Handles : UserOf(g)' = UserOf(g)
  <2>1. \A g \in Handles, u \in Threads : Runs(u, g)' <=> Runs(u, g)
    BY <1>1 DEF Destroy, GoTo, Runs, MapInv, TypeInv, TypeOK, Actors
  <2>2. QED BY <2>1, SameUsers
<1>7. QED BY <1>2, <1>3, <1>4, <1>5, <1>6 DEF Abstract!Destroyed, Abstract!Move

\* Everything else InstanceHandles does not see.
LEMMA MapRest ==
  ASSUME MapInv, MapInv', [Next]_vars,
         \A t \in Threads : ~Add(t) /\ ~LockInstance(t) /\ ~Finish(t) /\ ~Kill(t),
         \A a \in Actors : ~Destroy(a),
         ~FinalizeLeaked
  PROVE  UNCHANGED Abstract!svars
<1>1. instances' = instances
  BY DEF Next, Starts, New, NewFails, Use, Close, Call, Continues, Enter, Refuse,
     UnlockManager, KillAgain, KillReturns, Dies, LockDying, UnlockDying, Drop,
     CollectStarts, Finalize, FinalizeIncomplete, Collects, FinalizeClosed,
     FinalizeReturns, Exhausted, vars, manager
<1>2. \A h : InSlot(h)' <=> InSlot(h)
  BY <1>1 DEF InSlot
<1>3. \A h \in Handles : StatusOf(h)' = StatusOf(h)
  <2>1. ASSUME NEW t \in Threads, NEW g \in Handles, New(t, g)
        PROVE  \A h \in Handles : StatusOf(h)' = StatusOf(h)
    <3>1. native[g] = "absent" /\ native'[g] = "live" /\ heap'[g] = "building"
      BY <2>1 DEF New, MapInv, TypeInv, TypeOK, Safe, FreshAbsent
    <3>2. StatusOf(g)' = StatusOf(g)
      BY <3>1 DEF MapInv, StatusInv
    <3>3. ASSUME NEW h \in Handles, h # g PROVE StatusOf(h)' = StatusOf(h)
      BY <1>2, <2>1, <3>3, SameStatus DEF New, MapInv, TypeInv, TypeOK
    <3>4. QED BY <3>2, <3>3
  <2>2. CASE \A t \in Threads, g \in Handles : ~New(t, g)
    <3>1. native' = native
      BY <2>2 DEF Next, Starts, NewFails, Use, Close, Call, Continues, Enter, Refuse,
         UnlockManager, KillAgain, KillReturns, Dies, LockDying, UnlockDying, Drop,
         CollectStarts, Finalize, FinalizeIncomplete, Collects, FinalizeClosed,
         FinalizeReturns, Exhausted, vars, manager
    <3>2. \A h \in Handles : (heap'[h] = "building") <=> (heap[h] = "building")
      <4> USE DEF MapInv, TypeInv, TypeOK
      <4>1. ASSUME NEW t \in Threads, NEW g \in Handles, NewFails(t, g)
            PROVE  \A h \in Handles : (heap'[h] = "building") <=> (heap[h] = "building")
        BY <4>1 DEF NewFails
      <4>2. ASSUME NEW g \in Handles, Drop(g) \/ CollectStarts(g)
            PROVE  \A h \in Handles : (heap'[h] = "building") <=> (heap[h] = "building")
        BY <4>2 DEF Drop, CollectStarts, Finalize, FinalizeIncomplete, Unreachable
      <4>3. CASE FinalizeClosed \/ FinalizeReturns
        <5>1. heap[obj[Collector]] = "finalizing"
          BY <4>3 DEF FinalizeClosed, FinalizeReturns, Numbering, Finalizing
        <5>2. QED BY <4>3, <5>1 DEF FinalizeClosed, FinalizeReturns
      <4>4. CASE heap' = heap
        BY <4>4
      <4>5. \/ \E t \in Threads, g \in Handles : NewFails(t, g)
            \/ \E g \in Handles : Drop(g) \/ CollectStarts(g)
            \/ FinalizeClosed \/ FinalizeReturns
            \/ heap' = heap
        BY <2>2 DEF Next, Starts, Use, Close, Call, Continues, Enter, Refuse,
           UnlockManager, KillAgain, KillReturns, Dies, LockDying, UnlockDying, Collects,
           Exhausted, vars
      <4>6. QED BY <4>1, <4>2, <4>3, <4>4, <4>5
    <3>3. QED BY <1>2, <3>1, <3>2, SameStatus
  <2>3. QED BY <2>1, <2>2
<1>4. \A h \in Handles, t \in Threads : Runs(t, h)' <=> Runs(t, h)
  <2> USE ActorsAssumption DEF MapInv, TypeInv, TypeOK, Actors, Runs, Return, GoTo
  <2>1. ASSUME NEW u \in Threads, Starts(u)
        PROVE  \A h \in Handles, t \in Threads : Runs(t, h)' <=> Runs(t, h)
    BY <2>1 DEF Starts, New, NewFails, Use, Close, Call
  <2>2. ASSUME NEW u \in Threads,
               Enter(u) \/ Refuse(u) \/ UnlockManager(u) \/ KillAgain(u) \/ KillReturns(u)
        PROVE  \A h \in Handles, t \in Threads : Runs(t, h)' <=> Runs(t, h)
    <3>1. CASE Enter(u)
      BY <3>1 DEF Enter
    <3>2. CASE Refuse(u) \/ UnlockManager(u)
      BY <3>2 DEF Refuse, UnlockManager
    <3>3. CASE KillAgain(u) \/ KillReturns(u)
      BY <3>3 DEF KillAgain, KillReturns
    <3>. QED  BY ONLY <2>2, <3>1, <3>2, <3>3
  <2>3. ASSUME NEW a \in Actors, LockDying(a) \/ UnlockDying(a)
        PROVE  \A h \in Handles, t \in Threads : Runs(t, h)' <=> Runs(t, h)
    BY <2>3 DEF LockDying, UnlockDying
  <2>4. ASSUME NEW g \in Handles, Drop(g) \/ CollectStarts(g)
        PROVE  \A h \in Handles, t \in Threads : Runs(t, h)' <=> Runs(t, h)
    BY <2>4 DEF Drop, CollectStarts, Finalize, FinalizeIncomplete
  <2>5. CASE FinalizeClosed \/ FinalizeReturns \/ UNCHANGED vars
    BY <2>5 DEF FinalizeClosed, FinalizeReturns, vars
  <2>6. QED
    BY <2>1, <2>2, <2>3, <2>4, <2>5 DEF Next, Continues, Dies, Collects, Exhausted
<1>5. QED BY <1>3, <1>4, SameUsers DEF Abstract!svars

LEMMA MapStep == MapInv /\ MapInv' /\ [Next]_vars => [Abstract!HNext]_(Abstract!svars)
<1>1. SUFFICES ASSUME MapInv, MapInv', [Next]_vars
               PROVE  Abstract!HNext \/ UNCHANGED Abstract!svars
  OBVIOUS
<1>2. ASSUME NEW t \in Threads, Add(t) \/ LockInstance(t) \/ Finish(t) \/ Kill(t)
      PROVE  Abstract!HNext
  <2>1. t \in Actors
    BY DEF Actors
  <2>2. \/ \E h \in Handles : Abstract!Open(h) \/ Abstract!Shut(h)
        \/ \E h \in Handles : Abstract!Begin(t, h) \/ Abstract!End(t, h)
    BY <1>1, <1>2, <2>1, MapAdd, MapLock, MapFinish, MapRemove
  <2>3. QED BY <2>2 DEF Abstract!HNext
<1>3. ASSUME NEW a \in Actors, Destroy(a) PROVE Abstract!HNext
  BY <1>1, <1>3, MapDestroy DEF Abstract!HNext
<1>4. ASSUME FinalizeLeaked PROVE Abstract!HNext
  <2>1. Collector \in Actors
    BY DEF Actors
  <2>2. QED BY <1>1, <1>4, <2>1, MapRemove DEF Abstract!HNext
<1>5. QED BY <1>1, <1>2, <1>3, <1>4, MapRest

\* The manager, with its two kinds of mutex, its slots and its freelist, does
\* nothing that InstanceHandles does not allow: an instance is used by one thread
\* at a time, only while it is open, and destroyed once, when nobody uses it.
THEOREM ImplementsSafety == Spec => Abstract!HSafe
BY AlwaysMapped, MapInit, MapStep, PTL DEF Spec, Abstract!HSafe
=============================================================================
