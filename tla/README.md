# A specification of tox4j

tox4j makes toxcore, a C library for peer-to-peer messaging, usable from Java. This directory holds
TLA+ modules that model the parts of tox4j with state and concurrency of their own, TLC
configurations that check them, and proofs checked by TLAPS. Paths below are relative to the
repository (`src/main/...` and `src/test/...` in it).

    tlc -workers 2 -config InstanceManager.cfg MCInstanceManager
    tlapm InstanceManagerProofs.tla

`PROJECT.json` lists every run with its module, configuration and properties, maps each definition
to the lines it translates, and lists the hazards the properties are aimed at.

## The system

### Components

| Component | Where | State | Operations |
|---|---|---|---|
| Native instance manager | `cpp/tox4j/ToxInstances.h`, `cpp/tox4j/with_instance.h` | vector of slots, freelist, one mutex for both, one mutex per instance | `add`, `with_instance`, `kill`, `finalize` |
| Lives of cores and AV sessions | `java/.../ToxCoreImpl.java`, `ToxAvImpl.java`, `cpp/ToxAv/lifecycle.cpp`, `cpp/tox/av.cpp` | `instanceNumber`, the fields `av` and `tox`, `has_av` | constructors, `close`, `finalize` |
| File transfers | `cpp/tox/core.cpp`, `cpp/tox/core_private.h` | `new_Tox::transfers` | `file_send`, `file_control`, `file_send_chunk`, callbacks, requests for chunks in `new_tox_iteration` |
| Event queue and dispatch | `cpp/ToxCore/lifecycle.cpp`, `connection.cpp`, `ToxCoreImpl.iteration` | one `Events` message per instance, Java callback fields | callbacks append; `toxIteration` serialises and clears; `iteration` dispatches |
| AV calls | `cpp/tox/av.cpp` | `friend_to_call`, `call_to_friend`, state of each call | `call`, `answer`, frames, call state callbacks |
| Friend list, identity, messages | `cpp/tox/core.cpp`, `cpp/ToxCore/*.cpp` | kept by toxcore, and which friends' packets are listened to | checks of arguments and error codes around single calls of toxcore |
| Construction, load and save | `cpp/tox/core.cpp`, `cpp/ToxCore/lifecycle.cpp` | none of its own | `toxNew`, `toxSave` |
| JNI marshalling, errors | `cpp/jniutil.h`, `cpp/tox4j/ErrorHandling.*` | none | error codes to exceptions; copies of arrays and strings |
| OCaml DHT node | `src/main/ocaml` | close list of a node | a separate experiment |
| toxcore | not in the repository | connections, packets, file slots | external |

### How they interact

A Java method reads the field `instanceNumber` and passes it to a static native method. That calls
`with_instance`, which looks the number up under the manager's mutex, takes the instance's mutex,
gives the manager's mutex up and runs the operation. All operations of one instance are therefore
sequential, while operations of different instances run in parallel. `close()` calls `kill`, which
moves the instance out of its slot and, holding the manager's mutex all the time, waits for the
operation in progress before the instance is destroyed. The number is recycled only when the JVM's
finalizer thread calls `finalize`.

There are two managers, one for cores and one for AV sessions. Natively a session keeps a pointer to
its core, and the core a flag `has_av`; the managers know nothing of that. Only the Java fields
`ToxCoreImpl.av` and `ToxAvImpl.tox` make closing a core close its session first.

toxcore calls back while it handles packets in `tox_do`, that is, inside one operation. File
transfers of toxcore's old API (a state per direction and number, the client pushes data) are turned
into transfers of the new API (one number space, the client is asked for chunks) by
`new_Tox::transfers`.

### What is hard about it

* Two levels of locks, the inner one waited for under the outer one; destruction that has to wait
  for users that are past the outer lock; numbers that are recycled.
* Garbage collection: finalizers run on a thread of their own, in any order, possibly while a method
  of the object is still running its native part.
* Lifetimes of two objects tied together by unsynchronised Java fields.
* File numbers that are reused as soon as a transfer ends, on each side at a different time, with
  the direction encoded in the number and mirrored in packets; unsigned arithmetic on positions.
* Events that are queued by type and handed out without a lock, to callbacks that may throw, change
  or iterate on another thread at the same time.
* Error codes that pass through four layers, each with its own enumeration.
* Assertions for everything the wrapper does not expect: a failing one ends the process.

What makes each component correct is stated with its module below; the hazards, each at its line,
are in `PROJECT.json`.

## Modules

| Module | Content |
|---|---|
| `InstanceHandles` | Abstract specification: what the manager promises its callers |
| `InstanceManager` | The instance manager with its callers and the collector |
| `MCInstanceManager` | Symmetry for model checking it |
| `InstanceRefinement` | The refinement mapping from `InstanceManager` to `InstanceHandles` |
| `InstanceManagerProofs` | Theorems about `InstanceManager`: types, memory safety, no deadlock, numbers and closing, and the safety half of the refinement |
| `AvLifecycle` | Cores and AV sessions, over two copies of `InstanceHandles` |
| `AvLifecycleProofs` | Theorems about `AvLifecycle` |
| `FileTransfers` | File transfers between two peers |
| `FileDelivery` | Abstract specification: what a transfer promises two clients |
| `FileRefinement` | The refinement mapping from `FileTransfers` to `FileDelivery` |
| `FileTransfersProofs` | Theorems about `FileTransfers`, most of them for clients that keep their friends and send what was asked for |
| `FileConsentProofs` | `Consent` and `RequestsCurrent`, also for clients that do not |
| `FileRefinementProofs` | The refinement and `EndsTold`, as theorems |
| `MCFileTransfers` | Values of constants for model checking them |
| `CoreEvents` | Events from toxcore's callbacks to those of the client |
| `MCCoreEvents` | Symmetry for model checking it |
| `CoreEventsProofs` | Theorems about `CoreEvents` |
| `NewTox` | The functions of `core.cpp` on one core, as operators |
| `CoreCalls` | A client that creates, calls, saves and closes cores, over `NewTox` |
| `MCCoreCalls` | Symmetry for model checking it |
| `CoreCallsProofs` | Theorems about `CoreCalls` |
| `AvCalls` | The calls of one AV session |
| `AvCallsProofs` | Theorems about `AvCalls` |

Operators whose comment begins with "Faulty" are not part of the specifications. Each is a likely
mistake in the definition that follows it; `PROJECT.json` says which property finds it.

### InstanceManager

A Java object and the native instance made for it are one *handle*. `instances` and `freelist` are
the manager's vectors, `mgr` and `inst` the owners of the mutexes, `native` the memory of each
instance, `number` and `heap` the Java object. For each thread and for the collector there is a
program counter, the object the method was called on, the number that was passed, and the native
instance pointed to. One action is one step between two operations on a mutex:

| Code | Actions |
|---|---|
| constructor, `toxNew`, `add` | `New`, `NewFails`, `Add` |
| a method reads `instanceNumber` | `Use`, `Close` (both `Call`) |
| `with_instance` | `Enter` or `Refuse`, `LockInstance`, `UnlockManager`, `Finish` |
| `kill` | `Kill` or `KillAgain`, `LockDying`, `UnlockDying`, `Destroy`, `KillReturns` |
| `finalize` | `Finalize` or `FinalizeIncomplete`, `FinalizeLeaked` or `FinalizeClosed`, then as `kill`, `FinalizeReturns` |

`UnlockDying` before `Destroy` is the order in which C++ destroys the locals of `kill`: the guard
first, then the instance with its mutex. `EarlyCollect` says whether the JVM may finalize an object
one of whose methods is still running native code. The Java language allows it (JLS 12.6.1), as the
native methods are static and get only the number.

The properties: no use of freed memory and no double free (`NoUseAfterFree`); every number is owned
by one object or is on the freelist once (`NumbersAccounted`); a method runs on its own object's
instance (`OwnInstance`); a call begun after `close()` returned never runs (`ClosedStaysClosed`); a
collected object is freed, and no finalizer is rejected (`CollectedIsFreed`); who waits while
holding the manager's mutex waits only for a running operation (`WaitsOnlyForRunning`); what is
removed from its slot is freed in the end (`RemovedIsFreed`); calls return once no new ones begin
(`Quiescence`).

`InstanceHandles` says the same without locks and numbers: an instance is absent, open, closing or
closed, and has at most one user. `InstanceRefinement!ImplementsHandles` states that the manager
implements it, liveness included.

### AvLifecycle

The two managers are `INSTANCE`s of `InstanceHandles`, which the manager was shown to implement. On
top are the Java fields (`avField`, `toxField`, and `numbered` for an assigned `instanceNumber`),
the flag `hasAv`, and a call frame for each thread: closing a core is reading `av`, reading it again
for the call, clearing the field, killing the session, killing the core, each a step of its own, as
nothing synchronises Java's part. `crashed` is the null pointer that `toxAvNew` uses when
`toxav_new` fails. Objects may be collected when they are unreachable, in any order.

`Allowed` selects what the application does beyond the recommendation in the documentation of
`ToxCore`, that one thread closes a core when all others have stopped using it: `concurrent-close`,
`reclose`, `leak`, `second-session`, and `no-memory` for toxcore's part.

The properties: no AV operation or destruction of a session on a freed core (`NoDanglingCore`); no
null pointer (`NoCrash`); `has_av` counts the sessions (`OneSession`); after `close()` of a core has
ended, both are closed (`CloseKills`).

### FileTransfers

Two peers, each with its map `transfers`, toxcore's knowledge of files `slots`, the packets on their
way to it `net`, its client's unanswered requests for data `asked`, and the requests of length 0 it
got (`told`), which say that a file is finished and need no answer. As an instance runs one operation at
a time, a call of the client is one action, between two iterations. An iteration is several:
`FileSendRequest`, `FileData` and `FileControlled` are what a callback in `CB` does with one packet,
`AskChunk` one request for a chunk, `IterationReturns` its end. FINISHED raises `file_request_chunk` with
length 0, and then the transfer is removed (`Tell`, `Forget`), on whichever side it arrives. `stage` keeps them in the order of
`new_tox_iteration`, packets first, and calls out of it. A packet may therefore
arrive during the iteration that handles it, as it may at a socket. An assertion that fails sets
`aborted` and the peer does nothing more. `state`,
`cause`, `position`, `file_size` and `event_pending` are the fields of `file_transfer`; `FINISHED`
is never assigned in the code and `size_requested` is never read, so neither is in the model.
Arithmetic is modulo `WordSize`, as `size_t` arithmetic is.

`Allowed` selects what clients and the network do beyond the usual: `pause`, `resume-any`,
`oversend`, `empty-chunk`, `busy`, `delete`. A usual client resumes a transfer that was offered to
it and answers each request with as many bytes as were asked for, or fewer.

The properties: no assertion fails (`NoAbort`); the map mirrors toxcore (`MapMirrors`); positions
stay inside the file (`NoOverrun`); the position reported with data is where it was read, in the
same transfer (`InOrder`); an open request is the only one and is current (`RequestsCurrent`); a
client is told of the end of each file it sends once, exactly when the wrapper gives the transfer
up, and nobody is told so while either side has data left to move (`EndsTold`); nothing is sent
before the receiver resumed that transfer (`Consent`); a resumed transfer is never left where nothing takes it on
(`NeverStuck`), and it comes to an end on both sides (`Completes`). `NeverStuck` excepts files of
size 0; what the documentation says of them is `StreamsAsked`, which the code violates. It also
violates `RequestsOnlyOutgoing`, that only the client that sends a file gets `file_request_chunk`;
of requests for data that holds (`DataOnlyOutgoing`).

`FileDelivery` says what that amounts to for a file, without numbers, packets and requests: it goes
through the stages none, waiting, sending, done at its sender and none, offered, accepted, done at
its receiver. It is sent only when accepted, what was received was sent before, and neither side is
done before the receiver has the last byte. `FileRefinement!ImplementsDelivery` states that
`FileTransfers` implements it for clients that resume only what is offered to them, send no more
than they were asked for and delete no friend. A step of `FileTransfers` takes at most one file
one stage further.

What is assumed of toxcore, which is external: it numbers files per direction, delivers packets
between friends in order, forgets a file when either side's FINISHED arrives or the friend is
deleted, and drops data and controls for files it does not know. In particular it must not forget an
incoming file when the wrapper itself reports it FINISHED (`core_private.h:343`): the receiver's
transfer is removed only when the sender's FINISHED is passed on (`core_private.h:297`). The wrapper
relies on that and the repository cannot show it. Disconnections are not modelled.

### CoreEvents

`events` is the protobuf message of an instance, one list per type; `connected` is the field of
`new_Tox`. `toxIteration` is one operation of the instance; `inside` is the thread that runs it with
the instance's lock. `Begin` takes the lock. In `tox_do`, toxcore calls functions of `new_Tox::CB`,
each of which appends an event (`Arrive`, `EventType`, `AddEvent`). `End` compares the connection
status with what was last reported (`Connection`), takes the message, clears it and gives the lock
up. From there on no lock protects anything. `todo` is what the calling thread's `iteration()` has
still to hand out, in `DispatchOrder`; `loop` the type whose loop it is in. `Enter` is the test of a
callback field before a loop, `Hand` one call of a callback, `HandThrows` one that throws,
`HandToNull` one through a field that has become null since its test; after either of these the rest
is lost (`Abandon`). `SetCallback` may happen at any time. An event is its type, the iteration it
came with and its place in its list; of its fields only the connection status matters to a property.

The properties: every event is in one place (`Conserved`); one iterating thread hands them out by
iteration, type and occurrence (`HandedInOrder`); a client with a callback knows whether there is a
connection (`ClientKnowsConnection`). The last two are about iterations that do not overlap. When
they do (`overlapped`), batches interleave in any way, and the older connection status may be handed
out last.

### NewTox and CoreCalls

An operator of `NewTox` is a function of `core.cpp`: from the core, as toxcore keeps it (`friends`,
`name`, `status_message`, `nospam`, `status`, and `handlers`, the friends whose custom packets are
listened to), to the core afterwards, the value and the error code. The checks are listed in the
order of the early returns. Results of toxcore are sets to choose from (`AddResults`). In
`CoreCalls` a native method of `ToxCore/*.cpp` has its own name and is that operator followed by
`with_error_handling`: the code is looked up in the method's switch, then in the Java enumeration of
its exception. The variables are the open core, the data saved last, what the client expects to see
(`given`), which friends came with loaded data, and how many native cores exist. The actions are the
calls that change something; `Queries` and `Changes` are all calls possible in a state, for the
property on error codes. What file functions do to transfers is in `FileTransfers`.

`Allowed` selects what the client does beyond the usual: `bad-save`, `zero-byte`, `null-key`,
`odd-key`, `oversized-chunk`, `empty-chunk`, `busy`.

The properties: every call returns or throws the exception it declares (`CodesReachJava`); getters
return what was set, and friends are those added, under the numbers returned, also after saving and
loading (`SeesWhatItGave`); `deleteFriend` succeeds for friends only, which repairs `tox_del_friend`
(`DeleteReports`); custom packets of every friend added since the core was created are heard, also
under a number that a deleted friend had, and nobody's but friends' (`AddedAreHeard`); a native core that nobody
refers to comes only from bad data, one per attempt (`LostOnlyByBadLoads`). That all friends are heard, loaded
ones too, is `FriendsAreHeard`, which the code violates.

### AvCalls

The maps `call_to_friend` and `friend_to_call` of a session, with `state`, `settings` and the
pending events of each `av_call`. `Iterate` is `toxAvIteration`: toxcore reports one thing
(`Occurrences`, according to how far the call is at toxcore, `phase`), its callback runs
(`Handle`), and then frames are asked for (`Request`). `StartCall`, `Answer` and `SendAudio` are the
native methods; `Unimplemented` those that are only an assertion. `asked` are the requests the
client has not answered. An assertion that fails sets `aborted`.

`usual` remembers whether everyone has kept to what the code is written for, as `AudioCallTest`
does: the client calls a friend there is no call with, with audio, answers calls that came in, sends
frames it was asked for; friends call when there is no call; nothing fails and no call ends.

The properties: then no assertion fails (`NoAbort`) and audio arrives whole (`FramesWhole`). For any
client, one frame is asked for at a time, of a call that sends, and every request is still open
exactly while its event is pending (`RequestsPending`).

## What the runs check

| Run | Instance | Distinct states | Result |
|---|---|---|---|
| `instances` | 3 threads, 3 objects, symmetry | 246,804 | 7 invariants hold |
| `instances_fair` | 2 threads, 2 objects, early collection | 27,562 | refinement and liveness hold |
| `av_disciplined` | 2 threads, 2 cores, 2 sessions, nothing unusual | 47,951 | 4 invariants hold |
| `av_anything` | 2 threads, 1 core, 2 sessions, everything | 46,836 | `OneSession` holds |
| `transfers` | 2 + 1 files of size 1 or 3, 2 numbers | 1,091,089 | 8 invariants hold |
| `transfers_complete` | 2 + 1 files of size 1 or 3, 1 number | 15,375 | `Completes` and the refinement hold |
| `transfers_anything` | 2 files of size 0 or 3, every practice but `resume-any` | 99,278 | `Consent` holds |
| `core_events` | 2 threads, 2 iterations of at most 2 events of 2 types and the connection | 588,144 | 4 invariants hold |
| `core_calls` | 2 friend numbers, 2 keys, texts of 4 kinds, bad data once | 35,319 | 6 invariants hold |
| `av_calls` | 2 friends, 3 call indices | 44,175 | 4 invariants hold |
| `file_delete` | `delete` | - | `NoAbort` violated |
| `loaded_friends` | a usual client | - | `FriendsAreHeard` violated |

### Bounds

* Instances: with three threads one can run an operation, a second wait for it in `with_instance` or
  `kill`, and a third try to enter, with the collector besides. A third object is needed for a
  number to be used again while two others are in use. Liveness needs no third of either.
* Sessions: two threads are enough for every race between a close and a constructor. Two sessions on
  one core are the least for `reclose` and `second-session`; a second core shows that only the right
  one is affected.
* Transfers: a file of size 1 takes one chunk and one of size 3 at least two of at most `DataSize` =
  2, the last one shorter than a packet; a second file from the same sender reuses the first one's
  number, or with two numbers overlaps it. `WordSize` = 8 leaves room for every correct position, so
  wrapping is seen as such. `MaxNet` bounds only clients: they wait while so many packets are on the
  way. Answers to packets are never held back. `MaxSends` bounds the files of each peer.
* Events: two types, of which the later to occur is the first to be handed out, besides the
  connection status; two of one type show their order, two iterations that of batches, two threads
  every way they can overlap. Callbacks are set for all types or none at first, and changed for
  these three.
* Calls: two friend numbers are the least for deleting below one in use, for which toxcore answers
  wrongly. Texts are null, empty, of the greatest length (2 stands for every limit) and one longer.
  One nospam besides the initial one; `status` is passed on in the same way and has one value.
  Loading bad data once shows the instance lost; more would repeat it.
* AV calls: two friends with a call each, and a third index for a second call to one of them. Of
  bit rates the code distinguishes only zero from others. The settings of a call that sends no audio
  are toxcore's defaults, which the repository does not show; `AvCalls.cfg` makes one choice of
  them. After an assertion has failed nothing follows.

### Fairness

`InstanceManager`: weak fairness of each thread inside native code, of destruction and of the
collector's steps once begun. A scheduled thread proceeds, toxcore's operations return. Nothing
makes a thread begin a call or the collector run, and no mutex is fair: weak fairness lets a thread
lose every race for a mutex. That suffices for `RemovedIsFreed` because `kill` waits for the
instance with the manager's mutex in its hands, so that nobody else can come in between.

`FileTransfers`: weak fairness, for each peer, of `Receives` (packets arrive and are handled), `Asks`
(an iteration goes on to its requests and returns) and `Answers` (a client answers requests for
chunks, as the documentation of the event asks it to, `cpp/tox/core.h`). Nothing makes a client send
or resume a file.

`AvLifecycle`, `CoreEvents`, `CoreCalls` and `AvCalls` have safety properties only: nothing makes a
client call or iterate, and what a call does, it does before it returns.

### What the violations show

* `file_delete`: deleting a friend leaves its transfers in the map (`core.cpp:512-542`). The next
  friend with that number starts with them, and an assertion on the next file sent fails.
* `loaded_friends`: `new_tox_new` registers the handlers of custom packets for the friends toxcore
  has (`core.cpp:73-81`, called at `core.cpp:166`) and only then loads the saved ones
  (`core.cpp:181`). The list is empty when it is walked, and packets of loaded friends never become
  events, while the documentation speaks of any friend (`cpp/tox/core.h:1769`). Registering after the
  load would satisfy both `FriendsAreHeard` and `AddedAreHeard`.

Seven more configurations end in a counterexample. They are not listed as runs:

* `CoreChunkCode.cfg` (with `MCCoreCalls`) against `CodesReachJava`: `new_tox_file_send_chunk` refuses
  a chunk larger than a packet with `TOO_LARGE` (`core.cpp:937`). The native method knows the code
  (`ToxCore/filetransfer.cpp:68`), but the enumeration `ToxFileSendChunkException.Code` does not, and
  the assertion on the result of its lookup fails (`ErrorHandling.cpp:74`) where an exception was
  meant to be thrown.
* `FileToldBoth.cfg` (with `MCFileTransfers`) against `RequestsOnlyOutgoing`: the sender's FINISHED
  raises `file_request_chunk` with length 0 at the receiver too, with the number the transfer has
  there, 0x100 or more (`core_private.h:288-301`). The test's callback asserts that it runs at the
  sender, with the number `fileSend` returned (`core/callbacks/FileTransferTest.java:79` and `:82`),
  and the documentation describes the number as that returned by `tox_file_send`
  (`cpp/tox/core.h:1619`). `EndsTold` is what holds of these events on both sides.
* `InstanceManagerEarly.cfg` (with `InstanceManager`) against `ClosedStaysClosed`: a method reads
  `instanceNumber`; the object is collected before the native part has looked the number up; the
  number is given to a new object, and the method runs on that (`ToxCoreImpl.java:127`). It needs a
  JVM that collects an object while its method runs.
* `AvRace.cfg` (with `AvLifecycle`) against `NoDanglingCore`: `close()` finds no session
  (`ToxCoreImpl.java:102`), another thread constructs one, the core is killed, the session uses the
  freed core. The documentation recommends against closing a core in use but calls the interface
  thread-safe.
* `AvReclose.cfg` (with `AvLifecycle`) against `NoDanglingCore`: closing an old session again clears
  `tox.av`, which refers to a newer one (`ToxAvImpl.java:49`). Closing the core then leaves that one
  open on a freed core. One thread suffices.
* `FileResumeOwn.cfg` (with `MCFileTransfers`) against `DataOnlyOutgoing`: the sender of a file
  may resume its own offer, after which the *receiver's* client is asked for chunks (`core.cpp:310`
  does not look at the direction). The documentation says the sender's transfer starts out running
  (`core.h:1386`); the code starts it paused.
* `FileStream.cfg` (with `MCFileTransfers`) against `StreamsAsked`: the documentation gives size 0 to
  streams, whose sender is asked for chunks until it sends an empty one (`cpp/tox/core.h:1504`,
  `cpp/tox/core.h:1589`). The code asks while `position` differs from `file_size` (`core.cpp:306`),
  so a stream counts as complete when it starts: nobody is asked for anything, and neither side ever
  ends the transfer.

More that the same models show with other values of `Allowed`, `Sizes` and `Garbage`, and for which
no run is kept:

* `AvLifecycle`: with `leak`, the finalizer of a core may run before that of its session, which then
  writes to the freed core (`av.cpp:267`). With `second-session` or `no-memory`, `toxAvNew` uses a
  null pointer (`ToxAv/lifecycle.cpp:108`). With `concurrent-close`, the field `av` may be cleared
  between its two reads in `close()`, and the core then stays open.
* `FileTransfers`: an assertion fails for `pause` (`core_private.h:283`), for `empty-chunk`
  (`core.cpp:933`) and for `busy` (`core.cpp:974`). With `oversend`, the position passes the end of
  the file and the transfer never ends. With "FRIEND" in `Garbage`, what `cause`
  (`core_private.h:84`) happens to contain makes `RESUME` fail with `DENIED`.
* `CANCEL` reports success and does nothing (`core.cpp:864`).
* `CoreCalls`: data that does not load leaves a native core behind: the caller gets an exception and
  nobody destroys the instance (`core.cpp:184`). With `zero-byte`, a name of one zero byte reads
  back as an empty one (`core.cpp:391`). With `null-key`, `addFriendNoRequest(null)` reads through
  the null pointer (`core.cpp:497`). With `odd-key`, `getFriendByPublicKey` lacks the check of the
  length that other methods make in Java, and the native method's assertion fails. With
  `empty-chunk` and `busy`, assertions fail (`core.cpp:933`, `core.cpp:974`, `core.cpp:826`).
* `CoreEvents`: the end of a file, `fileRequestChunk` of length 0, is handed out before the last
  chunk that came with the same iteration, as that type is dispatched first
  (`ToxCoreImpl.java:310`, `320`).
* `AvCalls`: a second call to a friend, an invitation from a friend there is or was a call with and
  every end of a call meet an assertion (`av.cpp:353`, `av.cpp:143-190`), where the documentation
  has error codes and states. An invitation always reports that no audio and no video are sent, as
  the settings of a new call are zero. A client that answers without audio gets the friend's frames
  cut to its own settings' frame duration, and of stereo frames more than there is (`av.cpp:202` and
  `ToxAv/lifecycle.cpp:70` both multiply by the channels).

## What is proved

Every theorem holds for all values of the constants that satisfy the named assumption of the module
it is about (`ActorsAssumption`, `AvAssumption`, `CoreEventsAssumption`, ...). A theorem that needs
more says so in an `ASSUME`: that the JVM does not collect early, or that clients do not do certain
things of `Allowed`. TLC was asked first which practices break which property; the violations are
named above. No theorem bounds the number of threads, objects, friends,
keys, events or calls.

### The instance manager

`InstanceManagerProofs`, for either value of `EarlyCollect`:

* `TypeCorrect`: `Spec => []TypeOK`. `TypeOK` is not inductive: `finalize` puts the number it was
  passed on the freelist, and `add` writes to the slot of a number from the freelist. `CallInv` and
  `FreeInv` add that these are numbers of slots.
* `MemorySafety`: `Spec => []NoUseAfterFree`. The step to look at is `Destroy`, which frees an
  instance: nobody else may point at it. `Safe` strengthens the property by who holds which mutex
  (`ManagerOwned`, `InstanceOwned`), by what slots contain (`SlotsLive`: live instances, each in one
  slot), and by who may point at an instance that is in no slot. One not yet added is known to its
  creator only (`Unpublished`). One moved out is known to who moved it and to the operation that is
  running on it; once the mutex has been taken and given up, to nobody else (`Moved`). While the
  instance is being moved out nobody can be waiting for it, as one waits for an instance with the
  manager's mutex in hand. That is what a release of the manager's mutex before the wait would
  break.
* `DeadlockFreedom`: `Spec => []WaitsOnlyForRunning`, from the same invariant. A thread that waits
  for an instance's mutex holds the manager's, so whoever holds the instance's is past the manager's
  and waits for nothing. There is no cycle of waits. That every call does return is liveness, which
  TLC checks (`Quiescence`).

For the numbers, `Numbering` adds: the object in a slot has the slot's number and is not
finalized (`SlotOwned`), a native method was passed its object's number (`Passed`), the finalizer
has its object to itself (`Finalizing`), and a live instance with a number is in its slot or being
moved out (`LiveKept`).

* `NumbersSound` and `CollectionFrees`: `NumbersAccounted` and `CollectedIsFreed`, for either value
  of `EarlyCollect`. The number on its way from a slot to the freelist is the finalizer's only.
* `OwnInstanceOnly` and `CloseIsFinal`: `OwnInstance` and `ClosedStaysClosed`, assuming
  `~EarlyCollect`. Then an object whose method runs keeps its number (`Kept`), and a closed object's
  instance is in no slot (`ClosedOut`).

The refinement:

* `ImplementsSafety`: `Spec => Abstract!HSafe`, every step of the manager is a step of
  `InstanceHandles` or a stutter. `MapInv` adds to the invariants what the mapping needs to know: at
  most one thread runs on an instance (`UserInv`), and an instance's status at each stage of its
  memory and slot (`StatusInv`). The fairness of `InstanceHandles` is the half that stays with TLC.

### Cores and AV sessions

`AvLifecycleProofs` has four invariants, each above the one before.

* `LifeInv` assumes nothing of the application: a call on a session is a call on the core it was
  made on (`FrameInv`, `MadeOn`), and what is in use cannot be destroyed (`InUse`). From it
  `AvTypes` (`TypeOK`) and `OnlyOneSession` (`OneSession`).
* `OrderInv` assumes `Orderly`, neither `concurrent-close` nor `reclose`: who closes is alone
  (`ClosesAlone`), so that `ToxCoreImpl.av` is the session there is (`LiveField`) and is still that
  when `close()` comes to it (`ClosingField`). From it `CloseAlwaysKills` (`CloseKills`).
* `HeldInv` assumes besides that there is no `leak`: a session is held until it is closed. From it
  `CoreOutlivesSession` (`NoDanglingCore`).
* `BuildsAlone` assumes that nothing of `Allowed` but `leak` occurs: no session exists on a core
  while one is made. From it `ToxAvNewNeverCrashes` (`NoCrash`).

TLC was asked first which practices break which property: `NoDanglingCore` fails with
`concurrent-close`, `reclose` and `leak`, `CloseKills` with the first two, `NoCrash` with these
(given a third session), `second-session` and `no-memory`.

### Events

`CoreEventsProofs`, for any threads, bounds and occurring calls. `EventsInv` says of the message and
of what each thread has still to hand out that each list contains events of its type, in order
(`MessageInv`); that a thread in a loop has events of that type (`LoopInv`); which iteration the
events of one batch are from (`BatchInv`, `TimeInv`); where an event can be (`PlacesInv`); and,
where iterations do not overlap, that what is still to come comes after what was handed out
(`OrderInv`) and how the last connection status is related to `connected` (`StatusInv`).
`CoreEventTypes`, `NothingLostOrTwice`, `OneIteratorInOrder` and `OneIteratorKnows` are `TypeOK`,
`Conserved`, `HandedInOrder` and `ClientKnowsConnection`.

### Calls of methods

`CoreCallsProofs`, for any friend numbers, keys and number of bad loads. `LeastOf` and `FirstErrorIn`
say that an error is that of the first check that fails, `CallOf` what a native method makes of it,
and one lemma for each function what it makes of the core. `CallsInv` relates core, saved data and
client (`Agrees`), and says of the open core that those listened to are the friends that did not come
with the loaded data (`OpenInv`): what the code does, of which `AddedAreHeard` is the intended part. It is inductive for all of
`Allowed`, since a text of one zero byte is excepted in `Agrees`.

* `CoreCallTypes`, `LeaksOnlyByBadLoads`, `AddedFriendsHeard`, `DeleteTells`: `TypeOK`,
  `LostOnlyByBadLoads`, `AddedAreHeard`, `DeleteReports`, whatever the client does.
* `ReadsWhatItGave`: `SeesWhatItGave`, without `zero-byte`.
* `EveryCodeReachesJava`: `CodesReachJava`, with no practice but `bad-save` and `zero-byte`. For each
  method, the codes of the checks that can fail are among those its switch names.

### AV calls

`AvCallsProofs`, for any friends, call indices and defaults of toxcore. In `AvInv`, as long as no
assertion has failed: the maps agree with toxcore's calls (`Mapped`), a call's state follows that of
toxcore's (`Followed`), and requests are pending where they are asked (`Requested`). As long as
everyone keeps to the usual: there is one call with each friend, and who sends has voice settings
(`Regular`). `AvCallTypes`, `UsualNeverAborts`, `OneRequestEach` and `FramesArriveWhole` are
`TypeOK`, `NoAbort`, `RequestsPending` and `FramesWhole`.

### File transfers

`FileTransfersProofs`, `FileConsentProofs` and `FileRefinementProofs`, for any file numbers, sizes, packet size and word
size that satisfy `TransfersAssumption`: two peers, numbers below 256, and sizes that leave room for
one packet in a word. Each theorem assumes of `Allowed` what it needs:

| Theorem | States | Clients may do | Inductive invariant |
|---|---|---|---|
| `FileTypes` | `TypeOK` | anything | `TypeOK` |
| `FilesMapMirrors` | `MapMirrors` | all but `delete` | `TypeOK /\ MapMirrors` |
| `FilesDataOnlyOutgoing` | `DataOnlyOutgoing` | all but `resume-any` | `PacketInv`, `ReceiverInv` |
| `FilesConsent` | `Consent` | all but `resume-any` | `Consents`: those and `ConsentInv` |
| `FilesRequestsCurrent` | `RequestsCurrent` | all but `resume-any` | `Consents` |
| `FilesNoOverrun`, `FilesInOrder` | the property of that name | `pause`, `empty-chunk`, `busy` (`Tolerated`) | `TransferInv` |
| `FilesNeverStuck` | `NeverStuck` | the same | `TransferInv`, `PendingInv` |
| `FilesDelivered` | `ImplementsDelivery` | the same | `TransferInv`, `UniqueInv` |
| `FilesEndsTold` | `EndsTold` | the same | `TransferInv`, `UniqueInv`, `TellInv` |
| `FilesNoAbort` | `NoAbort` | nothing unusual | `TransferInv`, `PacketInv` |

The assumptions are as weak as they can be for `MapMirrors`, which `delete` breaks, and for
`DataOnlyOutgoing`, `Consent` and `RequestsCurrent`, which `resume-any` breaks. `NoAbort` fails
with each practice but `oversend`. Of the others, `resume-any` breaks `NoOverrun`, `InOrder` and
`NeverStuck`, `oversend` breaks `NoOverrun`, `delete` breaks `InOrder` and `NeverStuck`.

A failed assertion stops one peer, not the other; hence `TransferInv`, which holds with pauses,
empty chunks and full queues, says nothing of whether a peer runs, and the peer that stopped counts
as one that does not take its packets.

What either peer keeps of a file number makes sense only together with what the other keeps and with
the packets between them. `Pair` says how the sender's entry and slot, the receiver's, the packets
onward and back and the files the receiver has resumed fit together, as the stages a number goes
through: `Idle`, `Offered` (its request is on the way), `Announced` (both know of it; accepted means
that an ACCEPT is on the way), `Sending`, `Ended` (the receiver is through, its FINISHED on the way).
In `Idle` and `Offered` the receiver may still have the previous file of that number, complete and
with its end on the way, ahead of any new request (`Over`, `EndFirst`). In `Sending` the data on the
way is the file from the receiver's position to the sender's, without gap or overlap (`Chain`), and
the sender's FINISHED comes after it (`EndLast`). Positions and the failing assertions follow from there, and are not inductive without it: data that
arrives would meet no transfer, or a complete one.

`TransferInv` adds that the peers are friends and no sender accepts its file (`PeerInv`), that no
peer wants chunks of a file it receives (`ReceiverInv`), that ids are given once (`IdInv`), and that
what a client was asked for is still to be sent (`RequestInv`). Lemmas on sequences say what `Append`
and `Tail` do to packets of a kind (`OneInTail`, `OrderInAppend`, `ChainTail`, `ChainAppend`, ...),
lemmas on `Pair` what a packet or a call does to one number (`RequestArrives`, `EndArrives`,
`ChunkSent`, ...), and `OtherPairs` that it leaves the others alone. `PauseStep` and `SendFailsStep`
are the steps of unusual clients; they move no file (`Unmoved`).

* `FilesNoAbort`: the packets on the way are of the kinds that clients send (`PacketInv`), and one
  that is no pause and arrives where `Pair` holds fails no assertion (`NoAssertion`).
* `FilesMapMirrors` needs nothing of the packets. Every callback and call that adds an entry or
  removes one does so with toxcore, or fails an assertion (`MirrorStep`); `MapMirrors` is about peers
  for which none has failed.
* `FilesDataOnlyOutgoing`: only an ACCEPT from the sender makes a receiver's transfer run, and
  the wrapper asks only for files that run (`OutgoingStep`). It says nothing of the requests of length
  0, which go to both clients. Friends may be deleted meanwhile.
* `FilesConsent` and `FilesRequestsCurrent` are about clients for which `Pair` does not hold. One that
  deletes a friend loses packets and slots and keeps its entries, so that either peer may know a file
  the other has forgotten, or never heard of; one that sends more than was asked for makes positions
  pass the end and wrap around. What is left of `Pair` is `Bond`: an entry whose file was not resumed
  has not moved (`Waits`); a file is offered once (`Distinct`), while its sender has it and before
  any data (`Open`); an ACCEPT or a FINISHED on its way back is about the file the sender has, and
  nothing follows the FINISHED (`Answered`); and what the receiver can still resume, or has resumed
  and not received, is the sender's file or is over (`Kept`), where the data on its way leads from the
  one position to the other, modulo the word (`Links`). Nothing is said of a sender whose process has
  ended. Each part is needed: were an ACCEPT of an old file still on its way when its number is used
  again, it would set the new one running. Ids are used once and by one number (`UsedInv`), toxcore
  knows no file of somebody who is not a friend (`StrangerInv`), and `RequestsCurrent` is a part of
  `ConsentInv`, as the chunk of an old request would move the new file.
* `FilesNeverStuck` is the part of `Completes` that fairness does not give: whatever was resumed,
  there is a step to take, by toxcore, a client or a packet. `PendingInv` says that what is marked as
  asked for was asked for and not yet answered; the stage of the number (`Pair`) says the rest
  (`MovesOn`).
* `FilesDelivered`: `Spec => ImplementsDelivery`. `UniqueInv` says that a file never has two numbers,
  on either side. The refinement mapping, which looks for a file's id in maps and packets, is then a
  function of the entries at that number (`View`, `FilesSeen`), and every step either moves one file
  at one number (`Progress`), offers a new one (`Begins`), or changes nothing that is mapped. Files
  may be empty: the sender of one never says that it is done, which `FileDelivery` permits.
* `FilesEndsTold`: `Spec => []EndsTold`. `TellInv` says that what a client was told the end of is a
  file it sends or has resumed, that its wrapper has no transfer of that file, on any number, and that
  of each file it has sent it either has the transfer or was told. That files were resumed is needed
  at the receiver: an offer that arrives is of a file not yet resumed (`Pair`), so not of one that was
  finished. `TellOnce` is the step in which FINISHED arrives; that the position is then the end of
  the file comes from `Pair` (`EndArrives`, `ReceiptArrives`), that no other entry is of that file from
  `UniqueInv` (`EntryAlone`). That the friend is through as well is read off `Pair` (`FriendThrough`).

### Only model-checked

* `RemovedIsFreed`, `Quiescence`, `Completes` and the fairness of `InstanceHandles`: TLAPS does not
  reason about `ENABLED`, on which fairness rests. `FileDelivery` states no fairness.
* `InOrder` with `oversend` and `NoOverrun` with `delete` (small instances, no run is kept): `Pair`
  does not hold there, and `Bond` does not say that whoever sends data has a receiver.

## What is not modelled

* Copying of arrays and strings between Java and C++, exceptions' classes and messages,
  compatibility headers, logging: no state or control of their own.
* `iteration()` called from within a callback, and the dispatch of AV events, which follows the same
  scheme with six types. Functions of the native API that no Java method calls; most of them are
  `assert(false)`.
* The content of messages and packets; `iterationInterval`, which passes on a number.
* The content of video frames: sending and receiving them are assertions, which `AvCalls` has.
* The OCaml node: unrelated to the Java library.
* Test clients, GUI and build.
* toxcore: not in the repository.
* Failures of `new` and of the JVM (exceptions thrown while an array is copied), and disconnections
  of friends.

## Plan

The order followed: first the instance manager, as everything runs inside it; then sessions, the one
place where two managers meet; then file transfers, the largest piece of logic in the wrapper;
then events, the rest of the core's methods, AV calls, and what a file transfer promises. Next:

1. The composition of `CoreEvents` with `FileTransfers`: a client that closes its file at the end of
   the transfer and is then handed the last chunk.
2. `InOrder` proved for `oversend`, from `Bond` and a receiver that has kept its entry.

Runs that only showed a violation have made room for the runs of the newer modules; their
configurations are kept and described above.
