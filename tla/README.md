# A TLA+ model of the FIX engine

This directory holds TLA+ specifications of the FIX protocol engine in `src/`, the TLC
configurations that check them on small instances, and theorems about them that TLAPS checks for
every instance. `PROJECT.json` lists the components, runs, properties, hazards, findings and
theorems in machine-readable form, and maps each definition to the source lines it translates.

Run a configuration with `tlc -config X.cfg M` and check proofs with `tlapm M.tla`, in this directory.

## The system

| part | source | state | operations |
|---|---|---|---|
| session | `session/session.cpp` | FSM state, gap chase, TestRequest probe, logout gate, timestamps | `on_data` and its handlers, `send`, `logon`, `logout`, `disconnect`, `reset`, `on_timer`, `on_transport_connected` |
| message store | `store/file_store.cpp`, `memory_store.hpp` | NextSender, NextTarget, outbound and inbound frames, their files | claim, set, advance, store, read back, `reset`, `refresh`, `close`, open |
| TCP transport | `transport/tcp_transport.cpp` | socket, send queue, `running_`, `connected_`, `disconnect_requested_` | `start`, `stop`, `send`, `disconnect`, the IO thread |
| audit log | `log/message_log.cpp` | queue, flush tokens, current file, counters | `log`, `flush`, `rotate`, destructor, the writer thread |
| engine | `engine.cpp` | connections, timer thread, reap list, quarantine, deferred errors | `start`, `stop`, `add_session`, `remove_session`, `set_audit_log` |
| session manager | `session/session_manager.cpp` | registry of sessions | create, find, remove, `for_each` |
| parser, serializer | `parser/` | input buffer, resynchronisation | bytes to messages and back |
| data dictionary | `dictionary/` | static tables | validation of a message |

Four kinds of threads meet: application threads (`send`, `logout`, `reset`), one IO thread per
transport (connecting, `on_data`, callbacks), the engine's timer thread (`on_timer` of every
session every 200 ms) and the audit log's writer. `send_mutex_` of a session covers claim, store
and hand-over of a frame; the store, the transport and the log each have their own mutex.

What is hard about it: two ends whose numberings must stay in step through garbled frames,
breaks, resets and failing disks; a replay computed from a history that other threads append to;
a handshake and a teardown that every thread may start; files that must load after a crash at any
system call; a send queue that must not leak into the next connection; condition variables that
must not lose a wake-up; threads that are told to end from inside their own callbacks; a byte
stream that must be cut into the same frames however it arrives. `PROJECT.json` lists these hazards
with their lines.

## The modules

| module | models | extends |
|---|---|---|
| `SessionCore` | every function of `session.cpp` as an operator on one session value | |
| `Session` | one session against an arbitrary peer and a failing store | `SessionCore` |
| `SessionTimed` | one session and the clock of the engine's timer thread | `SessionCore` |
| `SessionPair` | an initiator and an acceptor over a connection | `SessionCore` |
| `SendPath` | the send path step by step, with several threads | `SessionCore` |
| `ResendReplay` | the loop of `handle_resend_request`, number by number | `SessionCore` |
| `MessageStore` | what the store promises about the state a restart recovers | |
| `FileStore` | the file store, system call by system call | |
| `AuditLog` | the audit log and its writer thread | |
| `TcpTransport` | the transport, its IO thread and its callers | |
| `EngineLifecycle` | the engine and the session manager: who owns a connection and who joins whose thread | |
| `StreamParser` | the incremental parser | |
| `MC...` | constants for TLC | the module they are named after |
| `SessionProofs` | theorems about `Session`; lemmas about each operator of `SessionCore` | `Session` |
| `SessionStepProofs` | theorems about what one step of `Session` emits, delivers and establishes | `SessionProofs` |
| `OutboundProofs` | theorems about the send path and the replay loop | `SendPath`, `ResendReplay` |
| `FileStoreProofs` | theorems about the numbers and the order of the message log | `FileStore` |
| `FileStoreFrameProofs` | theorems about the stored frames, and the refinement of `MessageStore` | `FileStoreProofs` |
| `AuditLogProofs`, `EngineProofs`, `StreamParserProofs` | theorems | `AuditLog`, `EngineLifecycle`, `StreamParser` |

Definitions named `X_y` and marked "Faulty variant" are not part of the model. Each is `X` with
the kind of mistake a property is meant to catch, and `PROJECT.json` says which property catches
it.

### SessionCore

The value `s` stands for a `Session` object together with the counters and the outbound history
of its store; `c` is its `SessionConfig`, `m` an inbound message, and `f` the set of store
operations that fail while the handler runs (one set for the whole handler). An operator is named
after the function it translates and returns the session that function leaves. What it sends and
the callbacks it makes are collected in `s.tx` and `s.cb`. A callback that calls back into the
session is a later operation.

Integers keep their widths: `SeqNum` is unsigned with `MaxSeq = 2 Half - 1`, numeric fields are
signed with `Half`, `int` is signed with `IntHalf`; `Cast`, `Signed` and `ToInt` are the casts of
the source. A missing integer field is 0, which every handler treats like a missing one. The store
is `FileStore`, which refuses a claim at the largest number. In the history, `"admin"` also stands
for a frame that cannot be parsed again: the replay treats both alike.

### Session, SessionTimed, SessionPair

`Session` has one action per public operation. The operations are atomic, and any deadline may
have passed at a tick. `shook` is a history variable: whose Logon has crossed the present
connection.

`SessionTimed` replaces the free choice of deadlines by a clock. Timestamps are ages in periods of
the timer (200 ms). An event falls anywhere between two ticks, so a deadline of `d` periods may be
found passed at age `d` and is found passed at `d + 1`. `Forget` re-baselines the numbering after
each step, since no timer property depends on it, so that a session can run for ever.

`SessionPair` joins two sessions by two sequences of frames. A frame may be garbled and dropped by
the receiver's parser; a connection may break, losing what is in flight; each end notices on its
own, and the initiator connects again. `Limits` is a set of scenarios; a behaviour chooses one at
its start and is bounded by it.

### SendPath, ResendReplay

`SendPath` splits `send_message_locked` at its store calls and `handle_resend_request` at its
reads of NextSender and of the history, which precede the lock. The loop of the replay is
`Replay` of `SessionCore`, one step under the lock; `ResendReplay` shows that the loop computes
that set. A failing rollback is left to `Session`.

### FileStore, MessageStore

`FileStore` splits each call at the system calls a crash can separate: opening, writing and
renaming the temporary sequence file, appending to the log, syncing it, updating the index. `Kill`
ends the process between any two; `PowerCut` also takes a suffix of the unsynced records. The
caller follows the session's protocol: a frame is stored under the number just claimed, and the
claim is given back when that fails. The sync of the directory after a rename is taken to be
effective, and a truncation to be durable at once. The inbound log, which nothing reads back, is
left out except where `reset` can fail on it; so are file names and the migration of old ones.

`MessageStore` is the abstract specification: the two numbers and the frames, each changed in one
indivisible step. `FileStore` implements it with the numbers `load_seqs` would read and the frames
`rebuild_index` would find.

### AuditLog

Entries are numbered in the order of the calls. The writer's wait is split into testing the
predicate, going to sleep and being woken, so that a notification in between is lost as it is in
the code. A failed write leaves earlier buffered lines in place; a failed flush keeps the buffer
and puts the stream in its failed state, and one at a rotation loses it. The destructor runs only
when no call is in progress.

### TcpTransport

A frame is two units, so that a write can be cut in the middle; the send buffer of the kernel
holds `Capacity` units. The wake pipe is left out: every wait of the IO thread has a timeout and
ends in the same code as a wake-up. `send` and `disconnect` from a callback take the same steps as
from another thread. `start` and `stop` are not called concurrently, as the header demands; a
`start` from the IO thread returns an error and changes nothing.

### EngineLifecycle

The threads are the application's, the engine's timer and one IO thread per connection, named after
it. An action is what happens between two points where another thread may come in: a section under
`conn_mutex_`, `audit_mtx_` or the manager's mutex, or a join. `pc`, `arg` and `todo` are a
thread's place in a call and the connections its local variables keep alive; `io` and `flag` are a
transport's thread and its `running_`. A connection is owned by one of the engine's lists or by a
thread's locals; when the last owner lets go, the transport's destructor stops it. `Setups` says
which connection has which SessionID, which threads call `stop`, and whether callbacks remove other
sessions than their own.

Callbacks call `remove_session` freely for their own session, for another where the setup says so,
and `stop` where the setup says so, which `engine.hpp` forbids and the code has a backstop for.
Nothing in `engine.hpp` says which sessions a callback may remove. Three things are kept out:
application calls from two threads at once; `stop` from a callback while the application starts
transports (a transport started after the callback took the connections is stopped by nobody); and
`start` before a `stop` on another thread has returned and the timer it detached has ended. The
logout pass of `stop` belongs to `Session` and is skipped here.

### StreamParser

A symbol stands for a run of bytes that the parser looks at as one thing: a number, `=`, SOH, NUL
or other text. Lengths count symbols, so `kMinMsgLen`, `kTrailerBytes` and the other constants of
`parser.hpp` are parameters; `ParserConstants` states how they are ordered there. The buffer is its
unread part. `try_parse_one` is an operator with one operator under it for each numbered part of
the code; the actions are the entry of `feed`, one turn of `drain`, the appending that follows it
(with `enforce_cap`), `next` and `reset`.

Where the code scans the body field by field, `BodyFields`, `Unusable` and `Repeated` say which
field starts there are, which one stops the scan and which one is a repeated header tag. The header
tags are three of the code's list. `ParserConstants` assumes that one read with the kept tail fits
in `max_msg_len` (64 KiB against 1 MiB by default): `resync_scan` searches only that far, and
discards what lies beyond unseen.

## What the runs check

A run takes up to two minutes with two workers.

### One session

`session` (MaxSeq 5, so 3-bit numbers less two; retry budget 2; both roles, with and without
`reset_on_logon`; 29 messages that cover each handler's branches, wrong and right numbers, the
largest number, PossDup and duplicate headers; in each step either nothing fails, or the store's
write, target persist, reset and read-back all do, and a failed write keeps later stores failing).

- `GapAndProbeFresh`: an open gap has used 1 to `kMaxGapRetries` requests, a closed one none, and
  neither a gap nor a TestRequest's deadline outlives its connection.
- `ActiveIsEstablished`: Active means a live connection over which both Logons passed, and a
  logout callback that is still to come.
- `HistoryMatchesNumbers`: frames are stored exactly under the numbers claimed.
- `FramesMatchStore`: a fresh frame has an unused number and is what the store keeps; a resent one
  repeats the store; a GapFill covers no application message.
- `LiveNumberingNeverRewinds`, `TargetRewindsOnlyByReset`: who may move a counter back.
- `DeliveredInOrder`: `on_message` only on an Active session and only for an application message
  with the number expected, which is then spent unless persisting it fails or no number follows it.

The fault that really loses a number (`"rollback"`: giving a claim back fails as well) is left out
of the run, since `HistoryMatchesNumbers` then says less. The theorems cover it.

### Timers

`timers` (HeartBtInt 1 s, timeouts 2 s, ages up to 16 periods, past the longest deadline of 12):
`SilentPeerDetected`, `LivePeerNotDropped`, `WeKeepTalking` and `WaitsBounded` (the Logon, the
Logout and the gap chase). These bound waiting by a number of ticks, which is more than saying that
it ends, so the module needs no fairness.

### Two sessions

`pair` has three scenarios: two connections, two messages, heartbeats and gap retries; two
connections, one message, probes and handshake timeouts; one connection, one message and up to two
garbled frames. `DeliveredOnceInOrder` and `TargetNotAheadOfSender` hold in all of them,
`NothingSkipped` and `SentIsDelivered` are about the first connection (see the table below for the
second). Frames are lost when the connection breaks. A scenario's `number` stops heartbeats and
probes once an end has used that many numbers. `SentIsDelivered` assumes that each end's IO thread
connects, accepts, reads and closes, and that its timer runs. A frame is garbled only while a
heartbeat can still follow it, since a real session never stops sending them.

### Send path and replay

`send_path` (two threads, one replay, numbers to 5): `FreshNumbersAscend`, `QuietHistoryComplete`.
It may stop: the session disconnects for good. `replay_loop` (every history of five numbers and
every window): `LoopComputesReplay`. It stops when the loop ends.

### File store

`file_store` (numbers to 3, two frames, three records; persist, write and repair faults; process
crashes): `SeqFileAlwaysLoads`, `NoFailedFrameReplayed`, `ClaimsAreFresh`, and
`ImplementsContract`, the refinement of `MessageStore`. `file_store_reset` (the same sizes;
`fsync_messages`, power cuts and every fault, resets that fail midway included):
`AcceptedFramesSurvive`, and, where memory and disk disagree after a failed reset, no frame is stored
until they agree (`StoringNeedsAgreement`). A reset gives up the frames it was asked to discard from
the moment it begins. The two frames are interchangeable, so they are a symmetry set; `ResetView`
leaves out two history variables the second run does not look at.

### Audit log

`audit_log` (two callers, queue of 2, files of 2, 3 entries, 2 flushes, one failing write,
write-out or open): `EveryEntryAccounted`, `FlushKeepsPromise` and `CallsReturn`. The first two say
nothing of the lines lost once a write-out has failed, since the code does not count them; the
order of what is left holds all the same. `CallsReturn` assumes weak fairness of the writer, of the
join and of each caller inside a call. The number of entries is finite: against a caller that never
stops logging a flush need not return, since the writer acknowledges only an empty queue. The run
may stop: the object is destroyed.

### Transport

`transport` (acceptor, two senders, two connections, two frames, a send buffer of a frame and a
half): `FramesIntact`, `QueueDrains`, `DisconnectHappens`, `LifecycleReturns`,
the last three under weak fairness of the IO thread, of `start` and `stop` once begun, and of a
peer that reads. An initiator differs in how it gets its next connection: it backs off and
connects instead of listening. `handle_recv` is taken to run out of input.

### Engine

`engine` (two connections; one SessionID added twice; two SessionIDs, and callbacks that remove any
session; two, and `stop` called from the timer and from an IO thread as well):

- `ThreadsOwned`: a transport whose thread is not joined has an owner that will join it or keep it.
- `NoJoinCycle`: no set of threads wait for each other's end, nor one for its own. This is why
  `stop` from an IO thread detaches the timer, which may be joining that very thread. The exception
  is a callback on one IO thread that removes the session of another, while a callback on that one
  removes a session not its own or calls `stop`: each thread joins the other, and both calls hang
  (`engine.cpp:455`).
- `StopJoins`: after the application's `stop` no thread is left, except that of a session that an
  IO thread, its own or another, was removing meanwhile.
- `AuditLogAlive`: no session that runs points to a destroyed log, except one that is being removed
  or that a callback of another session removed while `add_session` was adding it. It holds when
  only the application calls `stop` and no SessionID is used twice.
- `ParkedIsReaped`: a session removed on its own IO thread is joined while the engine runs. It
  assumes weak fairness of the timer and of the IO threads, inside a call and, for IO threads whose
  flag is down, outside; none of the application's thread, which may pause in the middle of a call.

It may stop: nobody has to call the engine. Two connections are enough for a cycle of joins through
the timer, for one thread to remove the session of another while that one removes itself, and for an
id to be used again while its first owner is being removed.

### Parser

`parser` (179 streams; reads of 1, 7 or 20 symbols; `max_msg_len` 32, cap 44): each stream is a
damaged piece and one or two whole frames behind it. The damaged piece is a frame with any one
symbol lost or replaced, a frame cut short anywhere, noise, or a frame whose header announces too
little, too much, more than `max_msg_len`, or more than the cap. One stream has a repeated header
tag and `8=` inside a value. `FramesExtracted`, `StallsOnlyOnClaim`, `StaysHealthy` and `DrainEnds`;
no fairness.

## Where code and text disagree

`replay_hides_send` exhibits one disagreement as a run: a replay gap-fills over a message whose
send is in progress (`GapFillHidesNothing`). The others need only a property, or other
constants, in a configuration above; TLC then finds each at once.

| what happens | source | text | how to see it |
|---|---|---|---|
| a GapFill with a negative NewSeqNo is accepted, through an unsigned cast | `session.cpp:946` | `session.cpp:944` | `GapFillMovesForward` in `MCSession.cfg` |
| a HeartBtInt of 2^32 passes the check and becomes an interval of 0 | `session.cpp:662` | `session.cpp:639-641` | `IntervalPositive` in `MCSession.cfg`, IntHalf 2, Half 5, MaxSeq 9 and a Logon with `hb` 4 |
| what a broken connection lost is skipped by the next Logon without a ResendRequest | `session.cpp:1044` | `README.md:27` | `NothingSkipped` in `MCSessionPair.cfg`, without `connects <= 1` |
| a send that saw Active claims a number after the disconnect | `session.cpp:251` | `session.hpp:149-151` | `NoPhantomNumbers` in `MCSendPath.cfg` |
| a failed `FileStore::reset` leaves memory at 1/1 and the old numbers on disk | `file_store.cpp:642` | `message_store.hpp:45-47` | `PreviousValueInPlace` in `MCFileStore.cfg`, with the fault `"reset"` |
| `refresh` does not reopen the logs a failed reset closed | `file_store.cpp:684` | `file_store.cpp:583` | `RefreshReopens` in `MCFileStore.cfg`, with the fault `"reset"` |
| `close` returns success although a log could not be synced | `file_store.cpp:709` | `file_store.cpp:704` | `CloseSyncs` in `MCFileStore.cfg`, with the fault `"fsync"` |
| lines lost when the buffer cannot be written at rotation are not counted | `message_log.cpp:252` | `message_log.hpp:18-20` | `EveryEntryAccounted` in `MCAuditLog.cfg`, without `"flush" \notin failed` |
| `flush` returns although the file flush failed | `message_log.cpp:151` | `message_log.cpp:143-145` | `FlushKeepsPromise` in `MCAuditLog.cfg`, without `"flush" \notin failed` |
| a late `disconnect` ends the connection after the one it was meant for | `tcp_transport.cpp:150` | `tcp_transport.cpp:869-871` | `DisconnectHitsItsConnection` in `MCTcpTransport.cfg` |
| `stop` misses a session that is removing itself and is parked after the last look at the reap list | `engine.cpp:434` | `engine.hpp:147-148` | `StopJoins` without its second and third alternative |
| a session being removed keeps its pointer to the old log until its thread is joined | `engine.cpp:431` | `engine.hpp:178-181` | `AuditLogAlive` without `c \in Local(p)` |
| a session that is removed between the two halves of `add_session` is connected and runs, out of the registry, and is not re-wired to a new log | `engine.cpp:377` | `engine.hpp:178-181` | `AuditLogAlive` without `RemovedTooEarly(c)` |
| a backlog that waits for an announced frame never reaches the cap, so the parser does not turn unhealthy | `parser.cpp:440` | `parser.cpp:442-445` | `StaysHealthy`, which holds |
| a frame cut short takes the intact frame behind it along | `parser.cpp:448`, `:482` | `parser.cpp:514`, `parser.hpp:64-66` | `FramesExtracted` with `reach` 0 for the pieces of `Cuts` |
| a frame that announces more than `max_msg_len`, but no more than the cap, takes what follows it along | `parser.cpp:448` | `parser.hpp:64-66` | `FramesExtracted` with `reach` 0 in `Claims` |

## What is proved

The proofs hold for every value of the constants that satisfies the named assumptions
(`SessionConstants`, `SessionInputs`, `SendPathConstants`, `FileStoreConstants`, `AuditLogConstants`,
`EngineConstants`, `ParserConstants`), which say that the widths are consistent, that bounds are
positive, that inputs have their types and, for the parser, that its constants are ordered as in
`parser.hpp`.

**`SessionProofs`**: `TypeCorrect`, `GapAndProbeKept`, `HistoryKept`,
`NumberingNeverRewinds`. The inductive invariant is `Sound`: types, positive counters, gap budget,
probe and history together. They need each other: the budget's range is what makes the type of
the retry counter inductive, and the history's first half is what makes storing at NextSender not
overwrite a frame. Each operator of `SessionCore` has a lemma saying that it keeps `Sound`, and
what it does to NextSender and the state; an action is then one citation.

**`SessionStepProofs`**: `ActiveEstablished`, `FramesMatch`, `TargetRewinds`, `Delivered`, for every
inbound message and every set of failing store calls. The invariant behind the first,
`HandshakeInv`, adds to `Sound` that our Logon has left once the state is LogonSent. The other three
are about a step, so the work is in a chain of relations between the session before and after an
operator: `Steady` (what sending, gap chasing and callbacks may change: fresh frames under new
numbers, nothing else of the history, NextTarget not back, no session established), `Alike` (nothing
but bookkeeping), `FrameOk` (a frame agrees with the store), `Emits`, and `Settled` (what a whole
inbound message may do). They compose, so each handler has one lemma and the dispatcher chains them.

**`OutboundProofs`**: `TypeCorrect`, `FreshAscending`, `HistoryComplete` of `SendPath`, for any set of
threads. `FreshNumbersAscend` becomes inductive with mutual exclusion (`Exclusive`), with the claim in
progress being the last number claimed (`ClaimIsLast`), and with everything sent fresh lying below
it (`FreshBelow`). And `ReplayTilesWindow`, `ReplayFillsHolesOnly`, `LoopIsReplay` of `ResendReplay`.
What lies between the cursor and the position is always the hole the next fill will cover
(`HoleBehindCursor`). For `LoopIsReplay`, what has been sent is the replay of the window up to the
cursor, and the cursor is the window's start or follows a message, so runs of holes are maximal.

**`FileStoreProofs`**: `SeqFileLoads` and `StoringAgrees` in general; `FailedPersistChangesNothing` and
`ClaimsFresh` for a store whose `reset` does not fail (with a failing one they are false: see the
table above). The invariant relates the numbers in memory, those before the call in progress and
those on disk (`MemInv`), and says that the disk is one ahead of a claim not yet stored and ahead of
everything issued (`IssueInv`). `StreamInv` is what is left of it when a reset may stop halfway: where
memory and disk disagree, the log's stream is closed. `LogInv` is the order of the message log: only
its last record can be torn, and only while nothing can be stored; the record in progress is the
last; an index entry points to a whole record of its number.

**`FileStoreFrameProofs`**: `AcceptedSurvive`, with every fault and crash, and with power cuts when
messages are fsynced; `NoFailedReplayed`, when neither a reset stops halfway nor the fsync of a
message fails (the code keeps the record in both cases); `StoreImplementsContract`, when no reset
stops halfway and the power stays on (a power cut may take records the contract keeps).
`AcceptInv` says in which record an accepted frame is and that no later record has its number; that
needs `SpentInv`, accepted numbers lie below every number still to be claimed, in memory and on disk.
`FailInv` says that a record whose call failed lies above every number in use. The refinement is
proved action by action: only the rename of the sequence file, the flush of a record, the truncation
and a crash change what a restart recovers. `rebuild_index` takes the last whole record of a number;
its maximum exists by a minimum argument on well-founded sets (`HasMax`), in place of an induction.

**`AuditLogProofs`**: `EntriesAccounted` and `FlushPromiseKept`, for any number of callers and any
failures. The invariant says where the writer can be with what in its hands (`WriterOk`), that the
four places an entry can be in, taken together, are ascending and add up with the counters
(`EntriesOk`), and that a token acknowledged, or about to be, has everything logged before it on disk
(`PromiseOk`). A move of an entry from one place to the next leaves their concatenation as it is.

**`EngineProofs`**: `ConnectionsOwned`, `JoinsEnd`, `StopJoinsThreads`, `AuditLogsAlive`, for any number
of connections, ids and callers of `stop`. `IInv` adds to `ThreadsOwned` what each place in a call says
about `arg`, `todo` and `flag`: a thread that is about to let go of a connection either has just
joined it or holds one that another list or thread still owns. `JoinInv` says that an IO thread in a
call has not ended, joins no thread of its own and is alone among the IO threads in `stop`; a set of
threads that wait for each other then has no application or timer thread in it, and the two IO
threads left are the excepted ones. `StopInv` says that from the join of the timer to the next
`start` nothing runs that `stop` has not seen. `AuditInv` says that a session in `connections` is in
the registry, and so is re-wired, unless it is on its way in or out.

**`StreamParserProofs`**: `AlwaysHealthy` and `DrainAlwaysEnds`, for every stream, every cut and every
`max_msg_len`. A lemma per part of `try_parse_one` bounds what it skips and how long a buffer it
can answer with "need more". Each such bound is below the cap, so there is always room to append.

Only model-checked:

- all liveness, which needs ENABLED;
- `SilentPeerDetected`, `LivePeerNotDropped`, `WeKeepTalking` and `WaitsBounded`: their invariants
  speak of every deadline and every age at once, and the lemmas of `SessionProofs` leave ages out;
- `DeliveredOnceInOrder`, `TargetNotAheadOfSender` and `NothingSkipped` of the pair: an inductive
  invariant has to say of every frame in flight how it relates to both ends' histories;
- `FramesIntact` of the transport;
- `FramesExtracted` and `StallsOnlyOnClaim` of the parser: what a frame is to the end of the stream
  is an induction over the stream.

Proved and in no run: `TypeOK` of `Session` and of `SendPath`, `WindowTiled` and `NothingFilledOver` of
`ResendReplay`, `PreviousValueInPlace` of `FileStore`.

## What is not modelled

- Thread interleavings of a session outside its send path (`on_timer` against `on_data`, the
  compare-and-swap of `send_logon`, `reset` during a send). The operations are atomic in `Session`;
  split at every atomic access they would be a second model of the same code, which the timers and
  pair runs could not use.
- The deferred error queues of session and engine, and statistics: no operation reads them.
- `stop` of the engine from a callback that overlaps `start` or `add_session`, and application
  calls on two threads at once: `engine.hpp` forbids the one and the model takes the other as given.
- The serializer and the dictionary, pure conversions and tables of which a session sees only
  success, failure and validity.
- The memory store, a mutex around maps; socket options, name resolution, file naming, retention;
  log layout; the example application and the benchmarks.

## What could come next

1. A module of the session's atomic accesses, if one of the races above needs an argument.
2. Proofs: `FramesIntact` of the transport; the timers, with lemmas on ages beside `Sound`;
   `DeliveredOnceInOrder` of the pair.
