# BeamDrop: TLA+ models, checks and proofs

BeamDrop sends files and directories over TCP from one machine to another, from
a command line or from a GUI: React frontend, FastAPI backend, a Python binding,
and the C++ transfer core under it. This directory models the core logic of that
program in TLA+, model-checks it with TLC on small instances, and proves theorems
about the models with TLAPS for every value of their constants. Paths below are
relative to the repository; `PROJECT.json` maps every definition to its lines.

    tlc -workers 2 -config resume.cfg MCTransfer   # one run; see "Runs"
    tlapm TransferProofs.tla                        # one module of proofs

## 1. The system

| Component | State it keeps | Operations | Hard behaviour | What makes it correct |
| --- | --- | --- | --- | --- |
| Sending (`SendService`, `Sender`) | current file, size and digest read, offset, connection | connect, HELLO, directories, per file: announce, wait for RESUME_ACK, seek, DATA, FILE_END, FINISH; cancel | the file is read three times (size, digest, data) and may change between; success is returned before the receiver is done | offset and data agree; both ends agree on the outcome |
| Receiving (`ReceiveService`, `Receiver`) | current file, confirmed offset, output stream, bytes received | accept a task, create directories, confirm an offset, cut or create the file, append, record, verify, finish | killed processes, short writes, leftovers of every length | a checked file is exactly one announced version; nothing else is overwritten |
| Resume records (`ResumeManager`) | text file of (file, size, digest, offset) | load, save by truncating and rewriting, clear | a kill inside a save; a record ahead of a buffered stream | a confirmed offset is backed by the right bytes |
| Receive service (`ReceiveServerService`) | mutex, state, last error, server, worker thread and its stop token | start, stop, status, destructor; worker: accept, receive, fail, exit | stops at any moment; joins and callbacks under the mutex; the server read without it | no deadlock, no mixed-up servers, a true status, every stop ends |
| TCP sockets | one descriptor, closed by `shutdown()` from another thread | connect, accept, read_exact, write_all | a connection cut with data in flight | a blocked read returns |
| Packet framing (`Serializer`, `PacketIO`, `PacketParser`) | the part of a packet read or written so far | write_packet, read_packet | partial sends and receives, a close inside a packet | packets arrive whole, once, in order |
| Payload codecs, the record file's text | none | encode, decode | names with quotes, backslashes, braces | what is decoded is what was encoded |
| SHA-256 (`Sha256`) | buffer, count, state | update, final_hex, sha256_file | block boundaries, chunks of other sizes | the digest depends on the bytes only |
| File scanner (`FileScanner`) | the entries found | two walks per input, duplicate check | the tree changes between and during the walks | what nobody touches is announced |
| Command line, configuration (`main.cpp`, `AppConfig`) | options, configuration file | parse, serve, send, config | order of options, interrupted write, a worker that ends | settings and paths are what the arguments say; no silent outliving |
| Native gateway and binding | one native receiver; one `SendOperation` per send | receiver start/stop/status; send with a thread watching the cancel event | the cancel may be set before, during or after the send | the cancel reaches its own send, no thread is kept |
| Receiver manager (`receiver_manager.py`) | operation lock, snapshot | REST start and stop, polling with a deadline | native stop only acknowledges; the deadline may pass first | the snapshot claims no stop that has not happened |
| Task manager (`task_manager.py`) | snapshot per task, cancel events, run coroutines | create, run, cancel, progress | cancel against scheduling, pool and end of the send | the final state is what the send did |
| Event bus and WebSocket route (`event_bus.py`, `main.py`) | sequence, per subscription a bounded queue and a signal | publish, offer, receive, heartbeat, subscribe | publishers on several threads, a slow client, drops | ends of tasks are never dropped, no lost wake-up |
| Frontend adapter and dashboard | last sequence, snapshot shown | connect, gap detection, snapshot refresh, cancel | lost events, late answers, reconnects | the dashboard ends up on the true state |

Not modelled: wire schemas, the React components, the mock and Tauri adapters;
section 7 and `PROJECT.json` give the reasons.

How they interact: a GUI request is a REST call to FastAPI, which calls a manager
on the event loop (tasks) or a pool thread (receiver); the managers call the
gateway, which calls the native service; native threads call back for progress.
Every change of state is published on the event bus and reaches the GUI over one
WebSocket. Between the two machines there is one TCP connection per send.

`PROJECT.json` lists the hazards, each at its line with the properties that
would catch it.

## 2. Modules

    Transfer ---------- implements --> FileDelivery
    FileExchange = PacketStream + Sha256 + PayloadText
                   PacketStream ------ implements --> PacketChannel
    CommandLine  = SourceScan + AppConfig + ServiceLifecycle
    ReceiveServer ----- implements --> ServiceLifecycle
       ^ extended by ReceiverManager
    EventBus <-- TaskManager --------- implements --> TaskLifecycle
       ^-------- TaskLifecycle <-- TaskEvents <-- Dashboard

An `MC*` module holds the instances for TLC, a `*Proofs` module the theorems.

### Transfer and FileDelivery

`Transfer` is one send task and its retries, both ends and the connection. The
program counters `senderPc` and `receiverPc` are the places in `SendService::send`,
`Sender`, `ReceiveService::receive` and `Receiver` between which the other end,
a kill or an edit can matter; one action stands for the code between two of them.

| Code | Actions |
| --- | --- |
| `SendService::send`, `Sender` | `Connect`, `SendHello`, `SendOneDirectory`, `ReadFileSize`, `HashAndAnnounce`, `ReadResumeAck` (with `SeekPosition`), `SendData`, `SendFileEnd`, `SendFinish`, `SenderNetworkError` |
| `ReceiveService::receive`, `Receiver` | `ReceiveHello`, `ReceiveOneDirectory`, `ReceiveFileInfo`, `SendResumeAck`, `OpenOutput`, `ReceiveData`, `UpdateOffset`, `ReceiveFileEnd`, `VerifyFile`, `ClearRecord`, `ReceiveFinish`, `ReceiverNetworkError` |
| surroundings | `Break`, `CancelSend`, `SourceUnreadable`, `KillSender`, `KillReceiver`, `RestartReceiver`, `StopReceiving`, `WriteFails`, `StorageFails`, `EditSource`, `RemoveLeftover` |

A byte is a pair <<version, position>>, so a byte lost, repeated, misplaced or
from another version can be told from the right one. `disk` is what the save
directory holds. Two things lose data: `KillReceiver`, and `StorageFails`, in which
creating a directory, cutting, opening or closing the output, or reading or writing
the state file fails and the process lives on. Either way the bytes in the stream's
buffer can go (`LoseBuffered` keeps any prefix not shorter than what was there when
the stream was opened), and a save that does not end leaves a part of the records
(`LoseRecords`, `TornSave`). A new sender may connect as soon as the receiver is
back in accept; one task is sent at a time.

`FileDelivery` states what receiving promises of one file, without packets or
processes: a copy is opened, grows at its end, may lose its end, and is certified
as a version only when it is exactly that version. `DeliverySpec` is this module
with `copy <- disk`, `certified <- verified`.

### FileExchange, PacketStream, PacketChannel, Sha256, PayloadText

`Transfer` takes three things for granted: a channel that carries whole packets, a
digest that is the content, and records kept as a map. `FileExchange` takes the
same protocol for one file and puts what the code has in their place.

| Code | Module | How it is modelled |
| --- | --- | --- |
| `Serializer`, `PacketParser`, `PacketIO`, `TcpConnection`, `TcpClient` | `PacketStream` | a packet is a run of cells: six header fields and the payload. `SendSome` and `RecvSome` are one call of `send` and `recv` and move any number of cells; `Wanted` is what `read_packet` asks for next |
| `Sha256` | `Sha256` | the blocks that are compressed, the buffer, the count of bytes; a digest is the sequence that was compressed |
| `FileInfoCodec`, `ResumeAckCodec`, `TransferManifest`, `ResumeManager` | `PayloadText` | texts of cells: the characters a name brings in are kept, a key, a number or a digest is one cell. A parser returns the set of what it accepts, empty when the code throws |
| `Sender`, `Receiver`, `SendService`, `ReceiveService` for one file | `FileExchange` | one action per call that can block or throw; `SenderFails` and `ReceiverFails` are the conditions under which one throws |
| a cancel, a stop, a lost connection, a kill | `FileExchange` | `Interrupted`, `ConnectionLost`, `KillReceiver`, which tears the state file and shortens the output at any point |

`PacketChannel` is what `Transfer` assumes of its channel: each end reads what the
other wrote, whole, once and in order. `ChannelSpec` says that `PacketStream`
implements it within `FileExchange`.

### CommandLine, AppConfig, SourceScan

`CommandLine` is one process from its arguments to its exit code: the three parsers
argument by argument (`ParseArgument`, `RefuseArguments`, `EndParse`), the commands
`serve`, `send` and `config`. `serve` owns a service, which is `ServiceLifecycle`
with the only calls the command makes; `send` begins a `SourceScan`. `AppConfig` is
the configuration file: objects with fields in order, found by the patterns of
`AppConfig.cpp`; a file cut anywhere is one of `Beginnings`.

`SourceScan` is `scan_files` and `scan_directories` over each input and
`validate_unique_targets`, entry by entry (`OpenInput`, `VisitNext`, `EndWalk`,
`Validate`), while `ChangeTree` creates, removes or replaces anything at or below an
input.
A path is a sequence: the argument it was reached from, then names. `Target` is what
it is announced as, with the last part of the argument (`BaseName`) in its place, and
`Rank` is the order of strings that announcements are sorted by.

### ReceiveServer, ServiceLifecycle, ReceiverManager

`ReceiveServer` has the controlling threads (`Caller`) and one worker thread per
start. `start()` is `CallStart`, `StartRefused` / `StartBegins`, `BindFails` /
`BindAndSpawn`, `StartReturns`; `stop()` is `CallStop`, `StopEagerly` /
`StopAtOnce` / `StopBegins`, `RunCallback`, `StopJoins`, `StopReturns`; the
destructor shares them. The worker is `CheckToken`, `Accept`, `RegisterCallback`
(`RegisterLate` when the stop came first), the receive (`ReceiveReturns`,
`InterruptedReceive`), `CatchNetworkError`, `FinishListening`, `Finish` / `Fail`,
`Exit`. `mutex` is the code's mutex; a step inside it is a step of its own only
where another thread can see or wait for it. `ServiceLifecycle` is the state
machine the controllers are promised, with `listening <- server # 0`.

`ReceiverManager` extends it with the REST requests: the operation lock, the
snapshot, the polling after a stop and its deadline. `BeginStart` and `BeginStop`
take the native `CallStart` and `CallStop` on the request's thread.

### EventBus, TaskLifecycle, TaskManager, TaskEvents

`EventBus` has the publishers' two steps (`TakeNumber` under the lock, `HandOver`
after it), the loop's `Offer`, the handler's `ReceiveAndClear` / `Receive` /
`Wake` / `Heartbeat` / `SendJson`, and the client's connections. A full queue is
treated as `event_bus.py` 44-58 does: an event that ends a task replaces the
oldest that does not, any other is dropped.

`TaskManager` is `create`, `run`, `cancel`, the pool, the gateway's watcher, the
native send with its stop source and the progress callback. `TaskLifecycle` is
what the rest of the system sees of it - states and events, no threads - and is
what `TaskEvents` (the bus with one client) and `Dashboard` are composed with.
`TaskManager` is checked and proved to implement it, so what is shown with the
plain tasks holds of the ones with threads.

### Dashboard

`Dashboard` adds the adapter: gap detection, snapshot requests and answers, the
reducer's `Applied`, cancel answers, reconnects. `AnswersInOrder` chooses whether
a REST answer can be overtaken by an event, as it can with two connections.

## 3. Runs

| Run | Instance | What it shows | Distinct states |
| --- | --- | --- | --- |
| `resume` | 1 file of 3 one-byte chunks, 3 faults of any kind, leftover possible | confirmed offsets are backed by the right bytes, no interruption leads to a mismatch or costs recorded progress, and retries succeed | 9 713 |
| `folder` | 1 directory, 2 files, 2 versions of 2 and 3 bytes, edits, no resuming, any file already there, 2 faults | the ends stay in step and agree, nothing existing is overwritten, what is reported received is one announced version, `FileDelivery` is implemented | 54 892 |
| `exchange` | 1 file of 0 or 3 bytes whose name is a quote and a backslash, blocks of 2, chunks of 2 and 1, 1 interruption | packets arrive whole, digests and records survive chunking, escaping and torn saves, an undisturbed attempt succeeds | 188 315 |
| `command` | every line of up to 3 of the commands' words and longer ones made of options with their values, 6 paths, 2 changes of the tree | settings and paths are what the arguments say, `config init` leaves the defaults, the scan announces what nobody touched and, while the inputs stay, nothing that must be refused, `serve` ends with its service | 397 412 |
| `server` | 2 controllers, 2 starts | status, stop, servers not mixed up, lifecycle, every call and the destructor return | 33 166 |
| `manager` | 2 requests at a time, 2 starts | the snapshot is true and settles, every request is answered | 35 756 |
| `tasks` | 2 tasks, pool of 1 thread, 2 reports | final states, lifecycle implemented, cancels arrive, sends end their task | 8 192 |
| `events` | 2 tasks, queue of 1, socket of 1, 1 connection, 1 report | ends of tasks are not dropped, no lost wake-up | 1 807 713 |
| `dashboard` | 1 task, queue of 1, 2 connections | with answers in order the dashboard settles on the truth | 1 332 588 |
| `retry_edited`, `manager_refused`, `dashboard_stale` | as small as possible | the first three disagreements of section 6: each is violated | - |

Why these bounds suffice to be interesting. In `resume`, three chunks let an
interruption fall before, inside and after the middle one, and three faults let a
retry of a retry be interrupted. In `folder` the two sizes let a read run past the
announced size or fall short of it. Two starts give an old worker that is still
alive when the next start begins; two controllers give every pair of calls. A pool
of one thread for two tasks makes one wait; a queue and a socket of one event each
are full at once, so drops and overfilling occur. Two connections give a reconnect
with a number remembered from before. In `exchange`, 3 bytes fill one block and
half of another, leave no room for mark and length, and are sent in two packets,
so that the kill can fall between their records; 0 bytes give the padding alone. One
interruption is enough for a stale record, a torn file and a leftover of every
length; more would only repeat them, and `resume` has three. In `command`, three
words suffice for a known option whose value looks like another one, and four
options with values for one that is set, reset by `--config` and set again; the tree
has an input inside which two levels can change, another input of the same name, a
path with a slash at its end and one that does not exist.

Bounds that are not in the code: `MaxFaults` (faults of all kinds together),
`MaxStarts`, `MaxProgress` (reports of all tasks together), `MaxConnections`,
`MaxAsked` (snapshot requests on their way beside the first one, which is sent
before the socket is opened; events are read while they are), `MaxChanges` (paths
other programs touch while a source is scanned), `BlockSize` and `LengthSize` (64 and 8 in the code;
CodecProofs is about any), `ChannelCapacity` and `WireCapacity`
(what the sockets hold; any value gives the same code paths), and `SequenceWrap`:
event numbers are taken modulo it. In `dashboard` it is 4, more than the three
events that a client can miss in one go over one connection in that instance (ends
are not dropped); a smaller one would hide a gap.
The runs that look at no number use 1. `events` uses symmetry over the tasks: it
has no liveness property.

`server` and `tasks` switch off the deadlock check because the program really may
come to rest: a destroyed service with all its starts used, all tasks final.

The type invariants are not among the runs' properties: they are proved (section 5).

## 4. Fairness

* `Transfer`: weak, on `Connect`, `RestartReceiver`, `SenderStep` and
  `ReceiverStep` - the user retries and restarts, and a thread that can run runs.
  None on faults, edits or removals. `RetriesSucceed` is about the time after the
  last of them, of which there are at most `MaxFaults`.
* `CommandLine`: weak, on the steps of `main`: a process that can run runs. None on
  the worker, the scan or other programs. `ServeEndsWithItsService` needs no more.
* `FileExchange` states none: its properties are safety properties.
* `ReceiveServer`: weak for each worker and for a receive whose connection was
  shut; strong for each caller, because it waits for a mutex that others take
  again and again, and the platform's mutex is taken to starve nobody. No fairness
  for a peer: it may never connect and never send. That is why `StoppingEnds`,
  `CallsReturn` and `DestructorReturns` say something.
* `ReceiverManager`: the same, and strong for a request, which waits for the
  operation lock.
* `TaskManager`: strong for the loop's steps of a task and for a queued send that
  waits for a pool thread (asyncio's pool is first in, first out); weak for the
  watcher, the leaving of a send and the publishers. None for the user, and none
  for the native send, which may block for ever; hence `ReturnedSendEndsTask` is
  only about sends that returned.
* `Dashboard`: weak on publishers, loop and handler, on connecting, on the
  heartbeat (sent by a timer), on the server's answers; and, each on its own, on the
  client's reading of events, on the arrival of snapshots and on that of the answer
  to each cancel, so that no answer starves behind heartbeats. None on tasks,
  cancels or disconnects. REST requests are answered.

## 5. Proofs

All are checked by `tlapm` for every value of the constants that satisfies the
named assumptions: `ConstantsAssumption` (Transfer), `HashAssumption`,
`ExchangeAssumption`, `ScanAssumption`, `ConfigAssumption`, `CommandAssumption`,
`ServerAssumption`, `BusAssumption`, `PoolAssumption`, `ProgressAssumption`,
`DashboardAssumption`. They say that counts are natural numbers, sizes and
capacities positive where the code's are, that "none" values are no members of the
sets they stand beside, that the other file of `FileExchange` is another one, that a
set of paths has the directories of each with it and strings are ordered, and that
the default values of the configuration are the numbers they look like and have no
brace. Every invariant that a run checks is a theorem.

**TransferProofs, the file.** `TypeCorrect`, `CheckedFilesStayIntact`,
`NothingOverwritten` and `TransferImplementsDelivery`, for any task, versions, sizes,
number of faults. That a checked file stays intact is not inductive: one must know
which file each end is at (`SenderInFile`, `ReceiverInFile`), that the bytes the
receiver counts are on disk (`OffsetOnDisk`), and that the file open for writing is
not a checked one (`OpenFileUnverified`). The invariant is the conjunction of these
with `TypeOK` and `VerifiedIntact`. One lemma per action shows it is preserved;
actions that stay on one end, or away from the file, share a frame lemma. The
refinement then maps each action to an action of one file or to a stutter.

**TransferProofs, the conversation.** `StaysInStep`, `SuccessIsComplete`,
`ProgressIsRecorded`, `SkippedIsRight`, `MismatchesAreReal`, `EndsAgree`, again for
any task, sizes and faults. Each end is at a *place* in the conversation (before
HELLO, before an item, asked for a file, inside a file, over), and `Follows` says
that the packets on their way lead from the receiver's place to the sender's, one
after the other; when the connection is lost they lead to some place. With what an
acknowledgement may carry and which item each end is at (`AckFits`, `ItemMatches`,
`OffsetFits`, `SenderTrue`) this is `TInv`, from which `InStep` follows. `CInv` adds
that all files before the current one are checked and that the record covers what
has been received. `BInv` holds while no source is edited: announcements name what
the source is (`InfoTrue`), as far as a record and the file on disk both reach, the
file is right (`RecordsRight`, `RecordsNamed`), so what is skipped is right
(`SkipTrue`), what is received after it is (`DiskTrue`, `EndTrue`), and no mismatch
can arise (`NoMismatch`). Losing the buffer, in a kill or a failing close, is the
hard step: the disk loses a part of what the records count, so `RecordsRight` speaks of the smaller of the two. `AInv` is
about the two results while nothing has gone wrong. The sender returns success
without an answer to FINISH, so it must be certain by then that the receiver can no
longer refuse: a place is `Early` when the sender still waits for an answer at or
after it, the receiver refuses at early places only, and the sender is at an early
one whenever the receiver is. What is announced then fits the source because the
sources are `Known`.

**FileExchangeProofs.** `ExchangeInvariant` and, from it, `ExchangeUsesChannel`,
`DigestsAreOfContent`, `AcceptedFileIsAnnounced`, for every content, size of block,
of read and of packet. `EndInv` says that the cells an end has received of the
current packet, those on the wire and those its peer has still to send are, in this
order (`Flow`), the packets not yet read, one behind the other; when the peer is
gone the end of them may be missing. Hence what `read_packet` has put together when
it returns is the next packet, whatever `send` and `recv` moved at a time, and
taking it is what `PacketChannel` does. `SenderKnows` and `ReceiverKnows` relate each end's
locals to the file, `PacketsMeant` each packet to what it was made from; with the
codec lemmas what is parsed is what was announced. `StateFileStaysReadable` and
`OtherRecordStays` rest on `StateInv`: the state file is a beginning of the text of
some records, and the whole text, with the other file's record in it, until a kill
comes. Both are for names without a brace (`PlainNames`): with one they are false,
point 8 of section 6. `NoAttemptFailsOfItsOwn` says that no call throws in an
attempt that nobody interrupts, from whatever earlier attempts left, for the same
names (a state file that cannot be read fails the receive). `AttemptInv`
follows the attempt by the offset that has been acknowledged at each packet
(`ProgressInv`), says that the disk holds a beginning of the file (`FilesAt`), and
that an end that leaves has said and sent everything, so that the other still finds
it (`Calm`).

**CodecProofs.** `Holds(hash, message)` relates the SHA-256 object to the bytes it
has been given: what is compressed is a multiple of the block size, the rest is in
the buffer, the count is the length. `NewHashHolds`, `UpdateHolds` and
`FinalHexIsPadded` show that the constructor establishes it, `update()` keeps it for
any bytes, and `final_hex()` then compresses exactly the padded message, in one
block more or two. `PaddedIsInjective` adds the converse: different messages are
padded differently. Hence digests are equal exactly when the bytes are, however they
were cut. `FileInfoIsReadBack`: decoding an encoded FILE_INFO gives it back, for
any quotes, backslashes and braces in the path. `TornStateIsRead`: a state file cut
anywhere is read as those of its records that are whole. `RecordsAreKept`: an update
or a clearing touches no other record. The texts are of any length, so these are
inductions: over the length of a text or the number of records, in the form of a
least counterexample (`Smallest`, from the well-foundedness of the naturals), which
needs no operator as a parameter.

**CommandLineProofs.** `ScanMissesNothing` and `AnnouncedIsCreatable`, for any tree,
list of inputs and number of changes. Neither is inductive. For the first,
`CoverInv` says where something that nobody touched can be in the middle of a walk:
below an entry still to be visited, or found; `FilesInv` and `DirectoriesInv` carry that
over to the inputs already walked. For the second, an announcement must not need
something that comes later or that stands as a file where a directory must be.
`ClosedInv`: a directory is announced with all above it and after them, unless
something is announced twice. `OwnedInv`: a file inside an input is announced with
that input, so that a file of one input above a file of another can only be when
their input is announced twice; the check for duplicates then refuses the task. The
second walk makes this true an input later than the files are appended, hence
`HalfDone`. `OwnedInv` needs the inputs themselves to stay what they are
(`RootsKept`, see point 11 of section 6); what is inside them may change. The order of directories needs that sorting by strings puts a directory
before what is in it, which is all that is assumed of `Rank`. `ArgumentsAreRead`:
`ParsedInv` has the set of options among the arguments read so far, so that the
options and the paths are what this part says; the least obvious case is a value
that looks like an option. `InterruptedInitIsHarmless`: a beginning of the default
file has each field the default has, or none.

**ReceiverManagerProofs, the service.** `ServerTypeCorrect`, `ServersAreNotMixedUp`,
`StatusCorrect`, `StopReachesTheReceive`, `ServerImplementsLifecycle`. The
invariant says who holds the mutex (`MutexHeld`), that at most the latest start's
worker is alive (`LastIsLive`), what each state means while the mutex is free
(`StateTells`) and while a caller is in the middle of an operation
(`CallerTells`), when a callback is registered and the connection shut
(`CallbackTells`), and that a worker ends regularly only when asked to
(`FinishesWhenAsked`).

**ReceiverManagerProofs, the manager.** `ManagerTypeCorrect`, `ShownStoppedHasStopped`,
`RunningIsShown`, `SnapshotComesToRest`, over the invariant of the service,
since a step of the manager is a native step or none. The invariant says which
request holds the operation lock and is in a native call (`Locking`, `Calling`),
what an answer that came back means by now (`Answered`), what the snapshot can be
at each point of a request (`Shows`), that one that shows stopped is true
(`StoppedShown`), and that a listener without a request is shown (`ListenerKnown`).

**TaskManagerProofs.** `TasksTypeCorrect`, `FinalStatesAreTrue`, `FinalIsFinal`,
`TasksImplementLifecycle`. The invariant relates the coroutine to the snapshot and
the call of the gateway (`RunnerTells`), the call to its watcher and native result
(`WorkerTells`), and the cancel event to the state and the stop source
(`CancelTells`): a send that was canceled has a cancel event behind it, and a
report that waits to be published keeps its task from ending.

**EventBusProofs, TaskEventsProofs.** `EventsTypeCorrect`, `NoWakeupIsLost`,
`OnlyEndsOverfill`, `EndsReachTheClient`, `DashboardTypeCorrect`. The lemmas on the
queue state what `RemoveAt` of the oldest dispensable event returns; that there is an
oldest comes from the well-foundedness of finite sets. The invariant is the three
stated ones together, since each step of the loop is guarded by what the others say.
Every step of the dashboard is one of the events or leaves them alone, so it
inherits them.

What is only model-checked is liveness, since fairness and ENABLED are outside the
prover's reach: `RetriesSucceed`, `ServeEndsWithItsService`, `StoppingEnds`,
`CallsReturn`, `DestructorReturns`, `RequestsAnswered`, `CancelReachesSend`,
`ReturnedSendEndsTask`, `DashboardSettles`. No module declares a recursive operator.

## 6. Where the code disagrees with what it says

Each of the first three is a run whose one property TLC finds violated.

1. `retry_edited` (`Receiver.cpp:62`): a record can meet the bytes of another
   version. The digest then fails, neither record nor file is removed, and every
   later send of that version resumes at its end and fails again.
2. `manager_refused` (`ReceiveServerService.cpp:54`): after a failed bind every
   start is refused as already running although nothing listens.
3. `dashboard_stale` (`FastApiAdapter.ts:133`): every answer arrives, but one that
   arrives after something newer - a task's last event, a later snapshot - stays on
   the screen; no gap follows it.

Met while modelling, without a run:

4. `Receiver.cpp:184`: an existing directory is refused even with resuming enabled,
   so an interrupted directory task can never be completed (需求分析.md:26 and 48
   promise that it can be continued). `EventuallyDelivered` fails with `NDirs = 1`.
5. `main.cpp:96` and 136: `--config` replaces options given before it, while
   命令行设计.md:74 says that explicit options win over the file. `ArgumentsAreObeyed`
   claims only what both agree on: that of an option and a later `--config` one or
   the other is used is left open.
6. `Receiver.cpp:85` and 107: with resuming enabled an existing target is accepted and,
   when it has no record, truncated; 协议设计.md:12 forbids overwriting. A complete copy that is
   sent again has no record either, so a kill then loses it.
7. `SendService.cpp:101-106`: directories are sorted within each input and then
   concatenated; 协议设计.md:12 says they are sent in lexicographic order.
8. `ResumeManager.cpp:117`: a brace in a file name breaks the pattern that finds the
   records. A closing one loses the record, an opening one can make the state file
   unreadable for every later receive. `AppConfig.cpp:22` has the same limit for
   values, and cuts an object at the first closing brace.
9. `FileScanner.cpp:45`: a directory given with a slash at its end has no name and is
   refused, and one given as `.` is announced as `.`, which the receiver refuses
   because it exists; no document says so.
10. `SendService.cpp:147-151`: nothing that a task of directories alone sends is
   answered, so its sender reports success while the receiver may have refused every
   directory. That is why `AgreeWithoutFaults` asks for a file in the task. It also
   leaves faults out: a receiver whose storage fails after the last acknowledgement
   (`Receiver.cpp:154`) has failed while its sender has succeeded.
11. `SendService.cpp:101-106`: the files of an input are found before its directories.
   When the input itself is replaced in between and another input has its name, a
   task can be announced that no receiver accepts: `d` is a directory with `d/a` in
   it, then a file, and `x/d` is a file; announced are `d/a` and the file `d`.
   `AnnouncementIsCreatable` is therefore about scans in which the inputs stay.
12. A mismatch is not reported to the sender (协议设计.md:148). After a native worker
   failure the manager's snapshot stays at running until the next request
   (`receiver_manager.py:30`). The binding never sets `enable_resume`, and nothing
   reads `verify_sha256`. 命令行设计.md:72 still says that empty directories are not
   created; they are.

## 7. Abstractions, and what is not modelled

* In `Transfer`, SHA-256 is free of collisions, and packets arrive whole or not at all: a broken
  connection is seen inside a packet or between two, and both raise the same error
  (`PacketStream` shows it on a stream of bytes).
* Source files are edited in place and between reads, not inside one. A source that
  cannot be read ends the send in the same way whatever it was that failed
  (`SourceUnreadable`); only the reported class of error differs in the code.
* A failing write of the state file is noticed in `Transfer`. The code looks at the
  stream before it is closed (`ResumeManager.cpp:164`), so a failure that comes only
  when the destructor writes the last of the buffer goes unnoticed, and the progress
  of that save is lost without an error.
* In `Transfer` a record is keyed by what announces a file; the text of the state
  file is in `FileExchange`. One sender at a time uses the receiver.
* A descriptor that is closed stays closed: that its number may be given to another
  socket while a read on another thread still uses it (`TcpConnection.cpp:76`) depends
  on what else the process opens and is not modelled. Neither is SIGPIPE, which ends
  a POSIX process that sends to a closed connection without a flag against it.
* The compression function of SHA-256 works on 32-bit words and is taken to be free
  of collisions. The order of bytes inside a header field is left to its unit test.
* DIRECTORY_INFO payloads, whose text is that of a FILE_INFO with one field, are
  records in `Transfer`. No name in `exchange` has a brace (point 8 above), and the
  three theorems that depend on reading the state file say so (`PlainNames`).
* Numbers are taken as their values: what `stoull` does with a sign is not modelled.
* `send` ends with any outcome after its scan: what follows is `Transfer`. Of the log
  only that its first line can fail; of the output nothing.
* A link that another program makes while a tree is scanned leads nowhere.
* Failing to start a thread is a hazard without a property. The GIL is left out: no
  native code waits for it while it holds the service's mutex.
* The loop runs its pending callbacks before the handler's next turn; accepting a
  WebSocket and subscribing is one step, and so are the end of a handler and its
  unsubscription. A task's change of state on the loop and the numbering of its
  event are one step: only workers run in between.
* Payloads of progress events are left out, and so are the receiver's events and
  error messages. A snapshot request that fails is dropped by the adapter
  (`FastApiAdapter.ts:131-137`) and is left out too. At most one heartbeat is on the wire.
* Not modelled at all: the wire schemas (data classes and the validation of single
  requests, without state), the React components (rendering), the mock and Tauri
  adapters (a test double and stubs), FileUtils (used by the tests only).

## 8. Plan

Done, in this order: Transfer with FileDelivery; ReceiveServer with
ServiceLifecycle; ReceiverManager; EventBus, TaskManager, TaskLifecycle,
TaskEvents; Dashboard; PacketStream with PacketChannel, Sha256, PayloadText and
FileExchange; SourceScan, AppConfig and CommandLine; the proofs of section 5, which
state every invariant that a run checks.

What would come next, most important first:

1. What is certain about a name with a brace: that `ParseResumeState` loses that
   record only, for a closing one, as a theorem without `PlainNames`.
2. The safety half of the liveness properties: for `DestructorReturns` and
   `StoppingEnds` that no caller and worker ever wait for each other, as an
   invariant over who holds the mutex and who is joined.
3. The descriptor shared by a read and a shutdown on two threads, as a module over
   the process's table of descriptors (`TcpConnection.cpp:76`).
4. The receiver's events and progress payloads in the dashboard.
5. A thread that cannot be started (`ReceiveServerService.cpp:78`), as a branch of
   `BindAndSpawn` with its proofs.
