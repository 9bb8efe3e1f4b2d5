# Verification of the asynchronous-log cloud storage

This directory specifies, in TLA+, the concurrent and crash-prone parts of the
system in `src/基于异步日志的云存储系统/log` (below: `log/`), checks them with TLC on
small instances and proves, with TLAPS, the safety properties of all seven modules for
every value of their constants (section 4 says which, and what stays with TLC).

The C++ does not compile as committed (misspelt identifiers such as `AysncLogger`,
`retrun`, `connet`). The modules read such identifiers as what they are meant to
be, and take the control flow exactly as it is written.

## 1. The system

The repository holds two programs that share one logging library.

    user's files --> client --HTTP upload--> server --> low_storage/, deep_storage/, storage.data
                       |                        |
                   storage.dat              AsyncLogger --> AsyncWorker --> LogFlush (stdout, file, rolled files)
                                                |
                                                +--> ThreadPool --> start_backup --TCP--> backup server --> logfile.log

    (alternative logger)  callers --> CoroutineStyleAsyncLogger --> AsyncBuffer --> outputs
                                      all of it tasks of one TaskScheduler

| Component | Code | State | Operations | Talks to |
|---|---|---|---|---|
| AsyncWorker, Buffer | `log_codes/AsyncWorker.hpp`, `Asyncbuffer.hpp` | two buffers, `mtx_`, `stop_`, two condition variables, the thread | Push, ThreadEntry, stop | called by AsyncLogger, calls RealFlush |
| ThreadPool | `log_codes/ThreadPool.hpp` | task queue, `stop`, workers, `queue_mutex`, `condition` | enqueue, worker loop, destructor | called by AsyncLogger, runs start_backup |
| AsyncLogger, LoggerBuilder | `log_codes/AsyncLogger.hpp` | name, outputs, the worker | Debug ... Fatal, serialize, Flush, RealFlush | the two above |
| LoggerManager | `log_codes/Manager.hpp` | table of loggers, mutex | AddLogger, GetLogger, LoggerExist | MyLog macros, server |
| LogFlush | `log_codes/LogFlush.hpp` | file handles, sizes, counter | Flush | called by RealFlush |
| Coroutine-style logger | `log_codes/CoroutineStyleAsyncLogger.hpp` | task queue, `stop_`, workers; one buffer, two condition variables; `running_` | async_execute, start, stop; push_async, pop_async, stop; log_async, the consumer, shutdown | the examples |
| CoroutineAsyncLogger | `log_codes/CoroutineAsyncLogger.hpp` | as above | a C++20 sketch nothing includes | - |
| Backup | `log_codes/backlog/` | sockets, `logfile.log` | start_backup; accept, service, backup_log | run by the pool |
| Service | `src/server/Service.hpp` | the files of two directories | Upload, Download, Delete, ListShow | DataManager, logger, HTTP clients |
| DataManager (server) | `src/server/DataManager.hpp` | `table_`, `storage.data`, a read-write lock | Insert, Delete, GetOneByURL, GetAll, Storage, InitLoad | called by Service |
| Config | `src/server/Config.hpp` | a singleton | ReadConfig, getters | Service, DataManager |
| Sync client | `src/client/` | `table_`, `storage.dat`, `if_upload_success` | RunModule, IfNeedUpload, Upload, upload_callback, Insert, InitLoad | the server over HTTP |

Not modelled: `Message.hpp` and `Level.hpp` (formatting, without state), the JSON
helpers of `log_codes/Util.hpp`, `Config.hpp` (planned, section 6), `CoroutineAsyncLogger.hpp`
(nothing includes it and it cannot compile), `index.html`, and the vendored `base64`
and `bundle.h`. `MyLog.hpp` is macros that fill in arguments; of `Test.cpp`, a main
that builds the objects, only the destruction of the pool is an action.

### What is hard

* **Two threads and two buffers** (AsyncWorker): producers append to one buffer, the
  thread tests it and would hand out the other; `stop_` is written without the mutex; the
  thread starts inside the constructor; the buffer grows by one step per message; who
  waits for room depends on a notification.
* **Notifications** (ThreadPool, TaskScheduler): `notify_one` after unlocking,
  a stop flag and a notification in two steps, tasks queued at destruction.
* **Tasks that wait for tasks** (coroutine-style logger): pushes, pops, flushes and
  the consumer share a fixed set of workers and block them.
* **Crashes between steps** (server, client): a request changes files, a table and
  a metadata file one after the other, and both metadata files are emptied and
  rewritten in place.
* **Handlers that do not return after an error** (Service::Download).
* **Transfers that outlive their handler** (server): a download is sent by the event
  loop, through an open descriptor, while later requests change the files.
* **A task per message on a thread the caller waits for** (AsyncLogger, backup): a
  pool that may have no threads or be destroyed, a server that dies with connections
  in its queue, retries that run out.
* **Buffers above buffers** (LogFlush): the stream's buffer, the kernel's pages and
  the disk, with files rolled in between, a kill, a power loss.
* **Unreliable uploads** (client): no answer, a refusal, a file that changes under
  the upload, timestamps of whole seconds, names the server decodes from base64 and the
  client did not encode, a metadata file split at spaces.

`PROJECT.json` lists each hazard with its line and the properties that watch it.

### What makes each component correct

* AsyncWorker: messages are accepted one at a time and in order; Push never writes past
  the buffer; a Push that waits for room is told when there is some (it is not); a
  destructor returns, and only with everything delivered.
* ThreadPool: tasks run once, are started in order, never stay behind a sleeping
  worker; the destructor drains and terminates; nobody waits on a dead future.
* AsyncLogger, LoggerManager, backup: one logger per name; an ERROR message is backed
  up before it is logged, once at most; a thread that logs waits for nothing but room in
  a worker's buffer.
* LogFlush: what a run leaves behind has no holes; what `flush_log` promises holds;
  files are rolled by size; the directory is made.
* Coroutine-style logger: every output gets every batch once and in order; whoever
  waits is woken; shutdown ends.
* Service and DataManager: one answer per request; what is acknowledged is what is
  stored, listed and served; a restart loads a consistent table.
* Sync client: what it skips is on the server, where the server looks for it; what is
  confirmed is not sent again; a restart forgets nothing; in the end the server has the
  files.

## 2. Modules

| Module | Models | Abstract specification | Theorems |
|---|---|---|---|
| `AsyncWorker` | AsyncWorker, Buffer, the callers in AsyncLogger | `LogChannel` (INSTANCE `Channel`) | `AsyncWorker_proofs` |
| `ThreadPool` | ThreadPool, the caller in serialize | `TaskQueue` (INSTANCE `Queue`) | `ThreadPool_proofs` |
| `AsyncLogger` | LoggerManager, serialize, start_backup, the backup server | composes `TaskQueue` (INSTANCE `Queue`) and one channel per logger | `AsyncLogger_proofs` |
| `LogFlush` | FileFlush, RollFileFlush, CreateDirectory | - | `LogFlush_proofs`, `LogFlushSizes_proofs` |
| `StorageService` | Service with DataManager, the files and a transfer | `ObjectStore` (INSTANCE `Store`) | `StorageService_proofs` |
| `CoroutineLogger` | TaskScheduler, AsyncBuffer, logger, shutdown | `LogFanout` (INSTANCE `Fanout`) | `CoroutineLogger_proofs` |
| `SyncClient` | the client, its user and its server | - | `SyncClient_proofs` |
| `MC...` | the instances for TLC: symmetry sets, sizes, paths | | |

How they compose: `ThreadPool` implements `TaskQueue` and `AsyncWorker` implements
`LogChannel` (checked and, for safety, proved), and so do `CoroutineLogger` with
`LogFanout` and `StorageService`, as long as nothing disturbs it, with `ObjectStore`.
`AsyncLogger` is written above the
abstract ones, so that it can follow a message from the caller through the pool, the
network and the backup server with a state space that stays small. `LogFlush` is
what RealFlush, the worker's callback, calls.

Operators named "Mutant of X" in a comment are not part of the specification: each
is a wrong variant of X, used to show that a property can fail.

### AsyncWorker

`buffer_productor_` and `buffer_consumer_` are records of a size, the two positions
and the messages they hold. A message is a thread, a number and a length; bytes are
not represented. A critical section of a producer is one step (`PushWaits`,
`PushWrites`), since nothing in it releases the mutex; the thread, which holds
`mtx_` across a swap and the callback, goes through `WorkerTests`,
`WorkerSwaps`, `WorkerCallback` and `WorkerEndsTurn`, so that `stop_`, written
without the mutex (`StopBegins`), can change between any two of them.
`WorkerCallbackUnset` is the undefined call of a member that is not constructed
yet. `SizeAfter` is ToBeEnough with its two growth rules. `Call` stands for Debug,
Info, Warn, Error and Fatal, which format and end in Flush.

`LogChannel` promises: accept messages, deliver them in order and once, close when
nothing is pending. `AsyncWorker` implements it in the one way that remains when nothing
is ever delivered: messages are accepted one at a time, and the channel never closes once
it has one.

### ThreadPool

A task is a caller and a number. `Enqueue` is the locked part, `NotifyOne` a step of
its own, because the code notifies after unlocking; a caller then blocks on the
future (`GetReturns`) as `AsyncLogger::serialize` does. A worker goes through
`WorkerWaits`, `WorkerReturns`, `WorkerTakes`, `WorkerRuns`; the destructor through
`SetStop`, `NotifyAll`, `JoinAll`. `SpuriousWakeup` is always possible.

`TaskQueue` promises: accept until told to stop, start in order, at most Width at
a time, finish everything that was accepted, then close.

### AsyncLogger

Each thread in `Callers` has built a logger of one name. `LoggerExist`, `AddLogger` and
`GetLogger` are the critical sections of the manager: AddLogger looks in one
(through LoggerExist) and inserts in another, and emplace leaves an entry that came
in between. `Logs` is Debug ... Fatal up to the branch of serialize; `Enqueues`,
`EnqueueThrows`, `GetReturns` and `Pushes` are its lines 129-141, the push being what
a LogChannel accepts. In safe mode a push may have to wait first (`PushWaits`). Whether it
does is left open, since the sizes are `AsyncWorker`'s, and so is waking up (`PushWakes`),
which no fairness relies on: that nobody notifies a waiting push is what
`WaitersAreNotNotified` shows of `AsyncWorker`. A task is named for its message.
`BackupStarts`, `Connects`, `ConnectFails`, `Sends` and `BackupEnds` are start_backup in a
thread of the pool, with the counter of the tries that is left; a write that fails sends
nothing. `conn` holds both ends of a connection: the server's is in the queue of `listen`
until `Accepts`, then in the hands of a thread that reads once (`Reads`, or `ReadsNothing`
at the end of a connection that brought nothing and when read fails) and appends
(`Appends`). `Died` resets what the server had in hand; `ReadOverflows` is the byte written
behind a full buffer, `AppendFails` the assertion, `ServerStarts` a restart that may not
get its port. `thread_count` is 0 in half of the initial states: JsonData then found no
configuration.

### LogFlush

`fs_` is the name of the open file and `buffered` what its stream still holds; `Fwrite`
may write out any part of it, `FlushStream` does what `flush_log` says, `Closes` is
fclose. Each file has its data and how much of it was forced to the disk (`synced`);
`Kill` drops the buffer, `PowerLoss` also any part of a file behind `synced`. An fflush or
fsync that fails leaves what it was to write out in the buffer, or what it was to force
unforced; the code reports it at most, and goes on.
InitLogFile is `KeepsFile`, or `Closes` and `FirstFile`, which names the file. A name is the
digits of a time of day, put together without padding as in the code (minutes and
seconds stand for all its fields), and a counter that starts again with the process,
so two names may be equal and the file is gone on with. A path is the list of the
names between its separators; `MakesDirectory` is one round of the loop in
CreateDirectory. `Resolved` and `Present` are the kernel's part. Batches have lengths,
no bytes; a write that fails writes nothing. Three assumptions: a power loss leaves the
names of files and the directories, although the code forces files only, never their
directory (`LogFlush.hpp:104-105`); mkdir does not fail (`Util.hpp:74` ignores its result);
and a path ends in a separator, which is what Path() returns.

`given`, `returned` and `opened` are histories: what each run was given, for how many of
it Flush has returned, and which files were opened in which order. The properties on what
survives speak of places, the i-th opened file and an index in it (`Places`), since two
runs may write to one file.

### StorageService

The server has one event loop, so requests are handled one after another; the
steps of a handler (open, write, insert, persist, answer, remove, erase, unpack,
send, clean up) are separate actions because the process can be killed between any
two. Files, with times, and `disk` survive a `Crash`; `table` does not and `Restart`
loads it. A file operation can fail (`...CannotOpen`, which for an upload is also the
copy of its body out of the buffer; `DeleteCannotRemove`; a write; the removal of a copy;
`UnCompress`; a file that cannot be added to its answer, `SendNothing`; the load at a
restart, `ReadTable`) within `MaxFaults`. Contents are opaque; `Torn` is a file that was
opened for writing and not filled. `storage.data` is assumed to be written whole or not at
all once it was emptied: the table goes through one buffer, and a file that is cut short
does not parse and gives an empty table, like an empty one. A deep file is stored packed
and is unpacked to a temporary namesake in the low directory, which is opened
(`DownloadUnpacks`) and then written (`UnCompress`), so that a kill may leave it empty.

A header that is needed and was not sent ends the process (`HandlerThrows`; FileName and
StorageType of an upload, unless its body is empty, FileURL of a deletion); a FileURL that
is empty is answered 400 (`DeleteRefused`). `acked` is the content of the last upload of
a name that was answered 200, forgotten when the next request begins to change the file.

`wire` is one download the event loop still sends after its handler has returned
(evbuffer_add_file keeps a descriptor). It reads the inode it was opened on: the one in
the low directory while that is there (`"linked"`), later one that nobody changes.
`TransferEnds` may come between any two requests. Any download may be the one that
is followed.

`ObjectStore` promises: one content under each name, which an upload or a deletion
changes as a whole and nothing else does, and every request answered from what is stored
at one moment. Its store is the content of the file of each name that is listed (`Holds`;
of a name that is being uploaded the body of the request, of one that is being deleted
none), its stage (`Stage`) follows `pc`. An upload takes effect when its file is opened and a deletion when
the file is removed; writing, persisting, unpacking and the transfer are steps a client
does not see. The answers of the code are kept as they are: a name that is not known is
answered 200 with the directory (`GetUnknown`), a request without its header ends without
an answer (`Breaks`), one with an empty body, another type or an empty URL is refused
(`Refuse`, `RefuseRemoval`).

### CoroutineLogger

`worker` tells where each thread of the scheduler is: at the test of `stop_`
(`top`), at the mutex, asleep, running a task, waiting for room or for data inside
a task, or, for the thread that has the consumer, in the consumer's loop. `ready` is
the set of tasks whose promise is set. `Queue` is async_execute; it is part of the
step that calls it, together with its notification, and `SpuriousWakeup` covers
notifications that come late. Messages have lengths and the buffer the capacity it
was created with; `buffer_` holds the messages, `starts` the positions at which they
were copied and `write_pos_` the end, up to which `pop_async` hands out the buffer, so
that `Conservation` can say that the copies lie end to end. The `resize` in
push_async can never run, since the wait before it
lets a message pass only when it fits. `StopLogger`, `StopBuffer`, `StopScheduler`
and `JoinWorkers` are shutdown(). One logger; outputs that throw are left out.

`LogFanout` promises: messages are accepted, all that were accepted are taken as one
batch, and each receiver is given each batch whole and once before the next is taken. It
is `LogChannel` for many receivers, stronger in what a delivery is, and weaker at the
end: it never closes, for the code drops what is in the buffer at shutdown. A push
accepts, a pop takes, the flush of an output delivers.

### SyncClient

`pc` follows RunModule: scan the low and the deep directory, decide
(`IfNeedUpload`), read and send (`Sends`), the server's part (`ServerTakes`), the
callback (`Succeeds`, `Refused`, `NoResponse`), and `Inserts`, `Empties`, `Writes`
for the table and its file. The user's `Change` and `Crash` come between any two.
A version is a content and a time; an identifier is a size and a time; all contents
but the empty one have one size, the case in which only the time tells them apart.
`NoResponse` is libevent calling back without a request, when the connection breaks
or times out after it was made; a connection that cannot be made calls back with
code 0, a refusal.

The client sends the name of a file as it is and the server decodes it from base64
(`Service.hpp:149`). `place` is what comes out: a path of the server, which two names may
share; `Undecodable`, when the decoder throws (a '.' is enough) and the server ends with
the connection (`ServerEnds`); or `Unwritable`, a path the server cannot open, which it
answers with an error. `ServerTakes` stores the body at the place, over what another file
may have there, `RefusedHalfway` is an upload that has opened, and so emptied, the place
and then fails. The server is otherwise external: `StorageService` has what it does.

`storage.dat` has a line per file, a path and an identifier, split at spaces when it is
read. `word` is the file whose path is the first word of a file's own: itself, or, for a
path with a space (`Spaced`), another file or none. Such a file has no record after a
restart (`Survives`), and the file its first word names may get the next word for its
identifier (`Damaged`, `Junk`). A line that a failed write has cut before its space
(`torn`) makes InitLoad read past its vector: any file may get junk, or the client ends.
`Loaded` is what may come of it all; `Crash` puts that into the table and leaves
`storage.dat` as it is. A kill in the middle of a write is a failed write and a crash.

Left out: files of one name in both directories, copies that keep an old modification
time, paths with two spaces in a row or at their end. What a killed client had sent is
taken before the kill, or never.

`doubtful` is a history: the files whose last upload was disturbed, because the file
changed while it was uploaded, there was no answer, or it failed halfway, and those whose
place another file's upload has taken since. A later upload ends the doubt only
if what is recorded of the file is `Outdated`: of an earlier second than now and not its
identifier. (A wrong record that is younger can become right by one more edit within the
same second.) `acked` is the version last answered 200, forgotten when the file changes and
when a restart does not load its record. The
properties exempt the files in doubt, and state exactly what the code guarantees for
all the others; what happens to the disturbed ones is
`client_stale` and the third observation on the client below.

## 3. Runs

Passing runs:

| Run | Instance | Shows |
|---|---|---|
| `worker` | both modes, 2 producers, 2 messages each, lengths 1, 3, 4, size 2, threshold 5, growth 4 | through both growth rules: one growth step is enough (`CapacityEnough`); a waiting producer is never notified, not even when another's exact fit has made room (`WaitersAreNotNotified`); `Implements` LogChannel, of which only accepting and never closing are exercised; Push never blocks in unsafe mode and an idle worker's destructor returns (`CallsReturn`) |
| `pool` | 2 workers, 2 callers, 2 calls each | every task once, no missed wake-up, every future ready and a destructor that terminates (`CallsReturn`), `Implements` TaskQueue with liveness (order, drained before it closes) |
| `logger` | 2 threads and messages, both modes, a pool of 1 thread or none, messages longer than the server's buffer, a crash of the server, a failing connect, send, read, write or bind | one logger per name, a backup that has ended before the message enters the channel, one line at most, a call that waits for nothing but room in the worker's buffer, and for that in safe mode only (`CallsReturn`), every backup arrives while nothing fails |
| `log_files` | both outputs, 3 settings of flush_log, 3 batches per run of length 1 or 2, max_size 2, 2 instants with equal names, a kill or a power loss, a failing fopen, fwrite, fflush or fsync | what survives has no holes (`PrefixSurvives`), what the setting promises survives (`ReturnedSurvives`), rolling by size, the constructor returns |
| `svc` | 2 names, 2 contents, 4 requests, a crash, a failing file operation, a second that passes | one reply, `ImplementsStore`: undisturbed, every step of a handler is one of an ObjectStore or not seen; listed files exist, disk and memory agree and restarts are atomic (`RestartIsAtomic`, where no write of `storage.data` fails), deletions are honest and hold, transfers are whole |
| `co_logger` | 3 workers, 2 callers with a message each, 2 outputs, capacity 2, lengths 1, 2, shutdown at any point | `Implements` LogFanout (each output is given each batch whole and once), every task once, no worker, pop or push sleeps through its notification, what is written is delivered unless the workers are jammed, shutdown returns unless the consumer is orphaned |
| `client_sync` | a low and a deep file whose names share a place and a first word, or of which one cannot be decoded; files that may have just changed, and an edit; a lost or refused upload, a failed or torn write, a kill | what is skipped is stored where its name leads (`MarkedIsStored`), what is confirmed is not sent again, a restart forgets nothing of files without spaces unless a write has failed (`RestartForgetsNothing`), the server catches up while it runs |

Violations, each a disagreement of the code with its own documentation:

| Run | The code | The claim |
|---|---|---|
| `worker_delivery` | buffered messages never reach the callback: the test before the swap is inverted | `AsyncWorker.hpp:54`, `:15` |
| `svc_durability` | a crash while `storage.data` is rewritten for one file loses the acknowledged records of the others, which no request has touched | `DataManager.hpp:94` |
| `svc_etag` | the ETag carries the access time, not the modification time | `Service.hpp:359` |
| `co_jam` | all workers wait for room, the pop that would make it is queued behind them | `examples/coroutine_test.cpp:62-67` |
| `client_stale` | an upload without an answer counts as the previous one did | `Storage.hpp:19` |

### Why the bounds are enough to see the interesting cases

* Two producers and one thread give every interleaving of a wait, an append and the
  steps of the thread; lengths below, at and above the buffer size reach the wait, the
  exact fit that makes room for another, and both growth rules.
* Two workers and two callers can sleep, be woken by the wrong notification and race
  for one task; the destructor may come at any point. The proofs remove the bounds.
* Four requests on two names cover upload low, upload deep, download, delete of one
  name in every order, with a second name to be left alone, while a transfer that one
  of them started goes on; the crash and the failing operation combine freely.
* Two threads are enough for the check and the insertion of AddLogger to interleave,
  and for one message to be backed up while another is pushed. One crash of the
  server finds each connection in each of its places. One failing call, together
  with a server that is down, reaches all five tries, and may be any call of either end.
  All messages are longer than the server's buffer: every read cuts one, fills the buffer
  and may end the server.
* Three batches of lengths around `max_size_` roll once, with a batch before and
  after, in a run that is stopped anywhere and in the next one; the two instants
  give one name in both runs or two different ones. The path `./a//../b` has every case
  of the loop.
* Three workers are the least with which the coroutine-style logger moves (one has
  the consumer, one waits for data, one writes), and messages as long as the buffer
  make every wait happen. `co_jam` needs three messages.
* One second of settling stands for five: the code only compares with it. A file
  may have changed in the first second already, so that one edit more gives two within a
  second, before, during and after an upload (the proof covers any number); the lost
  answer, the failed write and the kill combine freely. Two files are enough for a name
  to be written over by another, and for one name that ends the server to leave the other
  file behind.
* `CHECK_DEADLOCK FALSE` everywhere: the bounds on calls, requests and edits let
  every system stop.

Symmetry is used in `svc` only, which checks no liveness: `ImplementsStore` is a condition
on the initial states and on steps, and treats all names and all contents alike.

### Fairness

* Threads (`worker`, `pool`, `co_logger`): strong fairness of each thread's steps.
  A thread that is runnable is scheduled, and one that keeps trying to lock a mutex
  that becomes free again and again gets it, which is what the operating system
  gives in practice and std::mutex does not formally promise. Calls that have begun
  continue (weak fairness); logging, destruction, shutdown and spurious wake-ups
  are never required.
* `logger`: weak fairness of a call that has begun, unless it waits for room, of the pool,
  of start_backup and of the backup server's threads. None of it relies on a call that
  fails or on a wake-up nobody asked for. Nobody has to log, and the server need not come
  back after a crash.
* `log_files`: weak fairness of the constructor, which is straight-line code and a
  loop. `svc` checks safety only, without fairness.
* Client: weak fairness of the loop, of time, and of the end of an upload: the
  connection has a timeout, so an upload is answered, refused or abandoned. Refusals
  and lost answers are bounded, so `ServerCatchesUp` says: once the disturbances end.

## 4. Proofs

All are for every value of the constants; `MaxPushes`, `MaxCalls` and the sets of
threads and lengths are arbitrary.

**AsyncWorker_proofs** assumes the named assumptions of `AsyncWorker`: lengths are
positive, the configured sizes natural numbers. The inductive invariant is
`TypeOK /\ Phases /\ Accounting` (lemma `InvHolds`): `Phases` says that positions and
content of each buffer agree, who holds the mutex, what the thread has established where
it is, and that no thread is in Push once `stop_` is set; `Accounting`, that what was
accepted is what the buffer Push writes holds. From it follow `WaitersAreNotNotifiedHolds`
(by `Phases` nobody waits when the one notification of producers is given),
`NothingReachesCallbackHolds`, `StopDrainsHolds` (so the destructor returns only from a
worker that accepted nothing) and `ImplementsHolds` (every step of Spec is a step of
LogChannel or changes nothing it sees; no delivery is among them). `CapacityHolds` needs one more hypothesis,
`LengthsFit`: every length is at most twice the configured buffer size and at most
the linear growth; in safe mode, where a message waits until it fits, it needs none.
The code checks nothing of the kind; without it one growth step is not enough (see
Observations). `StopDrains` and `NothingReachesCallback` are proved and not run: a run
could add nothing.

**ThreadPool_proofs** assumes finitely many workers, at least one. `Control` relates
the destructor's progress to the workers; `NoMissedWakeup` is inductive with it;
`Distinct` says no task is twice in the queue, in hands or done, and gives
`RunOnce`; `Counted` bounds the running tasks by the number of workers for the
refinement. `ImplementsTaskQueue` proves the safety part, TLC checks its liveness.
`Fifo`, `NoSleeperAfterStop` and `JoinDrains` are proved and not run, for the same reason.

**StorageService_proofs** proves every property that `svc` checks, for any names,
contents, requests, crashes and failures, from `BoundsAssumption` (the bounds are
natural numbers), `SizeAssumption` (so are the sizes of contents) and `NamesAssumption`
(the model's own values, such as `"none"`, are not names or contents). `TInv` is
`TypeOK` and `Phases`, what a handler has established where it is: `TypeOK` alone is
not inductive, since a handler uses the name, type and body the request had when an
earlier step looked at them. On it are built
* `Synced`, how `disk` and `table` differ at each step of a change: gives
  `RestartIsAtomicHolds`;
* `GoneIsGone` and `Deleting`, that a deleted name is in neither of the two and what a
  deletion has been answered: give `DeletionsHoldAlways`. The first needs `Synced`, since
  a restart makes `disk` the table;
* `Latest`: the record of a name no request is changing (`Busy`), in the table or, after
  the handler has thrown, on the disk, agrees with the last acknowledged request and
  with the file (`Current`); an upload that only has to be persisted agrees with its body
  (`Prepared`); an unpacked copy has the content of the packed file. Gives
  `ListedFilesExistHolds` and, with `Served`, `DownloadReturnsLatestHolds`;
* `Answered`, how many replies there are where: gives `OneReplyHolds`. It needs `Latest`
  to see that a second reply means something was disturbed;
* the refinement, from `TInv`, `Synced`, `Latest` and `Answered`: `ImplementsStoreHolds` says
  that each step that leaves the system undisturbed maps to a step of ObjectStore or changes
  nothing it sees, and `UndisturbedImplementsStore` that an execution without a crash or a
  failure is one of ObjectStore, `Spec /\ []Undisturbed => Store!Spec`. `Latest` is what a
  download needs: the file it finds is the content that is stored;
* `OnItsWay`: through which inode a transfer reads, and that a packed file's copy is
  removed before anybody else can write it: gives `TransfersWholeHolds`.

`DownloadReturnsLatest` is proved and not run: `ImplementsStore` says more.

**SyncClient_proofs** assumes `SyncAssumption` (the two directories share no file, the
model's own values are no files and no places, the names are any set of namings) and
`BoundsAssumption` (the bounds are natural numbers and leave time to settle). `TInv` adds to
`TypeOK` that the loop has a file where it works on one. `RestartForgetsNothingHolds` is an
action property from `DiskHasTable`: while no write has failed, `storage.dat` has what the
table has of each file without a space whose path is nobody's first word (`Plain`), but for
the file whose record is about to be written. The lines of the other files need not be
those of the table, also after a restart.
`MarkedIsStoredHolds` needs `Recorded`, which speaks of both places where a
record can be (`RecordHolds`), since a restart loads `storage.dat`, and of the upload in
progress: what is recorded of a file not in doubt is of an earlier second and, if it is
the file's identifier, the server holds the file at its place; an undisturbed upload sends
the file as it is. The proof needs `Sharing`, since another file of the same place could
take it, and `Outdated`: a file that is uploaded again while a wrong record of it is still
young is not out of doubt, as three edits show.
`ConfirmedIsNotSentAgainHolds` is an action property from `Confirmed`: a file that was
confirmed as it is now is in the table, or about to be put there.

**AsyncLogger_proofs** assumes `CallersAssumption` and `SizesAssumption` (a pool of any size,
none included; positive lengths and a server that reads at least one byte). `TInv` is
`TypeOK`, the order of the pool's tasks (`Queued`, `NoThreads`), what each end of a connection
says of the other (`Connected`: among it, that what is being appended has been sent, so that
its length does not change any more) and what a thread holds (`Holds`). On it:
* `Handed`: once a thread has looked, there is a logger, and it gets that one; gives
  `OneLoggerPerNameHolds`;
* `Written`: a line of the backup file belongs to a connection that was served to its end,
  and nothing moves such a connection; gives `BackedUpOnceHolds`;
* `Backups`: how far the backup of a thread's message is, by where the thread is, that
  messages in a channel are settled, and that no task is named for a call to come, so that
  nobody can unsettle them; with `Written` gives `BackedUpFirstHolds`.

**CoroutineLogger_proofs** assumes `SizesAssumption` (finitely many workers, any number of
outputs, positive lengths). The inductive invariant is `IInv`: `TInv`, each worker is where
its task is (`Fits`); `Tasks`, a task is queued, held or done, once (`Once`), the pushes that
exist were logged (`CallerHolds`, `Numbered`), and a pop or flush that is still to be done is
one the consumer waits for (`Awaited`); `Flow`, what each output was given is all that was
handed over, without the last batch while its flush is pending (`Settled`). `OutputsInOrder`
alone is not inductive: a flush that was queued twice, or outlived its batch, would
deliver a batch again, and only `Once` and `Awaited` exclude it. From `IInv` follow
`EachTaskOnceHolds` and `OutputsInOrderHolds`; `ConservationHolds` and
`ReadyMeansWrittenHolds` are inductive on top of it. With `Conservation` it gives
`ImplementsHolds`, that every step of the logger is one of LogFanout or changes nothing it
sees: a pop takes everything that was written, and comes only when no output is owed
anything. `NoMissedWakeupHolds` has three parts, each inductive on `IInv`. The workers that
contend for the mutex are at least as many as the tasks in the queue while one sleeps,
since who takes a task was one of them and who queues one wakes one. A pop waits only for
an empty buffer: the write that fills it notifies one reader, which is enough as there is
one pop at a time (`OnePop`, from `Awaited`). And a push waits only behind messages that a
pop will take, or behind a push that a pop has woken, if every message fits into the empty
buffer: `Lens` may hold longer ones, which wait for ever. `OutputsInOrder` and
`ReadyMeansWritten` are proved and not run.

**LogFlush_proofs** assumes `SizesAssumption`: paths are sequences of names, lengths positive,
there is a time of day. Its invariant has two layers. `TInv` holds whatever fails: batches are
numbered (`Numbered`), the open stream is the file opened last, by this run (`Streams`), no
run opens one file twice, since its counter grows (`OpenedOnce`), and whatever lies in a file
or in the buffer was given to a run that opened that file (`Genuine`). The last two are what
makes a name that an earlier run used harmless: the file goes on, and a place in it counts
for the run whose batch is there. The second layer holds while `faults = 0`: `Ordered` says
that the batches leave the buffer in order and that those that have left are what the files
hold of the run; `Whole` that what survives has no holes, unless power was lost; `Returned`
where a batch is for which Flush has returned (`Safe`), which needs that the batch being
flushed is in the open file only (`InLast`) and that the buffer is empty between two calls
(`Position`). They give `PrefixSurvivesHolds` and `ReturnedSurvivesHolds`; `TypeCorrect` needs
the first layer only.

**LogFlushSizes_proofs** goes on from there to `RollsBySizeHolds`. How long a file is, is a sum
over its batches, the recursive function `Size`. What such a function computes is proved by
taking the least length at which it fails (`Least`, from the well-foundedness of the natural
numbers): there is a function that adds the lengths up (`SumExists`), it is the only one, and
so `Size` grows by the length of each batch that is appended. `RInv` adds to `TInv` that
`cur_size_` is what the open file has grown by since it was opened (`Bounded`, an upper bound,
whatever fails) and that a file the run has left is full (`Full`, while no power was lost and no
call failed). A name that is opened again, after a restart or at a time written alike, may grow
once more by as much, which is why the bound counts the openings.

Only model-checked: liveness, that is what `TaskQueue` promises of it, `CallsReturn` of the
worker, the pool and the logger, `BackupArrives`, `WrittenIsDelivered`, `ShutdownReturns`,
`ServerCatchesUp` and `ConstructorReturns` (fairness and ENABLED are outside what TLAPS proves
here), and the five disagreements. Every invariant and every action property that a passing run
checks is also a theorem. TLAPS takes an instance only if it needs no parameter: this is why
LogFanout has one function of all receivers where one LogChannel per output would do.

## 5. Observations

Facts about the code the models show and no run of their own states.

AsyncWorker
* Because nothing is ever swapped while it holds data, `stop()` joins for ever once
  a message was logged: the destructor of a used logger hangs.
* A producer that waits for room in safe mode is never notified. A growth by another
  thread's exact fit makes room without a notification (`WaitersAreNotNotified`).
* The buffer also grows in safe mode, on an exact fit (`Asyncbuffer.hpp:85` grows at
  `len >= WriteableSize()`), although the mode is meant to control
  whether it grows (`AsyncLogger.hpp:195`).
* When `config.conf` cannot be read all sizes are 0 (`Util.hpp:164-173`): the growth
  is by 0 and the copy in `Asyncbuffer.hpp:25` overruns the buffer. Beyond 2 GiB the
  growth computes with a narrowed `int` (`Asyncbuffer.hpp:84`).
* `thread_` is declared before `callback_`, so the thread runs before the callback is
  constructed and may call it then: it calls it in every turn, also with nothing to
  deliver. (`ConstructorEnds` and `WorkerCallbackUnset` are that race; properties
  about progress exempt it with `aborted`.)
* The thread never waits: the wait is inside the branch that is taken only when
  `stop_` is set, so an idle logger keeps a core busy.

ThreadPool
* `thread_count` is 0 without a configuration: Error() waits for ever, since the future
  it waits for belongs to a task nobody runs, and the message never enters the
  channel (`logger` states both halves). `JsonUtil::UnSerialize` (`Util.hpp:149`) returns
  false also on success; nobody looks.
* Destroying a pool without threads while a task is queued breaks the promise, and
  the caller's get() throws an exception that serialize does not catch (left out of
  the model: AsyncLogger destroys pools with threads only).
* `enqueue` notifies after unlocking; destroying the pool from another thread at that
  moment is undefined. The models keep the pool alive while calls are in progress.

Backup
* start_backup tries five times in all, not five times more
  (`clientBackupLog.hpp:28-31`), at once and without a pause: a server that is being
  restarted is missed.
* The server reads once, up to 1024 bytes, and cuts what is longer or comes later. A
  read that fills the buffer writes its terminator behind it
  (`serverBackupLog.hpp:107`).
* A file that cannot be opened or written ends the server by an assertion
  (`serverBackupLog.cpp:34`), with the connections that were in its hands. After a
  restart bind may fail, since SO_REUSEADDR is not set; the server then goes on and
  nobody reaches it.
* Each of these is silent for the thread that logged: it goes on as if the message
  had been backed up.

LogFlush
* The name of a rolled file has no padding, and hour, minute and second are one too
  large (`LogFlush.hpp:139-141`), where line 130 says `YYYYMMDDHHMMSS`. Names of different
  times can agree; the counter restarts with the process; a file is then gone on
  with and may hold twice `max_size_`.
* When fopen fails the next fwrite is given NULL and the process ends
  (`LogFlush.hpp:92`). Failed writes are reported and forgotten.
* With `flush_log` 0 or 1 a file that was rolled away is never forced to the disk.
* With a `max_size_` of 0, which nothing refuses, every batch gets a file of its own
  (`LogFlush.hpp:112`), full or not; `RollsBySize` says nothing then.
* CreateDirectory never returns for a path without a separator at its end
  (`Util.hpp:51-76`: `npos + 1` is 0), although the example in its own comment
  (`Util.hpp:194`) is such a path. All callers pass the result of Path(), which ends in
  one, or nothing.

Server
* A low file is overwritten in place while an earlier download of it is still being
  sent, after an upload of its name: the client gets the old length and new bytes
  (`TransfersWhole` exempts this case and no other).
* A deep file whose name contains `low_storage` is stored unpacked
  (`Service.hpp:182`), a low one whose name contains `deep` is listed as deep
  (`Service.hpp:284`).
* An unknown URL is answered 200 with the directory itself: the result of the lookup
  is ignored (`Service.hpp:375`, `:400`).
* A request without a header it needs throws out of the handler and ends the process
  (`Service.hpp:147`, `:223`), where `DELETE_FEATURE_README.md:13` promises an error for a
  missing FileURL.
* A file that cannot be added to its answer is logged and the answer sent without it,
  with 200 (`Service.hpp:437`).
* A failed write of `storage.data` is answered 200 (`DataManager.hpp:125`);
  `DELETE_FEATURE_README.md:73` promises 500.
* The download of a deep file whose file is gone is answered 500 and then 404
  (`Service.hpp:396`, `:425`), or with a stale low copy if there is one.
* A crash between the removal of a file and of its record leaves a listed file that
  does not exist; a name stored in both directories keeps one file when deleted.
* When `storage.data` cannot be read at startup the result of InitLoad is ignored
  (`DataManager.hpp:54`): the server runs with an empty table, and the next upload
  writes that table over the records.
* A 206 answer carries the whole file whatever range was asked for.

Coroutine-style logger
* With one worker nothing is ever read; with two, the waiting pop leaves none for
  the pushes. `start` takes `hardware_concurrency()` by default, which may be 1, 2 or 0.
* A message longer than the buffer (8192 bytes) waits for ever and takes a
  notification each time.
* Two messages of one caller are two tasks and may be written in either order.
* What is in the buffer at shutdown is lost, and a consumer may be orphaned: its pop
  or flush stays in the queue after every other worker has left
  (`CoroutineStyleAsyncLogger.hpp:110`), and shutdown joins for ever.

Client
* A file with a space in its path is uploaded again after every restart. Its line also
  sets the record of a file that its first word names, which is then uploaded again too;
  and a line without a space makes InitLoad read past the vector (`DataManage.hpp:47`).
* An empty file is refused with 400 each time and sent again at every scan.
* The identifier is taken after the upload (`Storage.hpp:149`): a file that changes
  while it is uploaded is recorded with the identifier of a version that was never
  sent, and that version is never uploaded.
* The client sends the FileName header as it is, the server decodes it as base64
  (`Service.hpp:149`). A name with a '.', as most have, ends the server; so the client goes
  on without one, and every later upload fails. Different names may decode to one path:
  the client then skips both, while the server has the content of the last.

## 6. Plan

Done so far: the modules above, the proofs of all their safety properties, and the
refinements of `TaskQueue`, `LogChannel`, `LogFanout` and `ObjectStore`. What a team would
do next:

1. `Config`, the server's singleton with its double-checked locking, and with it what a
   program would see that calls DataManager from several threads, as
   `DELETE_FEATURE_README.md:37` allows: this server calls it from its event loop only.
2. `CloudStorage`: client and server composed, with both crashing; the server would be
   an `ObjectStore` that a crash may leave with less.
