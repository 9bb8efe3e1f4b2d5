--------------------------- MODULE CoroutineLogger ---------------------------
(***************************************************************************)
(* The coroutine-style logger (log_codes/CoroutineStyleAsyncLogger.hpp):   *)
(* TaskScheduler, AsyncBuffer, CoroutineStyleAsyncLogger and the shutdown  *)
(* of CoroutineLogManager.                                                 *)
(*                                                                         *)
(* Everything is a task of one scheduler with a fixed set of workers: each *)
(* log_async queues a push, the consumer is a task that never ends, and it *)
(* queues a pop and one flush per output and blocks on their futures while *)
(* it holds its worker.  A task that waits on a condition variable holds   *)
(* its worker too.                                                         *)
(*                                                                         *)
(* A notification is part of the step that changes what it is about: a     *)
(* thread that waits tests its predicate under the mutex of that step, and *)
(* SpuriousWakeup covers a notification that comes late.                   *)
(***************************************************************************)
EXTENDS Integers, Sequences, FiniteSets, SequencesExt

CONSTANTS
    Workers,    \* the scheduler's threads
    Callers,    \* the threads that log
    Flushers,   \* the number of outputs
    Lens,       \* the lengths of the formatted messages
    Capacity,   \* AsyncBuffer's initial_size
    MaxLogs     \* bound: messages each caller logs

ASSUME SizesAssumption == /\ IsFiniteSet(Workers)
                          /\ Flushers \in Nat
                          /\ Lens \subseteq Nat \ {0}
                          /\ Capacity \in Nat
                          /\ MaxLogs \in Nat

VARIABLES
    task_queue_, stop_,         \* the scheduler
    worker,                     \* where each worker is
    job,                        \* the task each worker runs
    ready,                      \* the tasks whose future is ready
    buffer_, starts,            \* AsyncBuffer: its messages and where each begins
    write_pos_, buffer_running_,    \* its end, its running_
    running_,                   \* the logger's running_
    pops,                       \* how many pops the consumer has queued
    data,                       \* what the last pop returned
    issued,                     \* how many flushes of data are queued
    caller, logged,             \* each caller: the push it is about to queue
    owner,                      \* how far shutdown has come
    written,                    \* history: messages copied into the buffer
    handed,                     \* history: messages popped
    delivered                   \* history: messages each flusher was given

scheduler == <<task_queue_, stop_>>
threads   == <<worker, job, ready>>
content   == <<buffer_, starts, write_pos_>>
buffer    == <<content, buffer_running_>>
consumer  == <<pops, data, issued>>
callers   == <<caller, logged>>
history   == <<written, handed, delivered>>
vars == <<scheduler, threads, buffer, running_, consumer, callers, owner, history>>

Message == [by : Callers, no : 1..MaxLogs, len : Lens]
Batch   == Seq(Message)

Consume     == [kind |-> "consume"]
Push(m)     == [kind |-> "push", message |-> m]
Pop(n)      == [kind |-> "pop", no |-> n]
Flush(n, f) == [kind |-> "flush", no |-> n, to |-> f]
NoJob       == [kind |-> "none"]

Init ==
    /\ task_queue_ = <<Consume>>
    /\ stop_ = FALSE
    /\ worker = [w \in Workers |-> "top"]
    /\ job = [w \in Workers |-> NoJob]
    /\ ready = {}
    /\ buffer_ = <<>> /\ starts = <<>>
    /\ write_pos_ = 0
    /\ buffer_running_ = TRUE
    /\ running_ = TRUE
    /\ pops = 0
    /\ data = <<>>
    /\ issued = 0
    /\ caller = [c \in Callers |-> NoJob]
    /\ logged = [c \in Callers |-> 0]
    /\ owner = "running"
    /\ written = <<>>
    /\ handed = <<>>
    /\ delivered = [f \in 1..Flushers |-> <<>>]

At(place) == {w \in Workers : worker[w] = place}

\* notify_one: what the workers look like after one that waits at place, if
\* there is one, has been sent on to next.
NotifyOne(now, place, next) ==
    LET waiting == {w \in Workers : now[w] = place}
    IN  IF waiting = {} THEN {now}
        ELSE {[now EXCEPT ![w] = next] : w \in waiting}

NotifyAll(places, next) ==
    [w \in Workers |-> IF worker[w] \in places THEN next ELSE worker[w]]

-----------------------------------------------------------------------------
(* TaskScheduler *)

\* async_execute: `now` is worker with what the calling thread does next.
Queue(task, now) ==
    /\ task_queue_' = Append(task_queue_, task)
    /\ worker' \in NotifyOne(now, "asleep", "lock")

WorkerTestsStop(w) ==
    /\ worker[w] = "top"
    /\ worker' = [worker EXCEPT ![w] = IF stop_ THEN "exited" ELSE "lock"]
    /\ UNCHANGED <<scheduler, job, ready, buffer, running_, consumer, callers,
                   owner, history>>

WorkerWaits(w) ==
    /\ worker[w] = "lock"
    /\ ~stop_ /\ task_queue_ = <<>>
    /\ worker' = [worker EXCEPT ![w] = "asleep"]
    /\ UNCHANGED <<scheduler, job, ready, buffer, running_, consumer, callers,
                   owner, history>>

WorkerBreaks(w) ==
    /\ worker[w] = "lock"
    /\ stop_ /\ task_queue_ = <<>>
    /\ worker' = [worker EXCEPT ![w] = "exited"]
    /\ UNCHANGED <<scheduler, job, ready, buffer, running_, consumer, callers,
                   owner, history>>

\* Mutant of WorkerTakes: the task is moved out of the queue, not popped.
TakesWithoutPop(w) ==
    /\ worker[w] = "lock"
    /\ task_queue_ # <<>>
    /\ job' = [job EXCEPT ![w] = Head(task_queue_)]
    /\ worker' = [worker EXCEPT ![w] =
                    IF Head(task_queue_) = Consume THEN "loop" ELSE "run"]
    /\ UNCHANGED <<scheduler, ready, buffer, running_, consumer, callers, owner,
                   history>>

WorkerTakes(w) ==
    /\ worker[w] = "lock"
    /\ task_queue_ # <<>>
    /\ job' = [job EXCEPT ![w] = Head(task_queue_)]
    /\ task_queue_' = Tail(task_queue_)
    /\ worker' = [worker EXCEPT ![w] =
                    IF Head(task_queue_) = Consume THEN "loop" ELSE "run"]
    /\ UNCHANGED <<stop_, ready, buffer, running_, consumer, callers, owner,
                   history>>

\* The task returns: its promise is set and the worker goes back to its loop.
\* `now` is worker with what the task's notification has changed.
Returns(w, now) ==
    /\ ready' = ready \cup {job[w]}
    /\ job' = [job EXCEPT ![w] = NoJob]
    /\ worker' = [now EXCEPT ![w] = "top"]

SpuriousWakeup(w) ==
    /\ \/ worker[w] = "asleep" /\ worker' = [worker EXCEPT ![w] = "lock"]
       \/ /\ worker[w] \in {"write_wait", "read_wait"}
          /\ worker' = [worker EXCEPT ![w] = "run"]
    /\ UNCHANGED <<scheduler, job, ready, buffer, running_, consumer, callers,
                   owner, history>>

-----------------------------------------------------------------------------
(* AsyncBuffer *)

\* Mutant of HasRoom: the message's own size is forgotten.
HasAnyRoom(m) == write_pos_ < Capacity

HasRoom(m) == write_pos_ + m.len <= Capacity

RunsPush(w) == worker[w] = "run" /\ job[w].kind = "push"

PushWaits(w) ==
    /\ RunsPush(w)
    /\ ~HasRoom(job[w].message) /\ buffer_running_
    /\ worker' = [worker EXCEPT ![w] = "write_wait"]
    /\ UNCHANGED <<scheduler, job, ready, buffer, running_, consumer, callers,
                   owner, history>>

\* The buffer was stopped: the task returns and the message is gone.
PushDrops(w) ==
    /\ RunsPush(w)
    /\ ~buffer_running_
    /\ Returns(w, worker)
    /\ UNCHANGED <<scheduler, buffer, running_, consumer, callers, owner, history>>

Copies(m) ==
    /\ buffer_' = Append(buffer_, m)
    /\ starts' = Append(starts, write_pos_)
    /\ write_pos_' = write_pos_ + m.len
    /\ written' = Append(written, m)

\* Mutant of PushWrites: the readers are not notified.
WritesSilently(w) ==
    /\ RunsPush(w)
    /\ HasRoom(job[w].message) /\ buffer_running_
    /\ Copies(job[w].message)
    /\ Returns(w, worker)
    /\ UNCHANGED <<scheduler, buffer_running_, running_, consumer, callers, owner,
                   handed, delivered>>

\* The message fits, so the resize that follows the wait never happens.
PushWrites(w) ==
    /\ RunsPush(w)
    /\ HasRoom(job[w].message) /\ buffer_running_
    /\ Copies(job[w].message)
    /\ \E now \in NotifyOne(worker, "read_wait", "run") : Returns(w, now)
    /\ UNCHANGED <<scheduler, buffer_running_, running_, consumer, callers, owner,
                   handed, delivered>>

RunsPop(w) == worker[w] = "run" /\ job[w].kind = "pop"

PopWaits(w) ==
    /\ RunsPop(w)
    /\ write_pos_ = 0 /\ buffer_running_
    /\ worker' = [worker EXCEPT ![w] = "read_wait"]
    /\ UNCHANGED <<scheduler, job, ready, buffer, running_, consumer, callers,
                   owner, history>>

\* Reads everything, since reset_buffer leaves read_pos_ at 0; a stopped and
\* empty buffer gives the empty string, without a notification.
PopReads(w) ==
    /\ RunsPop(w)
    /\ write_pos_ # 0 \/ ~buffer_running_
    /\ data' = buffer_
    /\ handed' = handed \o buffer_
    /\ buffer_' = <<>> /\ starts' = <<>>
    /\ write_pos_' = 0
    /\ IF write_pos_ = 0 THEN Returns(w, worker)
       ELSE \E now \in NotifyOne(worker, "write_wait", "run") : Returns(w, now)
    /\ UNCHANGED <<scheduler, buffer_running_, running_, pops, issued, callers,
                   owner, written, delivered>>

-----------------------------------------------------------------------------
(* The consumer task and the flush tasks *)

ConsumerPops(w) ==
    /\ worker[w] = "loop"
    /\ running_
    /\ pops' = pops + 1
    /\ Queue(Pop(pops'), [worker EXCEPT ![w] = "get"])
    /\ UNCHANGED <<stop_, job, ready, buffer, running_, data, issued, callers,
                   owner, history>>

ConsumerEnds(w) ==
    /\ worker[w] = "loop"
    /\ ~running_
    /\ Returns(w, worker)
    /\ UNCHANGED <<scheduler, buffer, running_, consumer, callers, owner, history>>

ConsumerGets(w) ==
    /\ worker[w] = "get"
    /\ Pop(pops) \in ready
    /\ issued' = 0
    /\ worker' = [worker EXCEPT ![w] = IF data = <<>> THEN "loop" ELSE "flush"]
    /\ UNCHANGED <<scheduler, job, ready, buffer, running_, pops, data, callers,
                   owner, history>>

\* Mutant of ConsumerFlushes: one output too many.
FlushesOnceMore(w) ==
    /\ worker[w] = "flush"
    /\ issued <= Flushers
    /\ issued' = issued + 1
    /\ Queue(Flush(pops, issued'), worker)
    /\ UNCHANGED <<stop_, job, ready, buffer, running_, pops, data, callers, owner,
                   history>>

ConsumerFlushes(w) ==
    /\ worker[w] = "flush"
    /\ issued < Flushers
    /\ issued' = issued + 1
    /\ Queue(Flush(pops, issued'), worker)
    /\ UNCHANGED <<stop_, job, ready, buffer, running_, pops, data, callers, owner,
                   history>>

\* Mutant of ConsumerWaits: only the first flush is waited for.
WaitsForOne(w) ==
    /\ worker[w] = "flush"
    /\ issued = Flushers
    /\ Flush(pops, 1) \in ready
    /\ worker' = [worker EXCEPT ![w] = "loop"]
    /\ UNCHANGED <<scheduler, job, ready, buffer, running_, consumer, callers,
                   owner, history>>

ConsumerWaits(w) ==
    /\ worker[w] = "flush"
    /\ issued = Flushers
    /\ \A f \in 1..Flushers : Flush(pops, f) \in ready
    /\ worker' = [worker EXCEPT ![w] = "loop"]
    /\ UNCHANGED <<scheduler, job, ready, buffer, running_, consumer, callers,
                   owner, history>>

\* flusher(data): the batch the task captured is the one the consumer waits
\* with, so it is not copied into the task here.
FlushRuns(w) ==
    /\ worker[w] = "run" /\ job[w].kind = "flush"
    /\ delivered' = [delivered EXCEPT ![job[w].to] = @ \o data]
    /\ Returns(w, worker)
    /\ UNCHANGED <<scheduler, buffer, running_, consumer, callers, owner, written,
                   handed>>

Worker(w) ==
    \/ WorkerTestsStop(w) \/ WorkerWaits(w) \/ WorkerBreaks(w) \/ WorkerTakes(w)
    \/ PushWaits(w) \/ PushDrops(w) \/ PushWrites(w)
    \/ PopWaits(w) \/ PopReads(w)
    \/ ConsumerPops(w) \/ ConsumerEnds(w) \/ ConsumerGets(w)
    \/ ConsumerFlushes(w) \/ ConsumerWaits(w) \/ FlushRuns(w)

-----------------------------------------------------------------------------
(* log_async: running_ is tested, the message formatted, the push queued. *)

LogBegins(c, len) ==
    /\ caller[c] = NoJob /\ logged[c] < MaxLogs
    /\ running_
    /\ logged' = [logged EXCEPT ![c] = @ + 1]
    /\ caller' = [caller EXCEPT ![c] =
                    Push([by |-> c, no |-> logged'[c], len |-> len])]
    /\ UNCHANGED <<scheduler, threads, buffer, running_, consumer, owner, history>>

LogQueues(c) ==
    /\ caller[c] # NoJob
    /\ Queue(caller[c], worker)
    /\ caller' = [caller EXCEPT ![c] = NoJob]
    /\ UNCHANGED <<stop_, job, ready, buffer, running_, consumer, logged, owner,
                   history>>

-----------------------------------------------------------------------------
(* CoroutineLogManager::shutdown: the logger's stop(), then the scheduler's. *)

StopLogger ==
    /\ owner = "running"
    /\ running_' = FALSE
    /\ owner' = "buffer"
    /\ UNCHANGED <<scheduler, threads, buffer, consumer, callers, history>>

StopBuffer ==
    /\ owner = "buffer"
    /\ buffer_running_' = FALSE
    /\ worker' = NotifyAll({"write_wait", "read_wait"}, "run")
    /\ owner' = "scheduler"
    /\ UNCHANGED <<scheduler, job, ready, content, running_, consumer, callers,
                   history>>

\* Mutant of StopScheduler: the sleeping workers are not notified.
StopsSilently ==
    /\ owner = "scheduler"
    /\ stop_' = TRUE
    /\ owner' = "joining"
    /\ UNCHANGED <<task_queue_, threads, buffer, running_, consumer, callers,
                   history>>

StopScheduler ==
    /\ owner = "scheduler"
    /\ stop_' = TRUE
    /\ worker' = NotifyAll({"asleep"}, "lock")
    /\ owner' = "joining"
    /\ UNCHANGED <<task_queue_, job, ready, buffer, running_, consumer, callers,
                   history>>

JoinWorkers ==
    /\ owner = "joining"
    /\ At("exited") = Workers
    /\ owner' = "joined"
    /\ UNCHANGED <<scheduler, threads, buffer, running_, consumer, callers, history>>

Next == \/ \E w \in Workers : Worker(w) \/ SpuriousWakeup(w)
        \/ \E c \in Callers : LogQueues(c) \/ \E len \in Lens : LogBegins(c, len)
        \/ StopLogger \/ StopBuffer \/ StopScheduler \/ JoinWorkers

Spec == Init /\ [][Next]_vars

\* A thread that can run does, and one that keeps trying to lock a mutex gets
\* it.  A call that has begun ends, a shutdown that has begun goes on; logging,
\* shutting down and spurious wakeups are not promised.
Fairness ==
    /\ \A w \in Workers : SF_vars(Worker(w))
    /\ \A c \in Callers : WF_vars(LogQueues(c))
    /\ WF_vars(StopBuffer) /\ WF_vars(StopScheduler) /\ WF_vars(JoinWorkers)

FairSpec == Spec /\ Fairness

-----------------------------------------------------------------------------
(* Properties *)

Place == {"top", "lock", "asleep", "run", "write_wait", "read_wait", "loop", "get",
          "flush", "exited"}

Task == {Consume, NoJob} \cup {Push(m) : m \in Message}
            \cup {Pop(n) : n \in 1..pops}
            \cup {Flush(n, f) : n \in 1..pops, f \in 1..Flushers}

\* Every variable keeps its type.
TypeOK ==
    /\ task_queue_ \in Seq(Task)
    /\ stop_ \in BOOLEAN /\ buffer_running_ \in BOOLEAN /\ running_ \in BOOLEAN
    /\ worker \in [Workers -> Place]
    /\ job \in [Workers -> Task]
    /\ ready \subseteq Task
    /\ buffer_ \in Batch /\ starts \in Seq(Nat) /\ write_pos_ \in Nat
    /\ data \in Batch /\ written \in Batch /\ handed \in Batch
    /\ pops \in Nat
    /\ issued \in 0..Flushers
    /\ caller \in [Callers -> Task]
    /\ logged \in [Callers -> 0..MaxLogs]
    /\ owner \in {"running", "buffer", "scheduler", "joining", "joined"}
    /\ delivered \in [1..Flushers -> Batch]

\* What the pops returned, followed by what the buffer holds, is what the
\* pushes wrote, in order; each message begins where the one before it ends, and
\* the last ends at write_pos_, within the size the buffer was created with.
Conservation ==
    /\ handed \o buffer_ = written
    /\ Len(starts) = Len(buffer_)
    /\ \A i \in 1..Len(buffer_) :
         /\ i = 1 => starts[i] = 0
         /\ starts[i] + buffer_[i].len = IF i < Len(buffer_) THEN starts[i + 1] ELSE write_pos_
    /\ buffer_ = <<>> => write_pos_ = 0
    /\ write_pos_ <= Capacity

\* No output receives a batch twice, or a later batch before an earlier one,
\* although different workers run the flushes: each has been given all that was
\* popped, but for the last batch at most.
OutputsInOrder ==
    \A f \in 1..Flushers :
        delivered[f] = handed \/ delivered[f] \o data = handed

\* What a logger with several outputs promises: LogFanout, with the same
\* histories; what the pops hand over is what is taken.
Fanout == INSTANCE LogFanout
              WITH Receivers <- 1..Flushers, accepted <- written, taken <- handed

\* The flushes of a batch run on different workers, and still every batch is all
\* that was written, every output is given it once, and none is behind when the
\* next is popped.
Implements == Fanout!Spec

\* A push whose future is ready was written, unless the buffer was stopped.
ReadyMeansWritten ==
    \A m \in Message : Push(m) \in ready =>
        (\E i \in 1..Len(written) : written[i] = m) \/ ~buffer_running_

\* A task is queued, or held by one worker, or done, and never two of these: no
\* message is pushed and no batch flushed twice.
EachTaskOnce ==
    /\ \A i, j \in 1..Len(task_queue_) : task_queue_[i] = task_queue_[j] => i = j
    /\ \A v, w \in Workers : job[v] = job[w] => v = w \/ job[v] = NoJob
    /\ ToSet(task_queue_) \cap (ready \cup {job[w] : w \in Workers}) = {}
    /\ ready \cap {job[w] : w \in Workers} = {}

\* As long as a worker sleeps, each task in the queue has a worker on its way.
SleepersAreSpare ==
    At("asleep") # {} => ~stop_ /\ Len(task_queue_) <= Cardinality(At("lock"))

\* A pop waits only for an empty buffer.
ReaderHasNothing == At("read_wait") # {} => write_pos_ = 0 /\ buffer_running_

\* While a push waits there is something to pop, or a push that was woken and will
\* write, unless there are messages that never fit.
WriterHasHope ==
    At("write_wait") # {} /\ (\A len \in Lens : len <= Capacity) =>
        buffer_running_ /\ (write_pos_ # 0 \/ \E w \in Workers : RunsPush(w))

\* Nobody sleeps through the notification that was for him, although notify_one
\* wakes one and several wait, and a stop comes at any time.
NoMissedWakeup == SleepersAreSpare /\ ReaderHasNothing /\ WriterHasHope

\* Every worker but the consumer's waits for room in the buffer: the pop that
\* would make room finds no worker.
Jammed == Cardinality(At("write_wait")) >= Cardinality(Workers) - 1

\* A jam is the only thing that keeps a written message from all the outputs
\* while the logger runs, if every message fits into the empty buffer and there
\* are at least three workers.
WrittenIsDelivered ==
    \A m \in Message :
        (\E i \in 1..Len(written) : written[i] = m)
            ~> \/ \A f \in 1..Flushers : \E i \in 1..Len(delivered[f]) : delivered[f][i] = m
               \/ Jammed \/ ~running_

\* The consumer waits for a pop or a flush, and every other worker has left: the
\* task it waits for stays in the queue.
ConsumerOrphaned ==
    \E w \in Workers : worker[w] \in {"get", "flush"} /\ At("exited") = Workers \ {w}

\* shutdown() returns, whoever is waiting for the buffer and whatever is still
\* queued; the orphaned consumer is the only thing it can wait for in vain.
ShutdownReturns == owner # "running" ~> owner = "joined" \/ ConsumerOrphaned

\* coroutine_test.cpp:62-67: the program waits for the futures of all messages
\* and then prints that all are written.
FuturesGetReady ==
    \A m \in Message :
        Push(m) \in ToSet(task_queue_) ~> Push(m) \in ready \/ owner # "running"

=============================================================================
