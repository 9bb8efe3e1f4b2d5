------------------------------ MODULE ThreadPool ------------------------------
(***************************************************************************)
(* ThreadPool (log_codes/ThreadPool.hpp): a queue of tasks, a fixed set of *)
(* workers, one mutex and one condition variable.                          *)
(*                                                                         *)
(* Callers use it the way AsyncLogger::serialize does: enqueue a task,     *)
(* then block on its future.  A critical section of queue_mutex is one     *)
(* step; the notify after it is a step of its own, because the code        *)
(* notifies after it has unlocked.                                         *)
(***************************************************************************)
EXTENDS Naturals, Sequences, FiniteSets

CONSTANTS
    Workers,    \* the pool's threads
    Callers,    \* the threads that use the pool
    MaxCalls    \* bound: tasks each caller enqueues

ASSUME PoolAssumption == /\ IsFiniteSet(Workers) /\ Workers # {}
                         /\ MaxCalls \in Nat

\* The n-th task of caller c.
Task == Callers \X (1..MaxCalls)

NoTask == <<>>

VARIABLES
    tasks,      \* the queue
    stop,
    worker,     \* "lock", "waiting" (on condition), "run" or "returned"
    running,    \* the task a worker is running
    caller,     \* "idle", "notify" (accepted, before notify_one) or "get"
    calls,      \* how many tasks each caller has had accepted
    owner,      \* the destructor: "none", "notify", "joining", "joined"
    done,       \* the tasks whose future is ready
    accepted,   \* history: the tasks in the order they were queued
    started     \* history: the tasks in the order they were taken

vars == <<tasks, stop, worker, running, caller, calls, owner, done,
          accepted, started>>

Init ==
    /\ tasks = <<>>
    /\ stop = FALSE
    /\ worker = [w \in Workers |-> "lock"]
    /\ running = [w \in Workers |-> NoTask]
    /\ caller = [c \in Callers |-> "idle"]
    /\ calls = [c \in Callers |-> 0]
    /\ owner = "none"
    /\ done = {}
    /\ accepted = <<>>
    /\ started = <<>>

-----------------------------------------------------------------------------
(* enqueue, then get() on the future *)

LastTask(c) == <<c, calls[c]>>

Enqueue(c) ==
    /\ caller[c] = "idle" /\ calls[c] < MaxCalls
    /\ ~stop
    /\ calls' = [calls EXCEPT ![c] = @ + 1]
    /\ tasks' = Append(tasks, LastTask(c)')
    /\ accepted' = Append(accepted, LastTask(c)')
    /\ caller' = [caller EXCEPT ![c] = "notify"]
    /\ UNCHANGED <<stop, worker, running, owner, done, started>>

\* enqueue on a stopped pool throws: the caller goes on without a task.
EnqueueThrows(c) ==
    /\ caller[c] = "idle" /\ calls[c] < MaxCalls
    /\ stop
    /\ caller' = [caller EXCEPT ![c] = "refused"]
    /\ UNCHANGED <<tasks, stop, worker, running, calls, owner, done, accepted,
                   started>>

Waiting == {w \in Workers : worker[w] = "waiting"}

\* Mutant of NotifyOne: the notification is dropped.
NotifyDropped(c) ==
    /\ caller[c] = "notify"
    /\ caller' = [caller EXCEPT ![c] = "get"]
    /\ UNCHANGED <<tasks, stop, worker, running, calls, owner, done, accepted,
                   started>>

NotifyOne(c) ==
    /\ caller[c] = "notify"
    /\ IF Waiting = {}
       THEN worker' = worker
       ELSE \E w \in Waiting : worker' = [worker EXCEPT ![w] = "lock"]
    /\ caller' = [caller EXCEPT ![c] = "get"]
    /\ UNCHANGED <<tasks, stop, running, calls, owner, done, accepted, started>>

GetReturns(c) ==
    /\ caller[c] = "get"
    /\ LastTask(c) \in done
    /\ caller' = [caller EXCEPT ![c] = "idle"]
    /\ UNCHANGED <<tasks, stop, worker, running, calls, owner, done, accepted,
                   started>>

-----------------------------------------------------------------------------
(* The body of a pool thread *)

WorkerWaits(w) ==
    /\ worker[w] = "lock"
    /\ ~stop /\ tasks = <<>>
    /\ worker' = [worker EXCEPT ![w] = "waiting"]
    /\ UNCHANGED <<tasks, stop, running, caller, calls, owner, done, accepted,
                   started>>

\* A wait on a condition variable may end without a notification.
SpuriousWakeup(w) ==
    /\ worker[w] = "waiting"
    /\ worker' = [worker EXCEPT ![w] = "lock"]
    /\ UNCHANGED <<tasks, stop, running, caller, calls, owner, done, accepted,
                   started>>

\* Mutant of WorkerReturns: leaves on stop without draining the queue.
ReturnsOnStop(w) ==
    /\ worker[w] = "lock"
    /\ stop
    /\ worker' = [worker EXCEPT ![w] = "returned"]
    /\ UNCHANGED <<tasks, stop, running, caller, calls, owner, done, accepted,
                   started>>

WorkerReturns(w) ==
    /\ worker[w] = "lock"
    /\ stop /\ tasks = <<>>
    /\ worker' = [worker EXCEPT ![w] = "returned"]
    /\ UNCHANGED <<tasks, stop, running, caller, calls, owner, done, accepted,
                   started>>

\* Mutant of WorkerTakes: front() without pop().
TakesWithoutPop(w) ==
    /\ worker[w] = "lock"
    /\ tasks # <<>>
    /\ running' = [running EXCEPT ![w] = Head(tasks)]
    /\ started' = Append(started, Head(tasks))
    /\ worker' = [worker EXCEPT ![w] = "run"]
    /\ UNCHANGED <<tasks, stop, caller, calls, owner, done, accepted>>

WorkerTakes(w) ==
    /\ worker[w] = "lock"
    /\ tasks # <<>>
    /\ running' = [running EXCEPT ![w] = Head(tasks)]
    /\ started' = Append(started, Head(tasks))
    /\ tasks' = Tail(tasks)
    /\ worker' = [worker EXCEPT ![w] = "run"]
    /\ UNCHANGED <<stop, caller, calls, owner, done, accepted>>

\* Mutant of WorkerRuns: the loop is not re-entered at its top.
RunsAndStays(w) ==
    /\ worker[w] = "run"
    /\ done' = done \cup {running[w]}
    /\ running' = [running EXCEPT ![w] = NoTask]
    /\ UNCHANGED <<tasks, stop, worker, caller, calls, owner, accepted, started>>

\* task(): the packaged_task stores its result, or its exception, in the future.
WorkerRuns(w) ==
    /\ worker[w] = "run"
    /\ done' = done \cup {running[w]}
    /\ running' = [running EXCEPT ![w] = NoTask]
    /\ worker' = [worker EXCEPT ![w] = "lock"]
    /\ UNCHANGED <<tasks, stop, caller, calls, owner, accepted, started>>

Worker(w) == \/ WorkerWaits(w) \/ WorkerReturns(w)
             \/ WorkerTakes(w) \/ WorkerRuns(w)

-----------------------------------------------------------------------------
(* The destructor *)

SetStop ==
    /\ owner = "none"
    /\ stop' = TRUE
    /\ owner' = "notify"
    /\ UNCHANGED <<tasks, worker, running, caller, calls, done, accepted, started>>

\* Mutant of NotifyAll: notify_one instead of notify_all.
NotifiesOneOnly ==
    /\ owner = "notify"
    /\ IF Waiting = {}
       THEN worker' = worker
       ELSE \E w \in Waiting : worker' = [worker EXCEPT ![w] = "lock"]
    /\ owner' = "joining"
    /\ UNCHANGED <<tasks, stop, running, caller, calls, done, accepted, started>>

NotifyAll ==
    /\ owner = "notify"
    /\ worker' = [w \in Workers |-> IF worker[w] = "waiting" THEN "lock"
                                    ELSE worker[w]]
    /\ owner' = "joining"
    /\ UNCHANGED <<tasks, stop, running, caller, calls, done, accepted, started>>

JoinAll ==
    /\ owner = "joining"
    /\ \A w \in Workers : worker[w] = "returned"
    /\ owner' = "joined"
    /\ UNCHANGED <<tasks, stop, worker, running, caller, calls, done, accepted,
                   started>>

Next == \/ \E c \in Callers : \/ Enqueue(c) \/ EnqueueThrows(c)
                              \/ NotifyOne(c) \/ GetReturns(c)
        \/ \E w \in Workers : Worker(w) \/ SpuriousWakeup(w)
        \/ SetStop \/ NotifyAll \/ JoinAll

Spec == Init /\ [][Next]_vars

\* A thread that is not blocked runs on, and one that keeps trying to lock
\* queue_mutex gets it.  Enqueueing and destroying the pool are the
\* program's choice, spurious wakeups the system's: no fairness.
Fairness ==
    /\ \A w \in Workers : SF_vars(Worker(w))
    /\ \A c \in Callers : WF_vars(NotifyOne(c)) /\ WF_vars(GetReturns(c))
    /\ WF_vars(NotifyAll) /\ WF_vars(JoinAll)

FairSpec == Spec /\ Fairness

-----------------------------------------------------------------------------
(* Properties *)

Elements(s) == {s[i] : i \in 1..Len(s)}

\* Every variable keeps its type.
TypeOK ==
    /\ tasks \in Seq(Task)
    /\ stop \in BOOLEAN
    /\ worker \in [Workers -> {"lock", "waiting", "run", "returned"}]
    /\ running \in [Workers -> Task \cup {NoTask}]
    /\ \A w \in Workers : worker[w] = "run" => running[w] \in Task
    /\ caller \in [Callers -> {"idle", "notify", "get", "refused"}]
    /\ calls \in [Callers -> 0..MaxCalls]
    /\ owner \in {"none", "notify", "joining", "joined"}
    /\ done \subseteq Task
    /\ accepted \in Seq(Task)
    /\ started \in Seq(Task)

\* Tasks leave the queue in the order they entered it, and none is dropped or
\* duplicated on the way.
Fifo == started \o tasks = accepted

\* A started task is either finished or in the hands of exactly one worker,
\* never both: no task runs twice.
RunOnce ==
    /\ Elements(started) = done \cup {running[w] : w \in {v \in Workers : worker[v] = "run"}}
    /\ \A w \in Workers :
        worker[w] = "run" =>
            /\ running[w] \notin done
            /\ \A v \in Workers \ {w} : worker[v] = "run" => running[v] # running[w]

\* Whenever a task is queued, some worker is awake or a notify_one is still to
\* come, although enqueue notifies after it has unlocked and one notification
\* wakes one worker.
NoMissedWakeup ==
    tasks # <<>> => \/ \E w \in Workers : worker[w] \in {"lock", "run"}
                    \/ \E c \in Callers : caller[c] = "notify"

\* Once the destructor has notified, no worker sleeps any more: the flag is set
\* under the mutex, so a worker cannot test it and then miss the notification.
NoSleeperAfterStop ==
    owner \in {"joining", "joined"} => Waiting = {}

\* The destructor returns only when every accepted task has run.
JoinDrains == owner = "joined" => done = Elements(accepted)

\* A caller blocked on a future gets its result, also when the pool is
\* destroyed meanwhile, and the destructor terminates.
CallsReturn ==
    /\ \A c \in Callers : caller[c] = "get" ~> caller[c] = "idle"
    /\ owner = "notify" ~> owner = "joined"

\* The pool implements TaskQueue, with its liveness.
Queue == INSTANCE TaskQueue WITH Width <- Cardinality(Workers),
                                 stopping <- stop,
                                 closed <- owner = "joined"

Implements == Queue!FairSpec

===============================================================================
