------------------------ MODULE CoroutineLogger_proofs ------------------------
(***************************************************************************)
(* Proofs about CoroutineLogger, for any workers, callers, outputs, lengths *)
(* of messages, size of the buffer and number of messages.                 *)
(***************************************************************************)
EXTENDS CoroutineLogger, SequenceTheorems, FiniteSetTheorems, TLAPS

\* A task that is still to be done, and one that is queued, held or done.
Queued(t)  == \E i \in 1..Len(task_queue_) : task_queue_[i] = t
Held(t)    == \E w \in Workers : job[w] = t
Pending(t) == Queued(t) \/ Held(t)
Exists(t)  == Pending(t) \/ t \in ready

\* A worker is where its task is: between tasks it has none, only the consumer
\* pops and flushes, and only pushes and pops wait for the buffer.
Fits(w) ==
    /\ worker[w] \in {"top", "lock", "asleep", "exited"} => job[w] = NoJob
    /\ worker[w] \in {"loop", "get", "flush"} => job[w] = Consume
    /\ worker[w] = "run" => job[w].kind \in {"push", "pop", "flush"}
    /\ worker[w] = "write_wait" => job[w].kind = "push"
    /\ worker[w] = "read_wait" => job[w].kind = "pop"
    /\ worker[w] \in {"get", "flush"} => pops # 0

\* A task is queued once, or held by one worker, or done; "no task" is none.
Once ==
    /\ \A i, j \in 1..Len(task_queue_) : task_queue_[i] = task_queue_[j] => i = j
    /\ \A v, w \in Workers : job[v] = job[w] => v = w \/ job[v] = NoJob
    /\ \A t : Queued(t) => ~Held(t) /\ t \notin ready /\ t # NoJob
    /\ \A w \in Workers : job[w] \notin ready
    /\ NoJob \notin ready

\* A caller holds the push of the message it logged last, which is queued later.
CallerHolds(c) ==
    caller[c] # NoJob =>
        /\ caller[c].kind = "push"
        /\ caller[c].message.by = c
        /\ caller[c].message.no = logged[c]

\* The messages of the pushes that exist were logged before.
Numbered(m) ==
    Exists(Push(m)) =>
        /\ m.no <= logged[m.by]
        /\ caller[m.by] # NoJob => m.no # logged[m.by]

ConsumerAt(place) == \E w \in Workers : worker[w] = place

\* The consumer waits for what it has queued: a pop that is still to be done is
\* the one it is waiting for, a flush one of those of the last batch.
Awaited ==
    /\ \A n \in Nat : Pending(Pop(n)) => n = pops /\ ConsumerAt("get")
    /\ \A n \in Nat, f \in 1..Flushers :
          /\ Pending(Flush(n, f)) => n = pops /\ ConsumerAt("flush")
          /\ Exists(Flush(n, f)) /\ ConsumerAt("get") => n < pops
          /\ Exists(Flush(n, f)) /\ ConsumerAt("flush") => n < pops \/ f <= issued

\* Output f has not been given the last batch.
Owed(f) ==
    \/ ConsumerAt("get") /\ Pop(pops) \in ready
    \/ ConsumerAt("flush") /\ Flush(pops, f) \notin ready

Settled(f) ==
    /\ Owed(f) => delivered[f] \o data = handed
    /\ ~Owed(f) => delivered[f] = handed

\* Every worker is where its task is.
TInv == TypeOK /\ \A w \in Workers : Fits(w)

\* Which tasks there are, and for whom.
Tasks == /\ Once
         /\ \A c \in Callers : CallerHolds(c)
         /\ \A m \in Message : Numbered(m)
         /\ Awaited

\* What the outputs have been given of what was handed over.
Flow == \A f \in 1..Flushers : Settled(f)

\* The inductive invariant of the theorems on the tasks and the outputs.
IInv == TInv /\ Tasks /\ Flow

-----------------------------------------------------------------------------
(* Tasks, sequences and notifications *)

LEMMA TaskKinds ==
    /\ Consume.kind = "consume" /\ NoJob.kind = "none"
    /\ \A m : Push(m).kind = "push" /\ Push(m).message = m
    /\ \A n : Pop(n).kind = "pop" /\ Pop(n).no = n
    /\ \A n, f : Flush(n, f).kind = "flush" /\ Flush(n, f).no = n /\ Flush(n, f).to = f
BY DEF Consume, NoJob, Push, Pop, Flush

\* A task is one of five, which its kind tells apart.
LEMMA TaskCases ==
    ASSUME NEW t \in Task
    PROVE  /\ t.kind \in {"consume", "none", "push", "pop", "flush"}
           /\ t.kind = "consume" => t = Consume
           /\ t.kind = "none" => t = NoJob
           /\ t.kind = "push" => t.message \in Message /\ t = Push(t.message)
           /\ t.kind = "pop" => t.no \in 1..pops /\ t = Pop(t.no)
           /\ t.kind = "flush" => /\ t.no \in 1..pops /\ t.to \in 1..Flushers
                                  /\ t = Flush(t.no, t.to)
<1>1. CASE t = Consume
  BY <1>1, TaskKinds
<1>2. CASE t = NoJob
  BY <1>2, TaskKinds
<1>3. ASSUME NEW m \in Message, t = Push(m)
      PROVE  t.kind = "push" /\ t.message = m
  BY <1>3, TaskKinds
<1>4. ASSUME NEW n \in 1..pops, t = Pop(n)
      PROVE  t.kind = "pop" /\ t.no = n
  BY <1>4, TaskKinds
<1>5. ASSUME NEW n \in 1..pops, NEW f \in 1..Flushers, t = Flush(n, f)
      PROVE  t.kind = "flush" /\ t.no = n /\ t.to = f
  BY <1>5, TaskKinds
<1>6. \/ t = Consume \/ t = NoJob \/ \E m \in Message : t = Push(m)
      \/ \E n \in 1..pops : t = Pop(n)
      \/ \E n \in 1..pops, f \in 1..Flushers : t = Flush(n, f)
  BY DEF Task
<1>. QED
  BY <1>1, <1>2, <1>3, <1>4, <1>5, <1>6

LEMMA TaskMembers ==
    /\ Consume \in Task /\ NoJob \in Task
    /\ \A m \in Message : Push(m) \in Task
    /\ \A n \in 1..pops : Pop(n) \in Task
    /\ \A n \in 1..pops, f \in 1..Flushers : Flush(n, f) \in Task
BY DEF Task

\* The tasks there can be only become more.
LEMMA TaskGrows ==
    ASSUME pops \in Nat, pops' \in Nat, pops <= pops'
    PROVE  Task \subseteq Task'
<1>1. 1..pops \subseteq 1..pops'
  OBVIOUS
<1>. QED
  BY <1>1 DEF Task

LEMMA AppendFacts ==
    ASSUME NEW S, NEW s \in Seq(S), NEW x \in S
    PROVE  /\ Append(s, x) \in Seq(S)
           /\ Len(s) \in Nat /\ Len(Append(s, x)) = Len(s) + 1
           /\ \A i \in 1..Len(s) : i \in 1..Len(Append(s, x)) /\ Append(s, x)[i] = s[i]
           /\ Append(s, x)[Len(s) + 1] = x
           /\ \A i \in 1..Len(Append(s, x)) : i \in 1..Len(s) \/ i = Len(s) + 1
BY AppendProperties, LenProperties

LEMMA TailFacts ==
    ASSUME NEW S, NEW s \in Seq(S), s # <<>>
    PROVE  /\ Tail(s) \in Seq(S) /\ Head(s) \in S
           /\ Len(s) \in Nat /\ 1 \in 1..Len(s) /\ Head(s) = s[1]
           /\ \A i \in 1..Len(Tail(s)) : i + 1 \in 1..Len(s) /\ i + 1 # 1 /\ Tail(s)[i] = s[i + 1]
           /\ \A i \in 1..Len(s) : i # 1 => i - 1 \in 1..Len(Tail(s)) /\ Tail(s)[i - 1] = s[i]
<1>1. Len(s) \in Nat \ {0}
  BY EmptySeq
<1>2. /\ Tail(s) \in Seq(S) /\ Head(s) \in S /\ Len(Tail(s)) = Len(s) - 1
      /\ \A i \in 1..Len(Tail(s)) : Tail(s)[i] = s[i + 1]
  BY HeadTailProperties
<1>3. Head(s) = s[1]
  OBVIOUS
<1>. QED
  BY <1>1, <1>2, <1>3

\* A notification moves workers that wait at place to next, and no other.
LEMMA NotifyFacts ==
    ASSUME NEW now \in [Workers -> Place], NEW place, NEW next \in Place,
           NEW x \in NotifyOne(now, place, next)
    PROVE  /\ x \in [Workers -> Place]
           /\ \A v \in Workers : x[v] = now[v] \/ (now[v] = place /\ x[v] = next)
<1>1. CASE x = now
  BY <1>1
<1>2. ASSUME NEW w \in Workers, now[w] = place, x = [now EXCEPT ![w] = next]
      PROVE  /\ x \in [Workers -> Place]
             /\ \A v \in Workers : x[v] = now[v] \/ (now[v] = place /\ x[v] = next)
  BY <1>2
<1>. QED
  BY <1>1, <1>2 DEF NotifyOne

-----------------------------------------------------------------------------
(* What a step does to the workers and to the tasks *)

\* A worker that the step does not move is at most woken.
Woken(v) ==
    \/ worker'[v] = worker[v]
    \/ worker[v] = "asleep" /\ worker'[v] = "lock"
    \/ worker[v] \in {"write_wait", "read_wait"} /\ worker'[v] = "run"

Moves(w, place) ==
    /\ worker' \in [Workers -> Place]
    /\ worker'[w] = place
    /\ \A v \in Workers \ {w} : Woken(v)

Wakes == worker' \in [Workers -> Place] /\ \A v \in Workers : Woken(v)

Queues(t) == task_queue_' = Append(task_queue_, t) /\ UNCHANGED <<job, ready>>

Takes(w) == /\ task_queue_ # <<>>
            /\ task_queue_' = Tail(task_queue_)
            /\ job' = [job EXCEPT ![w] = Head(task_queue_)]
            /\ UNCHANGED ready

Finishes(w) == /\ ready' = ready \cup {job[w]}
               /\ job' = [job EXCEPT ![w] = NoJob]
               /\ UNCHANGED task_queue_

NoTask == UNCHANGED <<task_queue_, job, ready>>

LEMMA MovesTo ==
    ASSUME worker \in [Workers -> Place], NEW w \in Workers, NEW place \in Place,
           worker' = [worker EXCEPT ![w] = place]
    PROVE  Moves(w, place)
BY DEF Moves, Woken

\* A worker that goes on to place and notifies one that waits.
LEMMA MovesAndNotifies ==
    ASSUME worker \in [Workers -> Place], NEW w \in Workers, NEW place \in Place,
           place # "asleep",
           worker' \in NotifyOne([worker EXCEPT ![w] = place], "asleep", "lock")
    PROVE  Moves(w, place)
<1>. DEFINE now == [worker EXCEPT ![w] = place]
<1>1. now \in [Workers -> Place] /\ now[w] = place /\ \A v \in Workers \ {w} : now[v] = worker[v]
  OBVIOUS
<1>2. "lock" \in Place
  BY DEF Place
<1>3. worker' \in NotifyOne(now, "asleep", "lock")
  OBVIOUS
<1>. HIDE DEF now
<1>4. /\ worker' \in [Workers -> Place]
      /\ \A v \in Workers : worker'[v] = now[v] \/ (now[v] = "asleep" /\ worker'[v] = "lock")
  BY <1>1, <1>2, <1>3, NotifyFacts
<1>. QED
  BY <1>1, <1>4 DEF Moves, Woken

\* A worker whose task has notified one that waits for the buffer goes back.
LEMMA ReturnsMove ==
    ASSUME worker \in [Workers -> Place], NEW w \in Workers, worker[w] = "run",
           NEW place \in {"read_wait", "write_wait"},
           NEW now \in NotifyOne(worker, place, "run"),
           worker' = [now EXCEPT ![w] = "top"]
    PROVE  Moves(w, "top")
<1>1. "run" \in Place /\ "top" \in Place
  BY DEF Place
<1>2. /\ now \in [Workers -> Place]
      /\ \A v \in Workers : now[v] = worker[v] \/ (worker[v] = place /\ now[v] = "run")
  BY <1>1, NotifyFacts
<1>. QED
  BY <1>1, <1>2 DEF Moves, Woken

LEMMA WakesOne ==
    ASSUME worker \in [Workers -> Place], worker' \in NotifyOne(worker, "asleep", "lock")
    PROVE  Wakes
<1>1. "lock" \in Place
  BY DEF Place
<1>2. /\ worker' \in [Workers -> Place]
      /\ \A v \in Workers : worker'[v] = worker[v] \/ (worker[v] = "asleep" /\ worker'[v] = "lock")
  BY <1>1, NotifyFacts
<1>. QED
  BY <1>2 DEF Wakes, Woken

\* Where a worker goes: for each of its steps, one line.
LEMMA WorkerMoves ==
    ASSUME TypeOK, NEW w \in Workers
    PROVE  /\ WorkerTestsStop(w) => Moves(w, "lock") \/ Moves(w, "exited")
           /\ WorkerWaits(w) => Moves(w, "asleep")
           /\ WorkerBreaks(w) => Moves(w, "exited")
           /\ WorkerTakes(w) => /\ Head(task_queue_) = Consume => Moves(w, "loop")
                                /\ Head(task_queue_) # Consume => Moves(w, "run")
           /\ SpuriousWakeup(w) => Wakes
           /\ PushWaits(w) => Moves(w, "write_wait")
           /\ PopWaits(w) => Moves(w, "read_wait")
           /\ PushDrops(w) \/ PushWrites(w) \/ PopReads(w) => Moves(w, "top")
           /\ ConsumerPops(w) => Moves(w, "get")
           /\ ConsumerEnds(w) => Moves(w, "top")
           /\ ConsumerGets(w) => /\ data = <<>> => Moves(w, "loop")
                                 /\ data # <<>> => Moves(w, "flush")
           /\ ConsumerFlushes(w) => Wakes
           /\ ConsumerWaits(w) => Moves(w, "loop")
           /\ FlushRuns(w) => Moves(w, "top")
<1>1. worker \in [Workers -> Place]
  BY DEF TypeOK
<1>2. {"top", "lock", "asleep", "run", "write_wait", "read_wait", "loop", "get", "flush",
       "exited"} \subseteq Place
  BY DEF Place
<1>3. ASSUME NEW place \in {"top", "lock", "asleep", "run", "write_wait", "read_wait", "loop",
                            "get", "flush", "exited"},
             worker' = [worker EXCEPT ![w] = place]
      PROVE  Moves(w, place)
  BY <1>1, <1>2, <1>3, MovesTo
<1>4. WorkerTestsStop(w) => Moves(w, "lock") \/ Moves(w, "exited")
  <2>1. WorkerTestsStop(w) => \/ worker' = [worker EXCEPT ![w] = "lock"]
                              \/ worker' = [worker EXCEPT ![w] = "exited"]
    BY Zenon DEF WorkerTestsStop
  <2>. QED
    BY <2>1, <1>3
<1>5. /\ WorkerWaits(w) => Moves(w, "asleep")
      /\ WorkerBreaks(w) => Moves(w, "exited")
      /\ PushWaits(w) => Moves(w, "write_wait")
      /\ PopWaits(w) => Moves(w, "read_wait")
      /\ PushDrops(w) => Moves(w, "top")
      /\ ConsumerEnds(w) => Moves(w, "top")
      /\ ConsumerWaits(w) => Moves(w, "loop")
      /\ FlushRuns(w) => Moves(w, "top")
  BY <1>3, Zenon DEF WorkerWaits, WorkerBreaks, PushWaits, PopWaits, PushDrops, ConsumerEnds,
        ConsumerWaits, FlushRuns, Returns
<1>6. WorkerTakes(w) => /\ Head(task_queue_) = Consume => Moves(w, "loop")
                        /\ Head(task_queue_) # Consume => Moves(w, "run")
  <2>1. WorkerTakes(w) => 
          /\ Head(task_queue_) = Consume => worker' = [worker EXCEPT ![w] = "loop"]
          /\ Head(task_queue_) # Consume => worker' = [worker EXCEPT ![w] = "run"]
    BY Zenon DEF WorkerTakes
  <2>. QED
    BY <2>1, <1>3
<1>7. ConsumerGets(w) => /\ data = <<>> => Moves(w, "loop")
                         /\ data # <<>> => Moves(w, "flush")
  <2>1. ConsumerGets(w) => 
          /\ data = <<>> => worker' = [worker EXCEPT ![w] = "loop"]
          /\ data # <<>> => worker' = [worker EXCEPT ![w] = "flush"]
    BY Zenon DEF ConsumerGets
  <2>. QED
    BY <2>1, <1>3
<1>8. SpuriousWakeup(w) => Wakes
  <2>1. SpuriousWakeup(w) =>
          \/ worker[w] = "asleep" /\ worker' = [worker EXCEPT ![w] = "lock"]
          \/ worker[w] \in {"write_wait", "read_wait"} /\ worker' = [worker EXCEPT ![w] = "run"]
    BY Zenon DEF SpuriousWakeup
  <2>. QED
    BY <2>1, <1>1, <1>2 DEF Wakes, Woken
<1>9. PushWrites(w) => Moves(w, "top")
  <2>1. PushWrites(w) => /\ worker[w] = "run"
                         /\ \E now \in NotifyOne(worker, "read_wait", "run") :
                               worker' = [now EXCEPT ![w] = "top"]
    BY Zenon DEF PushWrites, RunsPush, Returns
  <2>. QED
    BY <2>1, <1>1, ReturnsMove
<1>10. PopReads(w) => Moves(w, "top")
  <2>1. PopReads(w) => /\ worker[w] = "run"
                       /\ \/ worker' = [worker EXCEPT ![w] = "top"]
                          \/ \E now \in NotifyOne(worker, "write_wait", "run") :
                               worker' = [now EXCEPT ![w] = "top"]
    BY Zenon DEF PopReads, RunsPop, Returns
  <2>. QED
    BY <2>1, <1>1, <1>3, ReturnsMove
<1>11. ConsumerPops(w) => Moves(w, "get")
  BY <1>1, <1>2, MovesAndNotifies DEF ConsumerPops, Queue
<1>12. ConsumerFlushes(w) => Wakes
  BY <1>1, WakesOne DEF ConsumerFlushes, Queue
<1>. QED
  BY <1>4, <1>5, <1>6, <1>7, <1>8, <1>9, <1>10, <1>11, <1>12

\* The steps of the others wake workers, and move none.
LEMMA OthersWake ==
    ASSUME TypeOK
    PROVE  /\ \A c \in Callers : LogQueues(c) => Wakes
           /\ \A c \in Callers, len \in Lens : LogBegins(c, len) => Wakes
           /\ StopLogger \/ StopBuffer \/ StopScheduler \/ JoinWorkers => Wakes
           /\ UNCHANGED vars => Wakes
<1>1. worker \in [Workers -> Place]
  BY DEF TypeOK
<1>2. worker' = worker => Wakes
  BY <1>1 DEF Wakes, Woken
<1>3. /\ \A c \in Callers, len \in Lens : LogBegins(c, len) => worker' = worker
      /\ StopLogger \/ JoinWorkers => worker' = worker
      /\ UNCHANGED vars => worker' = worker
  BY Zenon DEF LogBegins, StopLogger, JoinWorkers, vars, threads
<1>4. \A c \in Callers : LogQueues(c) => Wakes
  BY <1>1, WakesOne DEF LogQueues, Queue
<1>5. "run" \in Place /\ "lock" \in Place
  BY DEF Place
<1>6. StopBuffer => Wakes
  BY <1>1, <1>5 DEF StopBuffer, NotifyAll, Wakes, Woken
<1>7. StopScheduler => Wakes
  BY <1>1, <1>5 DEF StopScheduler, NotifyAll, Wakes, Woken
<1>. QED
  BY <1>2, <1>3, <1>4, <1>6, <1>7

\* What becomes of the tasks: the consumer and the callers queue them, a worker
\* takes one and finishes it, every other step leaves them alone.
LEMMA Effects ==
    ASSUME NEW w \in Workers
    PROVE  /\ \/ WorkerTestsStop(w) \/ WorkerWaits(w) \/ WorkerBreaks(w)
              \/ SpuriousWakeup(w) \/ PushWaits(w) \/ PopWaits(w)
              \/ ConsumerGets(w) \/ ConsumerWaits(w)
              => NoTask
           /\ WorkerTakes(w) => Takes(w)
           /\ \/ PushDrops(w) \/ PushWrites(w) \/ PopReads(w) \/ ConsumerEnds(w)
              \/ FlushRuns(w)
              => Finishes(w)
           /\ ConsumerPops(w) => Queues(Pop(pops + 1)) /\ pops' = pops + 1
           /\ ConsumerFlushes(w) => Queues(Flush(pops, issued + 1)) /\ issued' = issued + 1
<1>1. \/ WorkerTestsStop(w) \/ WorkerWaits(w) \/ WorkerBreaks(w)
      \/ SpuriousWakeup(w) \/ PushWaits(w) \/ PopWaits(w)
      \/ ConsumerGets(w) \/ ConsumerWaits(w)
      => task_queue_' = task_queue_ /\ job' = job /\ ready' = ready
  BY Zenon DEF WorkerTestsStop, WorkerWaits, WorkerBreaks, SpuriousWakeup, PushWaits, PopWaits,
        ConsumerGets, ConsumerWaits, scheduler
<1>2. WorkerTakes(w) => Takes(w)
  BY Zenon DEF WorkerTakes, Takes
<1>3. \/ PushDrops(w) \/ PushWrites(w) \/ PopReads(w) \/ ConsumerEnds(w)
      \/ FlushRuns(w)
      => /\ ready' = ready \cup {job[w]}
         /\ job' = [job EXCEPT ![w] = NoJob]
         /\ task_queue_' = task_queue_
  BY Zenon DEF PushDrops, PushWrites, PopReads, ConsumerEnds, FlushRuns, Returns, scheduler
<1>4. ConsumerPops(w) => Queues(Pop(pops + 1)) /\ pops' = pops + 1
  BY DEF ConsumerPops, Queue, Queues
<1>5. ConsumerFlushes(w) => Queues(Flush(pops, issued + 1)) /\ issued' = issued + 1
  BY DEF ConsumerFlushes, Queue, Queues
<1>. QED
  BY <1>1, <1>2, <1>3, <1>4, <1>5 DEF NoTask, Finishes

LEMMA OtherEffects ==
    /\ \A c \in Callers : LogQueues(c) => Queues(caller[c])
    /\ \A c \in Callers, len \in Lens : LogBegins(c, len) => NoTask
    /\ StopLogger \/ StopBuffer \/ StopScheduler \/ JoinWorkers => NoTask
    /\ UNCHANGED vars => NoTask
<1>1. \A c \in Callers : LogQueues(c) => Queues(caller[c])
  BY DEF LogQueues, Queue, Queues
<1>2. /\ \A c \in Callers, len \in Lens :
             LogBegins(c, len) => task_queue_' = task_queue_ /\ job' = job /\ ready' = ready
      /\ StopLogger \/ StopBuffer \/ StopScheduler \/ JoinWorkers
             => task_queue_' = task_queue_ /\ job' = job /\ ready' = ready
      /\ UNCHANGED vars => task_queue_' = task_queue_ /\ job' = job /\ ready' = ready
  BY Zenon DEF LogBegins, StopLogger, StopBuffer, StopScheduler, JoinWorkers, vars, scheduler, threads
<1>. QED
  BY <1>1, <1>2 DEF NoTask

\* Every step is one of these.
LEMMA StepCases ==
    ASSUME [Next]_vars
    PROVE  \/ \E w \in Workers : Worker(w) \/ SpuriousWakeup(w)
           \/ \E c \in Callers : LogQueues(c)
           \/ \E c \in Callers, len \in Lens : LogBegins(c, len)
           \/ StopLogger \/ StopBuffer \/ StopScheduler \/ JoinWorkers
           \/ UNCHANGED vars
BY Zenon DEF Next

\* Only these steps touch the buffer and what became of its messages, ...
LEMMA BufferSteps ==
    ASSUME [Next]_vars
    PROVE  \/ /\ buffer_' = buffer_ /\ starts' = starts /\ write_pos_' = write_pos_
              /\ data' = data
              /\ written' = written /\ handed' = handed /\ delivered' = delivered
           \/ \E w \in Workers : PushWrites(w) \/ PopReads(w) \/ FlushRuns(w)
<1>. DEFINE Kept == /\ buffer_' = buffer_ /\ starts' = starts /\ write_pos_' = write_pos_
                    /\ data' = data
                    /\ written' = written /\ handed' = handed /\ delivered' = delivered
<1>1. ASSUME NEW w \in Workers, Worker(w) \/ SpuriousWakeup(w)
      PROVE  Kept \/ PushWrites(w) \/ PopReads(w) \/ FlushRuns(w)
  BY <1>1, Zenon DEF Worker, WorkerTestsStop, WorkerWaits, WorkerBreaks, WorkerTakes,
        SpuriousWakeup, PushWaits, PushDrops, PopWaits, ConsumerPops, ConsumerEnds, ConsumerGets,
        ConsumerFlushes, ConsumerWaits, buffer, content, consumer, history
<1>2. /\ \A c \in Callers : LogQueues(c) => Kept
      /\ \A c \in Callers, len \in Lens : LogBegins(c, len) => Kept
      /\ StopLogger \/ StopBuffer \/ StopScheduler \/ JoinWorkers \/ UNCHANGED vars => Kept
  BY Zenon DEF LogQueues, LogBegins, StopLogger, StopBuffer, StopScheduler, JoinWorkers, vars,
        buffer, content, consumer, history
<1>. QED
  BY <1>1, <1>2, StepCases, Zenon

\* ... only these the consumer's counts, ...
LEMMA ConsumerSteps ==
    ASSUME [Next]_vars
    PROVE  \/ pops' = pops /\ issued' = issued
           \/ \E w \in Workers : ConsumerPops(w) \/ ConsumerGets(w) \/ ConsumerFlushes(w)
<1>. DEFINE Kept == pops' = pops /\ issued' = issued
<1>1. ASSUME NEW w \in Workers, Worker(w) \/ SpuriousWakeup(w)
      PROVE  Kept \/ ConsumerPops(w) \/ ConsumerGets(w) \/ ConsumerFlushes(w)
  BY <1>1, Zenon DEF Worker, WorkerTestsStop, WorkerWaits, WorkerBreaks, WorkerTakes,
        SpuriousWakeup, PushWaits, PushDrops, PushWrites, PopWaits, PopReads, ConsumerEnds,
        ConsumerWaits, FlushRuns, consumer
<1>2. /\ \A c \in Callers : LogQueues(c) => Kept
      /\ \A c \in Callers, len \in Lens : LogBegins(c, len) => Kept
      /\ StopLogger \/ StopBuffer \/ StopScheduler \/ JoinWorkers \/ UNCHANGED vars => Kept
  BY Zenon DEF LogQueues, LogBegins, StopLogger, StopBuffer, StopScheduler, JoinWorkers, vars,
        consumer
<1>. QED
  BY <1>1, <1>2, StepCases, Zenon

\* ... only these the callers, ...
LEMMA CallerSteps ==
    ASSUME [Next]_vars
    PROVE  \/ caller' = caller /\ logged' = logged
           \/ \E c \in Callers : LogQueues(c) \/ \E len \in Lens : LogBegins(c, len)
<1>. DEFINE Kept == caller' = caller /\ logged' = logged
<1>1. ASSUME NEW w \in Workers, Worker(w) \/ SpuriousWakeup(w)
      PROVE  Kept
  BY <1>1, Zenon DEF Worker, WorkerTestsStop, WorkerWaits, WorkerBreaks, WorkerTakes,
        SpuriousWakeup, PushWaits, PushDrops, PushWrites, PopWaits, PopReads, ConsumerEnds,
        ConsumerPops, ConsumerGets, ConsumerFlushes, ConsumerWaits, FlushRuns, callers
<1>2. StopLogger \/ StopBuffer \/ StopScheduler \/ JoinWorkers \/ UNCHANGED vars => Kept
  BY Zenon DEF StopLogger, StopBuffer, StopScheduler, JoinWorkers, vars, callers
<1>. QED
  BY <1>1, <1>2, StepCases, Zenon

\* ... and only the shutdown its flags.
LEMMA OwnerSteps ==
    ASSUME [Next]_vars
    PROVE  \/ /\ stop_' = stop_ /\ buffer_running_' = buffer_running_
              /\ running_' = running_ /\ owner' = owner
           \/ StopLogger \/ StopBuffer \/ StopScheduler \/ JoinWorkers
<1>. DEFINE Kept == /\ stop_' = stop_ /\ buffer_running_' = buffer_running_
                    /\ running_' = running_ /\ owner' = owner
<1>1. ASSUME NEW w \in Workers, Worker(w) \/ SpuriousWakeup(w)
      PROVE  Kept
  BY <1>1, Zenon DEF Worker, WorkerTestsStop, WorkerWaits, WorkerBreaks, WorkerTakes,
        SpuriousWakeup, PushWaits, PushDrops, PushWrites, PopWaits, PopReads, ConsumerEnds,
        ConsumerPops, ConsumerGets, ConsumerFlushes, ConsumerWaits, FlushRuns, scheduler, buffer
<1>2. /\ \A c \in Callers : LogQueues(c) => Kept
      /\ \A c \in Callers, len \in Lens : LogBegins(c, len) => Kept
      /\ UNCHANGED vars => Kept
  BY Zenon DEF LogQueues, LogBegins, vars, scheduler, buffer
<1>. QED
  BY <1>1, <1>2, StepCases, Zenon

\* A step does one thing to the tasks.
LEMMA TaskSteps ==
    ASSUME [Next]_vars
    PROVE  \/ NoTask
           \/ \E w \in Workers : Takes(w) /\ WorkerTakes(w)
           \/ \E w \in Workers :
                 /\ Finishes(w)
                 /\ \/ PushDrops(w) \/ PushWrites(w) \/ PopReads(w) \/ ConsumerEnds(w)
                    \/ FlushRuns(w)
           \/ \E w \in Workers : Queues(Pop(pops + 1)) /\ ConsumerPops(w)
           \/ \E w \in Workers : Queues(Flush(pops, issued + 1)) /\ ConsumerFlushes(w)
           \/ \E c \in Callers : Queues(caller[c]) /\ LogQueues(c)
BY StepCases, Effects, OtherEffects, Zenon DEF Worker

-----------------------------------------------------------------------------
(* Type correctness *)

TasksTyped ==
    /\ pops \in Nat
    /\ task_queue_ \in Seq(Task)
    /\ job \in [Workers -> Task]
    /\ ready \subseteq Task
    /\ caller \in [Callers -> Task]
ContentTyped ==
    /\ buffer_ \in Batch /\ starts \in Seq(Nat) /\ write_pos_ \in Nat
    /\ data \in Batch /\ written \in Batch /\ handed \in Batch
    /\ delivered \in [1..Flushers -> Batch]
FlagsTyped ==
    /\ stop_ \in BOOLEAN /\ buffer_running_ \in BOOLEAN /\ running_ \in BOOLEAN
    /\ owner \in {"running", "buffer", "scheduler", "joining", "joined"}

LEMMA TypeParts ==
    TypeOK <=> /\ TasksTyped /\ ContentTyped /\ FlagsTyped
               /\ worker \in [Workers -> Place]
               /\ issued \in 0..Flushers
               /\ logged \in [Callers -> 0..MaxLogs]
BY Zenon DEF TypeOK, TasksTyped, ContentTyped, FlagsTyped

LEMMA WorkerTyped ==
    ASSUME TypeOK, [Next]_vars
    PROVE  worker' \in [Workers -> Place]
<1>1. ASSUME NEW w \in Workers, Worker(w) \/ SpuriousWakeup(w)
      PROVE  worker' \in [Workers -> Place]
  BY <1>1, WorkerMoves, Zenon DEF Worker, Moves, Wakes
<1>. QED
  BY <1>1, StepCases, OthersWake, Zenon DEF Wakes

LEMMA FlagsStay ==
    ASSUME TypeOK, [Next]_vars
    PROVE  FlagsTyped'
<1>1. FlagsTyped
  BY TypeParts
<1>2. CASE UNCHANGED <<stop_, buffer_running_, running_, owner>>
  BY <1>1, <1>2 DEF FlagsTyped
<1>3. CASE StopLogger
  BY <1>1, <1>3, Zenon DEF StopLogger, FlagsTyped, scheduler, buffer
<1>4. CASE StopBuffer
  BY <1>1, <1>4, Zenon DEF StopBuffer, FlagsTyped, scheduler
<1>5. CASE StopScheduler
  BY <1>1, <1>5, Zenon DEF StopScheduler, FlagsTyped, buffer
<1>6. CASE JoinWorkers
  BY <1>1, <1>6, Zenon DEF JoinWorkers, FlagsTyped, scheduler, buffer
<1>. QED
  BY <1>2, <1>3, <1>4, <1>5, <1>6, OwnerSteps

LEMMA CallersStay ==
    ASSUME TypeOK, [Next]_vars
    PROVE  caller' \in [Callers -> Task] /\ logged' \in [Callers -> 0..MaxLogs]
<1>1. /\ caller \in [Callers -> Task] /\ logged \in [Callers -> 0..MaxLogs]
      /\ NoJob \in Task
  BY TaskMembers DEF TypeOK
<1>2. CASE caller' = caller /\ logged' = logged
  BY <1>1, <1>2
<1>3. ASSUME NEW c \in Callers, LogQueues(c)
      PROVE  caller' \in [Callers -> Task] /\ logged' \in [Callers -> 0..MaxLogs]
  BY <1>1, <1>3 DEF LogQueues
<1>4. ASSUME NEW c \in Callers, NEW len \in Lens, LogBegins(c, len)
      PROVE  caller' \in [Callers -> Task] /\ logged' \in [Callers -> 0..MaxLogs]
  <2>. DEFINE m == [by |-> c, no |-> logged[c] + 1, len |-> len]
  <2>1. /\ logged[c] + 1 \in 1..MaxLogs
        /\ logged' = [logged EXCEPT ![c] = logged[c] + 1]
    BY <1>1, <1>4, SizesAssumption DEF LogBegins
  <2>2. logged'[c] = logged[c] + 1 /\ logged' \in [Callers -> 0..MaxLogs]
    BY <1>1, <2>1, SizesAssumption
  <2>3. m \in Message
    BY <2>1 DEF Message
  <2>4. caller' = [caller EXCEPT ![c] = Push(m)]
    BY <1>4, <2>2 DEF LogBegins
  <2>. HIDE DEF m
  <2>5. Push(m) \in Task
    BY <2>3, TaskMembers
  <2>. QED
    BY <1>1, <2>2, <2>4, <2>5
<1>. QED
  BY <1>2, <1>3, <1>4, CallerSteps

LEMMA CountsStay ==
    ASSUME TypeOK, [Next]_vars
    PROVE  /\ pops' \in Nat /\ pops <= pops'
           /\ issued' \in 0..Flushers
<1>1. pops \in Nat /\ issued \in 0..Flushers
  BY DEF TypeOK
<1>2. CASE pops' = pops /\ issued' = issued
  BY <1>1, <1>2
<1>3. ASSUME NEW w \in Workers, ConsumerPops(w)
      PROVE  pops' = pops + 1 /\ issued' = issued
  BY <1>3 DEF ConsumerPops
<1>4. ASSUME NEW w \in Workers, ConsumerGets(w)
      PROVE  pops' = pops /\ issued' = 0
  BY <1>4, Zenon DEF ConsumerGets
<1>5. ASSUME NEW w \in Workers, ConsumerFlushes(w)
      PROVE  pops' = pops /\ issued' = issued + 1 /\ issued < Flushers
  BY <1>5 DEF ConsumerFlushes
<1>. QED
  BY <1>1, <1>2, <1>3, <1>4, <1>5, ConsumerSteps, SizesAssumption

LEMMA TasksStay ==
    ASSUME TInv, [Next]_vars
    PROVE  TasksTyped'
<1>1. /\ pops \in Nat /\ task_queue_ \in Seq(Task) /\ job \in [Workers -> Task]
      /\ ready \subseteq Task /\ issued \in 0..Flushers
      /\ caller \in [Callers -> Task]
  BY DEF TInv, TypeOK
<1>2. pops' \in Nat /\ pops <= pops' /\ issued' \in 0..Flushers
  BY CountsStay DEF TInv
<1>3. Task \subseteq Task'
  BY <1>1, <1>2, TaskGrows
<1>4. task_queue_ \in Seq(Task')
  BY <1>1, <1>3, SeqMonotonic
<1>5. caller' \in [Callers -> Task']
  BY <1>3, CallersStay DEF TInv
<1>6. job \in [Workers -> Task'] /\ ready \subseteq Task'
  BY <1>1, <1>3
<1>7. CASE NoTask
  BY <1>2, <1>4, <1>5, <1>6, <1>7 DEF NoTask, TasksTyped
<1>8. ASSUME NEW w \in Workers, Takes(w)
      PROVE  TasksTyped'
  <2>1. Tail(task_queue_) \in Seq(Task') /\ Head(task_queue_) \in Task'
    BY <1>4, <1>8, TailFacts DEF Takes
  <2>. QED
    BY <1>2, <1>5, <1>6, <1>8, <2>1 DEF Takes, TasksTyped
<1>9. ASSUME NEW w \in Workers, Finishes(w)
      PROVE  TasksTyped'
  <2>1. job[w] \in Task' /\ NoJob \in Task'
    BY <1>3, <1>6, TaskMembers
  <2>. QED
    BY <1>2, <1>4, <1>5, <1>6, <1>9, <2>1 DEF Finishes, TasksTyped
<1>10. ASSUME NEW t \in Task', Queues(t)
       PROVE  TasksTyped'
  BY <1>2, <1>4, <1>5, <1>6, <1>10, AppendFacts DEF Queues, TasksTyped
<1>11. ASSUME NEW w \in Workers, ConsumerPops(w)
       PROVE  Pop(pops + 1) \in Task'
  <2>1. pops' = pops + 1
    BY <1>11, Effects
  <2>2. pops + 1 \in 1..pops'
    BY <1>1, <2>1
  <2>. QED
    BY <2>2 DEF Task
<1>12. ASSUME NEW w \in Workers, ConsumerFlushes(w)
       PROVE  Flush(pops, issued + 1) \in Task'
  <2>1. issued' = issued + 1 /\ pops' = pops /\ worker[w] = "flush"
    BY <1>12, Effects DEF ConsumerFlushes
  <2>2. pops # 0
    BY <2>1 DEF TInv, Fits
  <2>3. pops \in 1..pops' /\ issued + 1 \in 1..Flushers
    BY <1>1, <1>2, <2>1, <2>2, SizesAssumption
  <2>. QED
    BY <2>3 DEF Task
<1>13. ASSUME NEW c \in Callers
       PROVE  caller[c] \in Task'
  BY <1>1, <1>3
<1>. QED
  BY <1>7, <1>8, <1>9, <1>10, <1>11, <1>12, <1>13, TaskSteps

\* A message that is pushed.
LEMMA PushFacts ==
    ASSUME TypeOK, NEW w \in Workers, job[w].kind = "push"
    PROVE  /\ job[w] = Push(job[w].message) /\ job[w].message \in Message
           /\ job[w].message.len \in Nat /\ job[w].message.len # 0
<1>1. job[w] \in Task
  BY DEF TypeOK
<1>2. job[w].message \in Message /\ job[w] = Push(job[w].message)
  BY <1>1, TaskCases
<1>. QED
  BY <1>2, SizesAssumption DEF Message

\* A flush that a worker runs.
LEMMA FlushFacts ==
    ASSUME TypeOK, NEW w \in Workers, job[w].kind = "flush"
    PROVE  /\ job[w] = Flush(job[w].no, job[w].to)
           /\ job[w].no \in 1..pops /\ job[w].no \in Nat /\ job[w].to \in 1..Flushers
<1>1. job[w] \in Task /\ pops \in Nat
  BY DEF TypeOK
<1>. QED
  BY <1>1, TaskCases

\* A pop that a worker runs.
LEMMA PopFacts ==
    ASSUME TypeOK, NEW w \in Workers, job[w].kind = "pop"
    PROVE  job[w] = Pop(job[w].no) /\ job[w].no \in 1..pops /\ job[w].no \in Nat
<1>1. job[w] \in Task /\ pops \in Nat
  BY DEF TypeOK
<1>. QED
  BY <1>1, TaskCases

LEMMA ContentStays ==
    ASSUME TypeOK, [Next]_vars
    PROVE  ContentTyped'
<1>1. ContentTyped
  BY TypeParts
<1>2. CASE /\ buffer_' = buffer_ /\ starts' = starts /\ write_pos_' = write_pos_
           /\ data' = data
           /\ written' = written /\ handed' = handed /\ delivered' = delivered
  BY <1>1, <1>2 DEF ContentTyped
<1>3. ASSUME NEW w \in Workers, PushWrites(w)
      PROVE  ContentTyped'
  <2>1. /\ job[w].message \in Message /\ job[w].message.len \in Nat
        /\ buffer_' = Append(buffer_, job[w].message)
        /\ written' = Append(written, job[w].message)
        /\ starts' = Append(starts, write_pos_)
        /\ write_pos_' = write_pos_ + job[w].message.len
        /\ data' = data /\ handed' = handed /\ delivered' = delivered
    BY <1>3, PushFacts DEF PushWrites, RunsPush, Copies, consumer
  <2>2. buffer_' \in Batch /\ written' \in Batch /\ starts' \in Seq(Nat)
    BY <1>1, <2>1, AppendProperties DEF ContentTyped, Batch
  <2>3. write_pos_' \in Nat
    BY <1>1, <2>1 DEF ContentTyped
  <2>. QED
    BY <1>1, <2>1, <2>2, <2>3 DEF ContentTyped
<1>4. ASSUME NEW w \in Workers, PopReads(w)
      PROVE  ContentTyped'
  <2>1. /\ data' = buffer_ /\ handed' = handed \o buffer_
        /\ buffer_' = <<>> /\ starts' = <<>> /\ write_pos_' = 0
        /\ written' = written /\ delivered' = delivered
    BY <1>4, Zenon DEF PopReads
  <2>2. handed \o buffer_ \in Batch
    BY <1>1, ConcatProperties DEF ContentTyped, Batch
  <2>3. <<>> \in Batch /\ <<>> \in Seq(Nat)
    BY EmptySeq DEF Batch
  <2>. QED
    BY <1>1, <2>1, <2>2, <2>3 DEF ContentTyped
<1>5. ASSUME NEW w \in Workers, FlushRuns(w)
      PROVE  ContentTyped'
  <2>1. /\ buffer_' = buffer_ /\ starts' = starts /\ write_pos_' = write_pos_ /\ data' = data
        /\ written' = written /\ handed' = handed
        /\ delivered' = [delivered EXCEPT ![job[w].to] = delivered[job[w].to] \o data]
        /\ job[w].to \in 1..Flushers
    BY <1>5, FlushFacts DEF FlushRuns, buffer, content, consumer
  <2>2. delivered[job[w].to] \o data \in Batch
    BY <1>1, <2>1, ConcatProperties DEF ContentTyped, Batch
  <2>. QED
    BY <1>1, <2>1, <2>2 DEF ContentTyped
<1>. QED
  BY <1>2, <1>3, <1>4, <1>5, BufferSteps

LEMMA TypeStays ==
    ASSUME TInv, [Next]_vars
    PROVE  TypeOK'
<1>1. TypeOK
  BY DEF TInv
<1>2. /\ TasksTyped' /\ ContentTyped' /\ FlagsTyped'
      /\ worker' \in [Workers -> Place] /\ issued' \in 0..Flushers
      /\ logged' \in [Callers -> 0..MaxLogs]
  BY <1>1, TasksStay, ContentStays, FlagsStay, WorkerTyped, CountsStay, CallersStay
<1>. QED
  BY <1>2, Zenon DEF TypeOK, TasksTyped, ContentTyped, FlagsTyped

-----------------------------------------------------------------------------
(* Each worker is where its task is, and each task is somewhere once. *)

\* A worker that the step does not move keeps its task.
LEMMA FitsElsewhere ==
    ASSUME TInv, [Next]_vars, NEW v \in Workers, Woken(v), job'[v] = job[v]
    PROVE  Fits(v)'
<1>1. /\ Fits(v) /\ pops \in Nat /\ pops' \in Nat /\ pops <= pops'
      /\ worker[v] \in Place
  BY CountsStay DEF TInv, TypeOK
<1>2. pops # 0 => pops' # 0
  BY <1>1
<1>. QED
  BY <1>1, <1>2 DEF Fits, Woken, Place

\* A worker that moves fits where it goes, and the others still fit.
LEMMA FitsWhereItGoes ==
    ASSUME TInv, [Next]_vars, NEW w \in Workers, NEW place, Moves(w, place),
           \A v \in Workers \ {w} : job'[v] = job[v],
           /\ place \in {"top", "lock", "asleep", "exited"} => job'[w] = NoJob
           /\ place \in {"loop", "get", "flush"} => job'[w] = Consume
           /\ place = "run" => job'[w].kind \in {"push", "pop", "flush"}
           /\ place = "write_wait" => job'[w].kind = "push"
           /\ place = "read_wait" => job'[w].kind = "pop"
           /\ place \in {"get", "flush"} => pops' # 0
    PROVE  \A v \in Workers : Fits(v)'
<1>1. Fits(w)'
  BY DEF Fits, Moves
<1>2. ASSUME NEW v \in Workers \ {w}
      PROVE  Fits(v)'
  BY <1>2, FitsElsewhere DEF Moves
<1>. QED
  BY <1>1, <1>2

LEMMA FitsStay ==
    ASSUME TInv, Once, [Next]_vars
    PROVE  \A v \in Workers : Fits(v)'
<1>1. TypeOK /\ \A v \in Workers : Fits(v)
  BY DEF TInv
<1>2. /\ worker \in [Workers -> Place] /\ job \in [Workers -> Task]
      /\ task_queue_ \in Seq(Task)
  BY <1>1 DEF TypeOK
<1>3. pops \in Nat /\ pops' \in Nat /\ pops <= pops'
  BY <1>1, CountsStay DEF TypeOK
<1>4. ASSUME Wakes, NoTask \/ \E t : Queues(t)
      PROVE  \A v \in Workers : Fits(v)'
  BY <1>4, FitsElsewhere DEF Wakes, NoTask, Queues
<1>5. ASSUME NoTask \/ \E t : Queues(t)
      PROVE  job' = job
  BY <1>5 DEF NoTask, Queues
<1>6. ASSUME NEW w \in Workers, Finishes(w)
      PROVE  job'[w] = NoJob /\ \A v \in Workers \ {w} : job'[v] = job[v]
  BY <1>2, <1>6 DEF Finishes
<1>7. ASSUME NEW w \in Workers, WorkerTestsStop(w) \/ WorkerWaits(w) \/ WorkerBreaks(w)
      PROVE  \A v \in Workers : Fits(v)'
  <2>1. job' = job /\ job[w] = NoJob
    BY <1>1, <1>7, Effects DEF NoTask, Fits, WorkerTestsStop, WorkerWaits, WorkerBreaks
  <2>2. Moves(w, "lock") \/ Moves(w, "exited") \/ Moves(w, "asleep")
    BY <1>1, <1>7, WorkerMoves
  <2>. QED
    BY <2>1, <2>2, FitsWhereItGoes
<1>8. ASSUME NEW w \in Workers, WorkerTakes(w)
      PROVE  \A v \in Workers : Fits(v)'
  <2>1. Takes(w)
    BY <1>8, Effects
  <2>2. /\ Head(task_queue_) \in Task /\ Queued(Head(task_queue_))
        /\ job'[w] = Head(task_queue_) /\ \A v \in Workers \ {w} : job'[v] = job[v]
    BY <1>2, <2>1, TailFacts DEF Takes, Queued
  <2>3. Head(task_queue_) # NoJob
    BY <2>2 DEF Once
  <2>4. CASE Head(task_queue_) = Consume
    <3>1. Moves(w, "loop")
      BY <1>1, <1>8, <2>4, WorkerMoves
    <3>. QED
      BY <2>2, <2>4, <3>1, FitsWhereItGoes
  <2>5. CASE Head(task_queue_) # Consume
    <3>1. Moves(w, "run")
      BY <1>1, <1>8, <2>5, WorkerMoves
    <3>2. Head(task_queue_).kind \in {"push", "pop", "flush"}
      BY <2>2, <2>3, <2>5, TaskCases
    <3>. QED
      BY <2>2, <3>1, <3>2, FitsWhereItGoes
  <2>. QED
    BY <2>4, <2>5
<1>9. ASSUME NEW w \in Workers, PushWaits(w) \/ PopWaits(w)
      PROVE  \A v \in Workers : Fits(v)'
  <2>1. job' = job
    BY <1>9, Effects DEF NoTask
  <2>2. \/ Moves(w, "write_wait") /\ job[w].kind = "push"
        \/ Moves(w, "read_wait") /\ job[w].kind = "pop"
    BY <1>1, <1>9, WorkerMoves DEF PushWaits, PopWaits, RunsPush, RunsPop
  <2>. QED
    BY <2>1, <2>2, FitsWhereItGoes
<1>10. ASSUME NEW w \in Workers,
              \/ PushDrops(w) \/ PushWrites(w) \/ PopReads(w) \/ ConsumerEnds(w)
              \/ FlushRuns(w)
       PROVE  \A v \in Workers : Fits(v)'
  <2>1. Finishes(w) /\ Moves(w, "top")
    BY <1>1, <1>10, Effects, WorkerMoves
  <2>. QED
    BY <1>6, <2>1, FitsWhereItGoes
<1>11. ASSUME NEW w \in Workers, ConsumerPops(w)
       PROVE  \A v \in Workers : Fits(v)'
  <2>1. job' = job /\ Moves(w, "get") /\ pops' = pops + 1
    BY <1>1, <1>5, <1>11, Effects, WorkerMoves
  <2>2. job[w] = Consume /\ pops' # 0
    BY <1>1, <1>3, <1>11, <2>1 DEF Fits, ConsumerPops
  <2>. QED
    BY <2>1, <2>2, FitsWhereItGoes
<1>12. ASSUME NEW w \in Workers, ConsumerGets(w) \/ ConsumerWaits(w)
       PROVE  \A v \in Workers : Fits(v)'
  <2>1. job' = job /\ (Moves(w, "loop") \/ Moves(w, "flush"))
    BY <1>1, <1>12, Effects, WorkerMoves DEF NoTask
  <2>2. job[w] = Consume /\ pops # 0
    BY <1>1, <1>12 DEF Fits, ConsumerGets, ConsumerWaits
  <2>3. pops' # 0
    BY <1>3, <2>2
  <2>. QED
    BY <2>1, <2>2, <2>3, FitsWhereItGoes
<1>13. ASSUME NEW w \in Workers, ConsumerFlushes(w) \/ SpuriousWakeup(w)
       PROVE  \A v \in Workers : Fits(v)'
  BY <1>1, <1>4, <1>13, Effects, WorkerMoves
<1>14. ASSUME \/ \E c \in Callers : LogQueues(c) \/ \E len \in Lens : LogBegins(c, len)
              \/ StopLogger \/ StopBuffer \/ StopScheduler \/ JoinWorkers \/ UNCHANGED vars
       PROVE  \A v \in Workers : Fits(v)'
  BY <1>1, <1>4, <1>14, OthersWake, OtherEffects
<1>. QED
  BY <1>7, <1>8, <1>9, <1>10, <1>11, <1>12, <1>13, <1>14, StepCases, Zenon DEF Worker

\* A task that is queued, while there is none like it.
LEMMA OnceQueued ==
    ASSUME TInv, Once, NEW t \in Task', [Next]_vars, Queues(t), ~Exists(t), t # NoJob
    PROVE  Once'
<1>1. task_queue_ \in Seq(Task')
  <2>1. TypeOK /\ pops \in Nat /\ pops' \in Nat /\ pops <= pops' /\ task_queue_ \in Seq(Task)
    BY CountsStay DEF TInv, TypeOK
  <2>. QED
    BY <2>1, TaskGrows, SeqMonotonic
<1>2. task_queue_' = Append(task_queue_, t) /\ job' = job /\ ready' = ready
  BY DEF Queues
<1>3. /\ Len(task_queue_) \in Nat
      /\ \A i \in 1..Len(task_queue_) : i \in 1..Len(task_queue_') /\ task_queue_'[i] = task_queue_[i]
      /\ task_queue_'[Len(task_queue_) + 1] = t
      /\ \A i \in 1..Len(task_queue_') : i \in 1..Len(task_queue_) \/ i = Len(task_queue_) + 1
  BY <1>1, <1>2, AppendFacts
<1>4. /\ \A i \in 1..Len(task_queue_) : task_queue_[i] # t
      /\ ~Held(t) /\ t \notin ready
  BY DEF Exists, Pending, Queued
<1>5. \A i, j \in 1..Len(task_queue_') : task_queue_'[i] = task_queue_'[j] => i = j
  BY <1>3, <1>4 DEF Once
<1>6. \A x : Queued(x)' => Queued(x) \/ x = t
  BY <1>3 DEF Queued
<1>7. \A x : Held(x)' <=> Held(x)
  BY <1>2 DEF Held
<1>8. \A x : Queued(x)' => ~Held(x)' /\ x \notin ready' /\ x # NoJob
  BY <1>2, <1>4, <1>6, <1>7 DEF Once
<1>. QED
  BY <1>2, <1>5, <1>8, Zenon DEF Once

\* A task that is taken by a worker that has none.
LEMMA OnceTaken ==
    ASSUME TInv, Once, NEW w \in Workers, Takes(w), job[w] = NoJob
    PROVE  Once'
<1>. DEFINE t == task_queue_[1]
<1>1. task_queue_ \in Seq(Task) /\ job \in [Workers -> Task]
  BY DEF TInv, TypeOK
<1>2. /\ task_queue_ # <<>> /\ task_queue_' = Tail(task_queue_)
      /\ job' = [job EXCEPT ![w] = Head(task_queue_)] /\ ready' = ready
  BY DEF Takes
<1>3. /\ 1 \in 1..Len(task_queue_) /\ Head(task_queue_) = t
      /\ \A i \in 1..Len(task_queue_') : /\ i + 1 \in 1..Len(task_queue_) /\ i + 1 # 1
                                         /\ task_queue_'[i] = task_queue_[i + 1]
  BY <1>1, <1>2, TailFacts
<1>4. job'[w] = t /\ \A v \in Workers \ {w} : job'[v] = job[v]
  BY <1>1, <1>2, <1>3
<1>5. Queued(t)
  BY <1>3 DEF Queued
<1>6. ~Held(t) /\ t \notin ready /\ t # NoJob
  BY <1>5, Zenon DEF Once
<1>7. \A i, j \in 1..Len(task_queue_') : task_queue_'[i] = task_queue_'[j] => i = j
  <2>. SUFFICES ASSUME NEW i \in 1..Len(task_queue_'), NEW j \in 1..Len(task_queue_'),
                       task_queue_'[i] = task_queue_'[j]
                PROVE  i = j
    OBVIOUS
  <2>1. /\ i + 1 \in 1..Len(task_queue_) /\ j + 1 \in 1..Len(task_queue_)
        /\ task_queue_[i + 1] = task_queue_[j + 1]
    BY <1>3
  <2>2. i + 1 = j + 1
    BY <2>1 DEF Once
  <2>. QED
    BY <2>2
<1>8. \A x : Queued(x)' => Queued(x) /\ x # t
  BY <1>3 DEF Queued, Once
<1>9. \A x : Held(x)' => Held(x) \/ x = t
  BY <1>4 DEF Held
<1>10. \A v, u \in Workers : job'[v] = job'[u] => v = u \/ job'[v] = NoJob
  <2>1. \A v \in Workers : job[v] # t
    BY <1>6 DEF Held
  <2>. QED
    BY <1>4, <2>1 DEF Once
<1>11. \A v \in Workers : job'[v] \notin ready'
  BY <1>2, <1>4, <1>6 DEF Once
<1>12. \A x : Queued(x)' => ~Held(x)' /\ x \notin ready' /\ x # NoJob
  BY <1>2, <1>8, <1>9, Zenon DEF Once
<1>13. NoJob \notin ready'
  BY <1>2 DEF Once
<1>. QED
  BY <1>7, <1>10, <1>11, <1>12, <1>13, Zenon DEF Once

\* A task that its worker finishes.
LEMMA OnceFinished ==
    ASSUME TInv, Once, NEW w \in Workers, Finishes(w), job[w] # NoJob
    PROVE  Once' /\ \A x : x = job[w] => ~Pending(x)'
<1>. DEFINE t == job[w]
<1>1. job \in [Workers -> Task]
  BY DEF TInv, TypeOK
<1>2. task_queue_' = task_queue_ /\ ready' = ready \cup {t}
  BY DEF Finishes
<1>3. job'[w] = NoJob /\ \A v \in Workers \ {w} : job'[v] = job[v]
  BY <1>1 DEF Finishes
<1>4. \A v \in Workers \ {w} : job[v] # t
  BY DEF Once
<1>5. \A x : Queued(x)' <=> Queued(x)
  BY <1>2 DEF Queued
<1>6. ~Queued(t)
  BY DEF Once, Held
<1>7. \A x : Held(x)' => x = NoJob \/ (Held(x) /\ x # t)
  BY <1>3, <1>4 DEF Held
<1>8. \A v, u \in Workers : job'[v] = job'[u] => v = u \/ job'[v] = NoJob
  BY <1>3 DEF Once
<1>9. \A v \in Workers : job'[v] \notin ready'
  <2>1. \A v \in Workers : job[v] \notin ready /\ NoJob \notin ready
    BY DEF Once
  <2>. QED
    BY <1>2, <1>3, <1>4, <2>1
<1>10. \A x : Queued(x)' => ~Held(x)' /\ x \notin ready' /\ x # NoJob
  <2>. SUFFICES ASSUME NEW x, Queued(x)'
                PROVE  ~Held(x)' /\ x \notin ready' /\ x # NoJob
    OBVIOUS
  <2>1. Queued(x) /\ x # t
    BY <1>5, <1>6
  <2>2. ~Held(x) /\ x \notin ready /\ x # NoJob
    BY <2>1, Zenon DEF Once
  <2>. QED
    BY <1>2, <1>7, <2>1, <2>2
<1>11. NoJob \notin ready'
  BY <1>2 DEF Once
<1>12. Once'
  BY <1>2, <1>8, <1>9, <1>10, <1>11, Zenon DEF Once
<1>13. ASSUME NEW x, x = t
       PROVE  ~Pending(x)'
  BY <1>5, <1>6, <1>7, <1>13 DEF Pending
<1>. QED
  BY <1>12, <1>13

-----------------------------------------------------------------------------
(* No task is queued twice: what is queued is new. *)

LEMMA PushIsNew ==
    ASSUME TInv, Tasks, NEW c \in Callers, LogQueues(c)
    PROVE  /\ caller[c] \in Task /\ caller[c] # NoJob /\ ~Exists(caller[c])
           /\ caller[c].message \in Message /\ caller[c] = Push(caller[c].message)
           /\ caller[c].message.by = c /\ caller[c].message.no = logged[c]
<1>1. caller[c] \in Task /\ caller[c] # NoJob
  BY DEF TInv, TypeOK, LogQueues
<1>2. /\ caller[c].kind = "push" /\ caller[c].message.by = c
      /\ caller[c].message.no = logged[c]
  BY <1>1 DEF Tasks, CallerHolds
<1>3. caller[c].message \in Message /\ caller[c] = Push(caller[c].message)
  BY <1>1, <1>2, TaskCases
<1>4. PICK m \in Message : m = caller[c].message
  BY <1>3
<1>5. m.by = c /\ m.no = logged[c] /\ caller[c] = Push(m)
  BY <1>2, <1>3, <1>4
<1>6. Numbered(m)
  BY <1>4 DEF Tasks
<1>7. ~Exists(Push(m))
  BY <1>1, <1>5, <1>6, Zenon DEF Numbered
<1>. QED
  BY <1>1, <1>2, <1>3, <1>5, <1>7

\* Every task that exists is a task.
LEMMA ExistingTask ==
    ASSUME TInv, NEW t, Exists(t)
    PROVE  t \in Task
<1>1. task_queue_ \in Seq(Task) /\ job \in [Workers -> Task] /\ ready \subseteq Task
  BY DEF TInv, TypeOK
<1>2. \A i \in 1..Len(task_queue_) : task_queue_[i] \in Task
  BY <1>1
<1>. QED
  BY <1>1, <1>2 DEF Exists, Pending, Queued, Held

LEMMA PopIsNew ==
    ASSUME TInv, Tasks, NEW w \in Workers, ConsumerPops(w)
    PROVE  Pop(pops + 1) # NoJob /\ ~Exists(Pop(pops + 1))
<1>1. pops \in Nat
  BY DEF TInv, TypeOK
<1>2. Pop(pops + 1) # NoJob
  BY TaskKinds
<1>3. Pop(pops + 1) \notin Task
  <2>. SUFFICES ASSUME Pop(pops + 1) \in Task
                PROVE  FALSE
    OBVIOUS
  <2>1. Pop(pops + 1).kind = "pop" /\ Pop(pops + 1).no = pops + 1
    BY TaskKinds
  <2>2. Pop(pops + 1).no \in 1..pops
    BY <2>1, TaskCases
  <2>. QED
    BY <1>1, <2>1, <2>2
<1>. QED
  BY <1>2, <1>3, ExistingTask

LEMMA FlushIsNew ==
    ASSUME TInv, Tasks, NEW w \in Workers, ConsumerFlushes(w)
    PROVE  /\ Flush(pops, issued + 1) # NoJob /\ ~Exists(Flush(pops, issued + 1))
           /\ issued + 1 \in 1..Flushers
<1>1. pops \in Nat /\ issued \in 0..Flushers /\ issued < Flushers /\ worker[w] = "flush"
  BY DEF TInv, TypeOK, ConsumerFlushes
<1>2. issued + 1 \in 1..Flushers /\ ConsumerAt("flush")
  BY <1>1, SizesAssumption DEF ConsumerAt
<1>3. ~(pops < pops) /\ ~(issued + 1 <= issued)
  BY <1>1
<1>4. ~Exists(Flush(pops, issued + 1))
  BY <1>1, <1>2, <1>3 DEF Tasks, Awaited
<1>. QED
  BY <1>2, <1>4, TaskKinds

LEMMA OnceStays ==
    ASSUME TInv, Tasks, [Next]_vars
    PROVE  Once'
<1>1. Once /\ TasksTyped' /\ \A w \in Workers : Fits(w)
  BY TasksStay DEF Tasks, TInv
<1>2. CASE NoTask
  <2>1. task_queue_' = task_queue_ /\ job' = job /\ ready' = ready
    BY <1>2 DEF NoTask
  <2>. QED
    BY <1>1, <2>1 DEF Once, Queued, Held
<1>3. ASSUME NEW w \in Workers, Takes(w), WorkerTakes(w)
      PROVE  Once'
  <2>1. job[w] = NoJob
    BY <1>1, <1>3 DEF Fits, WorkerTakes
  <2>. QED
    BY <1>1, <1>3, <2>1, OnceTaken
<1>4. ASSUME NEW w \in Workers, Finishes(w),
             \/ PushDrops(w) \/ PushWrites(w) \/ PopReads(w) \/ ConsumerEnds(w)
             \/ FlushRuns(w)
      PROVE  Once'
  <2>1. job[w].kind \in {"push", "pop", "flush"} \/ job[w] = Consume
    BY <1>1, <1>4 DEF Fits, PushDrops, PushWrites, PopReads, ConsumerEnds, FlushRuns, RunsPush,
          RunsPop
  <2>2. job[w] # NoJob
    BY <2>1, TaskKinds
  <2>. QED
    BY <1>1, <1>4, <2>2, OnceFinished
<1>5. ASSUME NEW w \in Workers, Queues(Pop(pops + 1)), ConsumerPops(w)
      PROVE  Once'
  <2>1. pops' = pops + 1 /\ pops \in Nat
    BY <1>5, Effects DEF TInv, TypeOK
  <2>2. Pop(pops + 1) \in Task'
    <3>1. pops + 1 \in 1..pops'
      BY <2>1
    <3>. QED
      BY <3>1 DEF Task
  <2>3. PICK n \in Nat : n = pops + 1
    BY <2>1
  <2>4. Pop(n) \in Task' /\ Queues(Pop(n)) /\ Pop(n) # NoJob /\ ~Exists(Pop(n))
    BY <1>5, <2>2, <2>3, PopIsNew
  <2>. QED
    BY <1>1, <2>4, OnceQueued
<1>6. ASSUME NEW w \in Workers, Queues(Flush(pops, issued + 1)), ConsumerFlushes(w)
      PROVE  Once'
  <2>1. pops' = pops /\ pops \in Nat /\ pops # 0
    BY <1>1, <1>6 DEF TInv, TypeOK, ConsumerFlushes, Fits
  <2>2. /\ issued + 1 \in 1..Flushers
        /\ Flush(pops, issued + 1) # NoJob /\ ~Exists(Flush(pops, issued + 1))
    BY <1>6, FlushIsNew
  <2>3. PICK n \in Nat, f \in 1..Flushers : n = pops /\ f = issued + 1
    BY <2>1, <2>2
  <2>4. n \in 1..pops'
    BY <2>1, <2>3
  <2>5. Flush(n, f) \in Task'
    BY <2>4 DEF Task
  <2>6. Queues(Flush(n, f)) /\ Flush(n, f) # NoJob /\ ~Exists(Flush(n, f))
    BY <1>6, <2>2, <2>3
  <2>. QED
    BY <1>1, <2>5, <2>6, OnceQueued
<1>7. ASSUME NEW c \in Callers, Queues(caller[c]), LogQueues(c)
      PROVE  Once'
  <2>1. /\ caller[c] \in Task /\ caller[c] # NoJob /\ ~Exists(caller[c])
    BY <1>7, PushIsNew
  <2>2. Task \subseteq Task'
    BY CountsStay, TaskGrows DEF TInv, TypeOK
  <2>3. PICK t \in Task' : t = caller[c]
    BY <2>1, <2>2
  <2>. QED
    BY <1>1, <1>7, <2>1, <2>3, OnceQueued
<1>. QED
  BY <1>2, <1>3, <1>4, <1>5, <1>6, <1>7, TaskSteps

\* A task that was not there before is one that the step queues.
LEMMA NewTasks ==
    ASSUME TInv, [Next]_vars, NEW t, t # NoJob
    PROVE  \/ (Pending(t)' => Pending(t)) /\ (Exists(t)' => Exists(t))
           \/ \E w \in Workers : ConsumerPops(w) /\ t = Pop(pops + 1)
           \/ \E w \in Workers : ConsumerFlushes(w) /\ t = Flush(pops, issued + 1)
           \/ \E c \in Callers : LogQueues(c) /\ t = caller[c]
<1>1. task_queue_ \in Seq(Task) /\ job \in [Workers -> Task]
  BY DEF TInv, TypeOK
<1>2. CASE NoTask
  <2>1. task_queue_' = task_queue_ /\ job' = job /\ ready' = ready
    BY <1>2 DEF NoTask
  <2>. QED
    BY <2>1 DEF Exists, Pending, Queued, Held
<1>3. ASSUME NEW w \in Workers, Takes(w)
      PROVE  (Pending(t)' => Pending(t)) /\ (Exists(t)' => Exists(t))
  <2>1. /\ task_queue_ # <<>> /\ task_queue_' = Tail(task_queue_)
        /\ job' = [job EXCEPT ![w] = Head(task_queue_)] /\ ready' = ready
    BY <1>3 DEF Takes
  <2>2. /\ 1 \in 1..Len(task_queue_) /\ Head(task_queue_) = task_queue_[1]
        /\ \A i \in 1..Len(task_queue_') : /\ i + 1 \in 1..Len(task_queue_)
                                           /\ task_queue_'[i] = task_queue_[i + 1]
    BY <1>1, <2>1, TailFacts
  <2>3. Queued(t)' => Queued(t)
    BY <2>2 DEF Queued
  <2>4. Held(t)' => Held(t) \/ Queued(t)
    BY <1>1, <2>1, <2>2 DEF Held, Queued
  <2>. QED
    BY <2>1, <2>3, <2>4 DEF Exists, Pending
<1>4. ASSUME NEW w \in Workers, Finishes(w)
      PROVE  (Pending(t)' => Pending(t)) /\ (Exists(t)' => Exists(t))
  <2>1. /\ ready' = ready \cup {job[w]} /\ task_queue_' = task_queue_
        /\ job' = [job EXCEPT ![w] = NoJob]
    BY <1>4 DEF Finishes
  <2>2. Queued(t)' => Queued(t)
    BY <2>1 DEF Queued
  <2>3. Held(t)' => Held(t)
    BY <1>1, <2>1 DEF Held
  <2>4. t \in ready' => t \in ready \/ Held(t)
    BY <2>1 DEF Held
  <2>. QED
    BY <2>2, <2>3, <2>4 DEF Exists, Pending
<1>5. ASSUME NEW x \in Task', Queues(x), x # t
      PROVE  (Pending(t)' => Pending(t)) /\ (Exists(t)' => Exists(t))
  <2>1. task_queue_ \in Seq(Task')
    BY CountsStay, TaskGrows, <1>1, SeqMonotonic DEF TInv, TypeOK
  <2>2. task_queue_' = Append(task_queue_, x) /\ job' = job /\ ready' = ready
    BY <1>5 DEF Queues
  <2>3. Queued(t)' => Queued(t)
    BY <1>5, <2>1, <2>2, AppendFacts DEF Queued
  <2>. QED
    BY <2>2, <2>3 DEF Exists, Pending, Held
<1>6. /\ \A w \in Workers : ConsumerPops(w) => Pop(pops + 1) \in Task'
      /\ \A w \in Workers : ConsumerFlushes(w) => Flush(pops, issued + 1) \in Task'
      /\ \A c \in Callers : caller[c] \in Task'
  <2>1. pops \in Nat /\ issued \in 0..Flushers /\ pops' \in Nat /\ pops <= pops'
    BY CountsStay DEF TInv, TypeOK
  <2>2. ASSUME NEW w \in Workers, ConsumerPops(w)
        PROVE  Pop(pops + 1) \in Task'
    <3>1. pops + 1 \in 1..pops'
      BY <2>1, <2>2, Effects
    <3>. QED
      BY <3>1 DEF Task
  <2>3. ASSUME NEW w \in Workers, ConsumerFlushes(w)
        PROVE  Flush(pops, issued + 1) \in Task'
    <3>1. pops' = pops /\ pops # 0 /\ issued < Flushers
      BY <2>3 DEF ConsumerFlushes, TInv, Fits
    <3>2. pops \in 1..pops' /\ issued + 1 \in 1..Flushers
      BY <2>1, <3>1, SizesAssumption
    <3>. QED
      BY <3>2 DEF Task
  <2>4. \A c \in Callers : caller[c] \in Task'
    BY <2>1, TaskGrows DEF TInv, TypeOK
  <2>. QED
    BY <2>2, <2>3, <2>4
<1>. QED
  BY <1>2, <1>3, <1>4, <1>5, <1>6, TaskSteps

\* The pushes that exist change only when a caller queues its own.
LEMMA NewPushes ==
    ASSUME TInv, Tasks, [Next]_vars, NEW m \in Message, Exists(Push(m))'
    PROVE  \/ Exists(Push(m))
           \/ \E c \in Callers : LogQueues(c) /\ m = caller[c].message
<1>1. /\ Push(m).kind = "push" /\ Push(m).message = m
      /\ Push(m) # NoJob
  BY TaskKinds
<1>2. Pop(pops + 1).kind # "push" /\ Flush(pops, issued + 1).kind # "push"
  BY TaskKinds
<1>3. Push(m) # Pop(pops + 1) /\ Push(m) # Flush(pops, issued + 1)
  BY <1>1, <1>2
<1>. QED
  BY <1>1, <1>3, NewTasks

LEMMA NumbersStay ==
    ASSUME TInv, Tasks, [Next]_vars
    PROVE  (\A c \in Callers : CallerHolds(c))' /\ (\A m \in Message : Numbered(m))'
<1>1. /\ caller \in [Callers -> Task] /\ logged \in [Callers -> 0..MaxLogs]
      /\ \A c \in Callers : CallerHolds(c)
      /\ \A m \in Message : Numbered(m)
  BY DEF TInv, TypeOK, Tasks
<1>2. \A m \in Message : m.by \in Callers /\ m.no \in Nat
  BY SizesAssumption DEF Message
<1>3. CASE caller' = caller /\ logged' = logged
  <2>1. \A c \in Callers : CallerHolds(c)'
    BY <1>1, <1>3 DEF CallerHolds
  <2>2. ASSUME NEW m \in Message, Exists(Push(m))'
        PROVE  Exists(Push(m))
    <3>1. ASSUME NEW c \in Callers, LogQueues(c)
          PROVE  FALSE
      BY <1>1, <1>3, <3>1 DEF LogQueues
    <3>. QED
      BY <2>2, <3>1, NewPushes
  <2>. QED
    BY <1>1, <1>3, <2>1, <2>2 DEF Numbered
<1>4. ASSUME NEW c \in Callers, LogQueues(c)
      PROVE  (\A b \in Callers : CallerHolds(b))' /\ (\A m \in Message : Numbered(m))'
  <2>1. /\ caller' = [caller EXCEPT ![c] = NoJob] /\ logged' = logged
        /\ caller[c].message.by = c /\ caller[c].message.no = logged[c]
    BY <1>4, PushIsNew DEF LogQueues
  <2>2. \A b \in Callers : caller'[b] = NoJob \/ caller'[b] = caller[b]
    BY <1>1, <2>1
  <2>3. \A b \in Callers : CallerHolds(b)'
    BY <1>1, <2>1, <2>2 DEF CallerHolds
  <2>4. ASSUME NEW m \in Message
        PROVE  Numbered(m)'
    <3>. SUFFICES ASSUME Exists(Push(m))'
                  PROVE  /\ m.no <= logged[m.by]
                         /\ caller'[m.by] # NoJob => m.no # logged[m.by]
      BY <2>1 DEF Numbered
    <3>1. ASSUME NEW b \in Callers, LogQueues(b)
          PROVE  b = c
      <4>1. caller[b] # NoJob /\ caller'[b] = NoJob
        BY <1>1, <3>1 DEF LogQueues
      <4>. QED
        BY <1>1, <2>1, <4>1
    <3>2. CASE Exists(Push(m))
      BY <1>1, <1>2, <2>2, <3>2 DEF Numbered
    <3>3. CASE m = caller[c].message
      <4>1. m.by = c /\ m.no = logged[c] /\ caller'[c] = NoJob /\ logged[c] \in Nat
        BY <1>1, <2>1, <3>3, SizesAssumption
      <4>. QED
        BY <4>1
    <3>. QED
      BY <3>1, <3>2, <3>3, NewPushes
  <2>. QED
    BY <2>3, <2>4
<1>5. ASSUME NEW c \in Callers, NEW len \in Lens, LogBegins(c, len)
      PROVE  (\A b \in Callers : CallerHolds(b))' /\ (\A m \in Message : Numbered(m))'
  <2>. DEFINE n == logged[c] + 1
  <2>1. /\ logged' = [logged EXCEPT ![c] = n] /\ caller[c] = NoJob
        /\ logged[c] \in Nat
    BY <1>1, <1>5, SizesAssumption DEF LogBegins
  <2>2. logged'[c] = n /\ \A b \in Callers \ {c} : logged'[b] = logged[b]
    BY <1>1, <2>1
  <2>3. caller' = [caller EXCEPT ![c] = Push([by |-> c, no |-> n, len |-> len])]
    BY <1>5, <2>2 DEF LogBegins
  <2>4. /\ caller'[c].kind = "push" /\ caller'[c].message.by = c /\ caller'[c].message.no = n
        /\ \A b \in Callers \ {c} : caller'[b] = caller[b]
    BY <1>1, <2>3, TaskKinds
  <2>5. ASSUME NEW b \in Callers
        PROVE  CallerHolds(b)'
    BY <1>1, <2>2, <2>4 DEF CallerHolds
  <2>6. ASSUME NEW m \in Message
        PROVE  Numbered(m)'
    <3>. SUFFICES ASSUME Exists(Push(m))'
                  PROVE  /\ m.no <= logged'[m.by]
                         /\ caller'[m.by] # NoJob => m.no # logged'[m.by]
      BY DEF Numbered
    <3>1. ASSUME NEW b \in Callers, LogQueues(b)
          PROVE  FALSE
      <4>1. logged' = logged
        BY <3>1 DEF LogQueues
      <4>. QED
        BY <2>1, <2>2, <4>1
    <3>2. Exists(Push(m))
      BY <3>1, NewPushes
    <3>3. /\ m.no <= logged[m.by]
          /\ caller[m.by] # NoJob => m.no # logged[m.by]
      BY <1>1, <3>2 DEF Numbered
    <3>4. CASE m.by = c
      BY <1>2, <2>1, <2>2, <3>3, <3>4
    <3>5. CASE m.by # c
      BY <1>2, <2>2, <2>4, <3>3, <3>5
    <3>. QED
      BY <3>4, <3>5
  <2>. QED
    BY <2>5, <2>6
<1>. QED
  BY <1>3, <1>4, <1>5, CallerSteps

-----------------------------------------------------------------------------
(* The consumer waits for what it queued. *)

LEMMA OneConsumer ==
    ASSUME TInv, Once, NEW v \in Workers, NEW w \in Workers,
           worker[v] \in {"loop", "get", "flush"}, worker[w] \in {"loop", "get", "flush"}
    PROVE  v = w
<1>1. job[v] = Consume /\ job[w] = Consume
  BY DEF TInv, Fits
<1>2. Consume # NoJob
  BY TaskKinds
<1>. QED
  BY <1>1, <1>2 DEF Once

\* A worker that moves elsewhere takes the consumer there, or is not the consumer.
LEMMA ConsumerMoved ==
    ASSUME NEW w \in Workers, NEW place, Moves(w, place), NEW q \in {"get", "flush"}
    PROVE  ConsumerAt(q)' <=> place = q \/ \E v \in Workers \ {w} : worker[v] = q
BY DEF Moves, ConsumerAt, Woken

LEMMA ConsumerStays ==
    ASSUME Wakes, NEW q \in {"get", "flush"}
    PROVE  ConsumerAt(q)' <=> ConsumerAt(q)
BY DEF Wakes, ConsumerAt, Woken

\* Where the consumer is before and after each of its steps.
LEMMA ConsumerMoves ==
    ASSUME TInv, Once, NEW w \in Workers
    PROVE  /\ ConsumerPops(w) => /\ ~ConsumerAt("get") /\ ~ConsumerAt("flush")
                                 /\ ConsumerAt("get")' /\ ~ConsumerAt("flush")'
           /\ ConsumerGets(w) => /\ ConsumerAt("get") /\ ~ConsumerAt("flush")
                                 /\ ~ConsumerAt("get")'
                                 /\ ConsumerAt("flush")' <=> data # <<>>
           /\ ConsumerWaits(w) => /\ ~ConsumerAt("get") /\ ConsumerAt("flush")
                                  /\ ~ConsumerAt("get")' /\ ~ConsumerAt("flush")'
           /\ ConsumerFlushes(w) => /\ ~ConsumerAt("get") /\ ConsumerAt("flush")
                                    /\ ~ConsumerAt("get")' /\ ConsumerAt("flush")'
<1>1. TypeOK
  BY DEF TInv
<1>2. ASSUME worker[w] \in {"loop", "get", "flush"}
      PROVE  \A v \in Workers \ {w} : worker[v] # "get" /\ worker[v] # "flush"
  BY <1>2, OneConsumer
<1>3. ASSUME ConsumerPops(w)
      PROVE  /\ ~ConsumerAt("get") /\ ~ConsumerAt("flush")
             /\ ConsumerAt("get")' /\ ~ConsumerAt("flush")'
  <2>1. worker[w] = "loop" /\ Moves(w, "get")
    BY <1>1, <1>3, WorkerMoves DEF ConsumerPops
  <2>. QED
    BY <1>2, <2>1, ConsumerMoved DEF ConsumerAt
<1>4. ASSUME ConsumerGets(w)
      PROVE  /\ ConsumerAt("get") /\ ~ConsumerAt("flush")
             /\ ~ConsumerAt("get")'
             /\ ConsumerAt("flush")' <=> data # <<>>
  <2>1. /\ worker[w] = "get"
        /\ data = <<>> => Moves(w, "loop")
        /\ data # <<>> => Moves(w, "flush")
    BY <1>1, <1>4, WorkerMoves DEF ConsumerGets
  <2>2. CASE data = <<>>
    BY <1>2, <2>1, <2>2, ConsumerMoved DEF ConsumerAt
  <2>3. CASE data # <<>>
    BY <1>2, <2>1, <2>3, ConsumerMoved DEF ConsumerAt
  <2>. QED
    BY <2>2, <2>3
<1>5. ASSUME ConsumerWaits(w)
      PROVE  /\ ~ConsumerAt("get") /\ ConsumerAt("flush")
             /\ ~ConsumerAt("get")' /\ ~ConsumerAt("flush")'
  <2>1. worker[w] = "flush" /\ Moves(w, "loop")
    BY <1>1, <1>5, WorkerMoves DEF ConsumerWaits
  <2>. QED
    BY <1>2, <2>1, ConsumerMoved DEF ConsumerAt
<1>6. ASSUME ConsumerFlushes(w)
      PROVE  /\ ~ConsumerAt("get") /\ ConsumerAt("flush")
             /\ ~ConsumerAt("get")' /\ ConsumerAt("flush")'
  <2>1. worker[w] = "flush" /\ Wakes
    BY <1>1, <1>6, WorkerMoves DEF ConsumerFlushes
  <2>. QED
    BY <1>2, <2>1, ConsumerStays DEF ConsumerAt
<1>. QED
  BY <1>3, <1>4, <1>5, <1>6

\* Every other step leaves the consumer where it is.
LEMMA ConsumerCases ==
    ASSUME TInv, Once, [Next]_vars
    PROVE  \/ \E w \in Workers : \/ ConsumerPops(w) \/ ConsumerGets(w)
                                 \/ ConsumerFlushes(w) \/ ConsumerWaits(w)
           \/ /\ pops' = pops /\ issued' = issued
              /\ ConsumerAt("get")' <=> ConsumerAt("get")
              /\ ConsumerAt("flush")' <=> ConsumerAt("flush")
<1>1. TypeOK
  BY DEF TInv
<1>. DEFINE Stays == /\ ConsumerAt("get")' <=> ConsumerAt("get")
                     /\ ConsumerAt("flush")' <=> ConsumerAt("flush")
            Its(w) == \/ ConsumerPops(w) \/ ConsumerGets(w)
                      \/ ConsumerFlushes(w) \/ ConsumerWaits(w)
<1>2. Wakes => Stays
  BY ConsumerStays
<1>3. ASSUME NEW w \in Workers, worker[w] \notin {"get", "flush"},
             NEW place \in {"lock", "exited", "asleep", "loop", "run", "write_wait",
                            "read_wait", "top"},
             Moves(w, place)
      PROVE  Stays
  BY <1>3, ConsumerMoved DEF ConsumerAt
<1>4. ASSUME NEW w \in Workers, Worker(w) \/ SpuriousWakeup(w)
      PROVE  Its(w) \/ Stays
  <2>1. CASE \/ WorkerTestsStop(w) \/ WorkerWaits(w) \/ WorkerBreaks(w) \/ WorkerTakes(w)
    <3>1. worker[w] \notin {"get", "flush"}
      BY <2>1 DEF WorkerTestsStop, WorkerWaits, WorkerBreaks, WorkerTakes
    <3>. QED
      BY <1>1, <1>3, <2>1, <3>1, WorkerMoves
  <2>2. CASE \/ PushWaits(w) \/ PushDrops(w) \/ PushWrites(w) \/ PopWaits(w) \/ PopReads(w)
             \/ FlushRuns(w) \/ ConsumerEnds(w)
    <3>1. worker[w] \notin {"get", "flush"}
      BY <2>2 DEF PushWaits, PushDrops, PushWrites, PopWaits, PopReads, FlushRuns, ConsumerEnds,
                  RunsPush, RunsPop
    <3>. QED
      BY <1>1, <1>3, <2>2, <3>1, WorkerMoves
  <2>3. CASE SpuriousWakeup(w)
    BY <1>1, <1>2, <2>3, WorkerMoves
  <2>. QED
    BY <1>4, <2>1, <2>2, <2>3, Zenon DEF Worker
<1>5. \/ \E c \in Callers : LogQueues(c) \/ \E len \in Lens : LogBegins(c, len)
      \/ StopLogger \/ StopBuffer \/ StopScheduler \/ JoinWorkers \/ UNCHANGED vars
      => Stays
  BY <1>1, <1>2, OthersWake
<1>6. (\E w \in Workers : Its(w)) \/ Stays
  BY <1>4, <1>5, StepCases
<1>7. (\E w \in Workers : Its(w)) \/ (pops' = pops /\ issued' = issued)
  BY ConsumerSteps, Zenon
<1>. QED
  BY <1>6, <1>7

\* The pops and flushes that exist change only when the consumer queues one.
LEMMA NewPops ==
    ASSUME TInv, Tasks, [Next]_vars, NEW n \in Nat, Pending(Pop(n))'
    PROVE  \/ Pending(Pop(n))
           \/ n = pops + 1 /\ \E w \in Workers : ConsumerPops(w)
<1>1. /\ Pop(n).kind = "pop" /\ Pop(n).no = n /\ Pop(n) # NoJob
      /\ Pop(pops + 1).no = pops + 1
      /\ Flush(pops, issued + 1).kind # "pop"
  BY TaskKinds
<1>2. ASSUME NEW c \in Callers, LogQueues(c)
      PROVE  caller[c] # Pop(n)
  <2>1. caller[c] = Push(caller[c].message)
    BY <1>2, PushIsNew
  <2>2. caller[c].kind = "push"
    BY <2>1, TaskKinds
  <2>. QED
    BY <1>1, <2>2
<1>. QED
  BY <1>1, <1>2, NewTasks

LEMMA NewFlushes ==
    ASSUME TInv, Tasks, [Next]_vars, NEW n \in Nat, NEW f \in 1..Flushers
    PROVE  \/ /\ Pending(Flush(n, f))' => Pending(Flush(n, f))
              /\ Exists(Flush(n, f))' => Exists(Flush(n, f))
           \/ n = pops /\ f = issued + 1 /\ \E w \in Workers : ConsumerFlushes(w)
<1>1. /\ Flush(n, f).kind = "flush" /\ Flush(n, f).no = n /\ Flush(n, f).to = f
      /\ Flush(n, f) # NoJob
      /\ Flush(pops, issued + 1).no = pops /\ Flush(pops, issued + 1).to = issued + 1
      /\ Pop(pops + 1).kind # "flush"
  BY TaskKinds
<1>2. ASSUME NEW c \in Callers, LogQueues(c)
      PROVE  caller[c] # Flush(n, f)
  <2>1. caller[c] = Push(caller[c].message)
    BY <1>2, PushIsNew
  <2>2. caller[c].kind = "push"
    BY <2>1, TaskKinds
  <2>. QED
    BY <1>1, <2>2
<1>. QED
  BY <1>1, <1>2, NewTasks

\* A task that is done is not to be done.
LEMMA DoneIsDone ==
    ASSUME Once, NEW t \in ready
    PROVE  ~Pending(t)
BY DEF Once, Pending, Held

LEMMA AwaitedStays ==
    ASSUME TInv, Tasks, [Next]_vars
    PROVE  Awaited'
<1>1. Once /\ Awaited /\ pops \in Nat /\ issued \in 0..Flushers
  BY DEF Tasks, TInv, TypeOK
<1>2. \A n \in Nat, f \in 1..Flushers : Exists(Flush(n, f)) => n <= pops
  <2>. SUFFICES ASSUME NEW n \in Nat, NEW f \in 1..Flushers, Exists(Flush(n, f))
                PROVE  n <= pops
    OBVIOUS
  <2>1. Flush(n, f) \in Task /\ Flush(n, f).kind = "flush" /\ Flush(n, f).no = n
    BY ExistingTask, TaskKinds
  <2>. QED
    BY <1>1, <2>1, TaskCases
<1>3. ASSUME NEW w \in Workers, ConsumerPops(w)
      PROVE  Awaited'
  <2>1. /\ ~ConsumerAt("get") /\ ~ConsumerAt("flush")
        /\ ConsumerAt("get")' /\ ~ConsumerAt("flush")'
        /\ pops' = pops + 1
    BY <1>1, <1>3, ConsumerMoves, Effects
  <2>2. \A v \in Workers : ~ConsumerFlushes(v)
    BY <1>1, <2>1, ConsumerMoves
  <2>3. \A n \in Nat : Pending(Pop(n))' => n = pops'
    BY <1>1, <2>1, NewPops DEF Awaited
  <2>4. \A n \in Nat, f \in 1..Flushers : ~Pending(Flush(n, f))'
    BY <1>1, <2>1, <2>2, NewFlushes DEF Awaited
  <2>5. \A n \in Nat, f \in 1..Flushers : Exists(Flush(n, f))' => n < pops'
    BY <1>1, <1>2, <2>1, <2>2, NewFlushes
  <2>. QED
    BY <2>1, <2>3, <2>4, <2>5 DEF Awaited
<1>4. ASSUME NEW w \in Workers, ConsumerGets(w) \/ ConsumerWaits(w)
      PROVE  Awaited'
  <2>1. /\ ConsumerAt("get") => ~ConsumerAt("flush") /\ ConsumerGets(w)
        /\ ConsumerAt("flush") => ~ConsumerAt("get") /\ ConsumerWaits(w)
        /\ ConsumerAt("flush")' => ConsumerAt("get")
        /\ ConsumerAt("get") \/ ConsumerAt("flush")
        /\ ~ConsumerAt("get")'
    BY <1>1, <1>4, ConsumerMoves
  <2>2. \A v \in Workers : ~ConsumerPops(v) /\ ~ConsumerFlushes(v)
    <3>1. pops' = pops
      BY <1>4 DEF ConsumerGets, ConsumerWaits, consumer
    <3>2. \A v \in Workers : ~ConsumerPops(v)
      BY <1>1, <3>1 DEF ConsumerPops
    <3>3. ASSUME NEW v \in Workers, ConsumerFlushes(v)
          PROVE  FALSE
      <4>1. ConsumerAt("flush")' /\ ~ConsumerAt("get")
        BY <1>1, <3>3, ConsumerMoves
      <4>. QED
        BY <2>1, <4>1
    <3>. QED
      BY <3>2, <3>3
  <2>3. \A n \in Nat : ~Pending(Pop(n))'
    <3>. SUFFICES ASSUME NEW n \in Nat, Pending(Pop(n))
                  PROVE  FALSE
      BY <2>2, NewPops
    <3>1. n = pops /\ ConsumerGets(w)
      BY <1>1, <2>1 DEF Awaited
    <3>2. Pop(n) \in ready
      BY <3>1 DEF ConsumerGets
    <3>. QED
      BY <1>1, <3>2, DoneIsDone
  <2>4. \A n \in Nat, f \in 1..Flushers : ~Pending(Flush(n, f))'
    <3>. SUFFICES ASSUME NEW n \in Nat, NEW f \in 1..Flushers, Pending(Flush(n, f))
                  PROVE  FALSE
      BY <2>2, NewFlushes
    <3>1. n = pops /\ ConsumerWaits(w)
      BY <1>1, <2>1 DEF Awaited
    <3>2. Flush(n, f) \in ready
      BY <3>1 DEF ConsumerWaits
    <3>. QED
      BY <1>1, <3>2, DoneIsDone
  <2>5. \A n \in Nat, f \in 1..Flushers :
           Exists(Flush(n, f))' /\ ConsumerAt("flush")' => n < pops
    BY <1>1, <2>1, <2>2, NewFlushes DEF Awaited
  <2>6. pops' = pops
    BY <1>4 DEF ConsumerGets, ConsumerWaits, consumer
  <2>. QED
    BY <2>1, <2>3, <2>4, <2>5, <2>6 DEF Awaited
<1>5. ASSUME NEW w \in Workers, ConsumerFlushes(w)
      PROVE  Awaited'
  <2>1. /\ ~ConsumerAt("get") /\ ConsumerAt("flush")
        /\ ~ConsumerAt("get")' /\ ConsumerAt("flush")'
        /\ pops' = pops /\ issued' = issued + 1
    BY <1>1, <1>5, ConsumerMoves DEF ConsumerFlushes
  <2>2. \A v \in Workers : ~ConsumerPops(v)
    BY <1>1, <2>1, ConsumerMoves
  <2>3. \A n \in Nat : ~Pending(Pop(n))'
    BY <1>1, <2>1, <2>2, NewPops DEF Awaited
  <2>4. \A n \in Nat, f \in 1..Flushers : Pending(Flush(n, f))' => n = pops
    BY <1>1, NewFlushes DEF Awaited
  <2>5. \A n \in Nat, f \in 1..Flushers :
           Exists(Flush(n, f))' => n < pops \/ f <= issued + 1
    <3>. SUFFICES ASSUME NEW n \in Nat, NEW f \in 1..Flushers, Exists(Flush(n, f))'
                  PROVE  n < pops \/ f <= issued + 1
      OBVIOUS
    <3>1. (n < pops \/ f <= issued) \/ f = issued + 1
      BY <1>1, <2>1, NewFlushes DEF Awaited
    <3>. QED
      BY <1>1, <3>1
  <2>. QED
    BY <2>1, <2>3, <2>4, <2>5 DEF Awaited
<1>6. ASSUME pops' = pops, issued' = issued,
             ConsumerAt("get")' <=> ConsumerAt("get"),
             ConsumerAt("flush")' <=> ConsumerAt("flush"),
             \A w \in Workers : ~ConsumerPops(w) /\ ~ConsumerFlushes(w)
      PROVE  Awaited'
  <2>1. \A n \in Nat : Pending(Pop(n))' => Pending(Pop(n))
    BY <1>6, NewPops
  <2>2. \A n \in Nat, f \in 1..Flushers :
           /\ Pending(Flush(n, f))' => Pending(Flush(n, f))
           /\ Exists(Flush(n, f))' => Exists(Flush(n, f))
    BY <1>6, NewFlushes
  <2>. QED
    BY <1>1, <1>6, <2>1, <2>2 DEF Awaited
<1>. QED
  BY <1>1, <1>3, <1>4, <1>5, <1>6, ConsumerCases

-----------------------------------------------------------------------------
(* Each output has been given all that was popped, but for the last batch. *)

\* A step that moves neither the consumer nor the messages, and finishes no pop
\* and no flush.
LEMMA SettledElsewhere ==
    ASSUME NEW f \in 1..Flushers, Settled(f),
           pops' = pops, data' = data, handed' = handed, delivered' = delivered,
           ConsumerAt("get")' <=> ConsumerAt("get"),
           ConsumerAt("flush")' <=> ConsumerAt("flush"),
           Pop(pops) \in ready' <=> Pop(pops) \in ready,
           Flush(pops, f) \in ready' <=> Flush(pops, f) \in ready
    PROVE  Settled(f)'
<1>1. Owed(f)' <=> Owed(f)
  BY DEF Owed
<1>. QED
  BY <1>1 DEF Settled

\* The pop or flush that a worker runs is the one the consumer waits for.
LEMMA RunsPopFacts ==
    ASSUME TInv, Tasks, NEW w \in Workers, RunsPop(w)
    PROVE  /\ job[w] = Pop(pops) /\ ConsumerAt("get") /\ ~ConsumerAt("flush")
           /\ Pop(pops) \notin ready
<1>1. TypeOK /\ Once /\ Awaited
  BY DEF TInv, Tasks
<1>2. job[w] = Pop(job[w].no) /\ job[w].no \in Nat
  BY <1>1, PopFacts DEF RunsPop
<1>3. Held(job[w]) /\ job[w] \notin ready
  BY <1>1 DEF Held, Once
<1>4. PICK n \in Nat : n = job[w].no
  BY <1>2
<1>5. Pending(Pop(n)) /\ job[w] = Pop(n)
  BY <1>2, <1>3, <1>4 DEF Pending
<1>6. n = pops /\ ConsumerAt("get")
  BY <1>1, <1>5 DEF Awaited
<1>7. ~ConsumerAt("flush")
  BY <1>1, <1>6, OneConsumer DEF ConsumerAt
<1>. QED
  BY <1>3, <1>5, <1>6, <1>7

LEMMA RunsFlushFacts ==
    ASSUME TInv, Tasks, NEW w \in Workers, FlushRuns(w)
    PROVE  /\ job[w].to \in 1..Flushers /\ job[w] = Flush(pops, job[w].to)
           /\ ConsumerAt("flush") /\ ~ConsumerAt("get")
           /\ Flush(pops, job[w].to) \notin ready
<1>1. TypeOK /\ Once /\ Awaited
  BY DEF TInv, Tasks
<1>2. /\ job[w] = Flush(job[w].no, job[w].to) /\ job[w].no \in Nat
      /\ job[w].to \in 1..Flushers
  BY <1>1, FlushFacts DEF FlushRuns
<1>3. Held(job[w]) /\ job[w] \notin ready
  BY <1>1 DEF Held, Once
<1>4. PICK n \in Nat, f \in 1..Flushers : n = job[w].no /\ f = job[w].to
  BY <1>2
<1>5. Pending(Flush(n, f)) /\ job[w] = Flush(n, f)
  BY <1>2, <1>3, <1>4 DEF Pending
<1>6. n = pops /\ ConsumerAt("flush")
  BY <1>1, <1>5 DEF Awaited
<1>7. ~ConsumerAt("get")
  BY <1>1, <1>6, OneConsumer DEF ConsumerAt
<1>. QED
  BY <1>3, <1>4, <1>5, <1>6, <1>7

LEMMA FlowStays ==
    ASSUME TInv, Tasks, Flow, [Next]_vars
    PROVE  Flow'
<1>. SUFFICES ASSUME NEW f \in 1..Flushers
              PROVE  Settled(f)'
  BY DEF Flow
<1>1. /\ TypeOK /\ Once /\ Awaited /\ Settled(f)
      /\ pops \in Nat /\ job \in [Workers -> Task]
      /\ data \in Batch /\ handed \in Batch /\ buffer_ \in Batch
      /\ delivered \in [1..Flushers -> Batch]
  BY DEF TInv, Tasks, Flow, TypeOK
<1>2. ASSUME NEW w \in Workers, ConsumerPops(w)
      PROVE  Settled(f)'
  <2>1. /\ ~ConsumerAt("get") /\ ~ConsumerAt("flush")
        /\ ConsumerAt("get")' /\ ~ConsumerAt("flush")'
        /\ pops' = pops + 1
    BY <1>1, <1>2, ConsumerMoves, Effects
  <2>2. Pop(pops + 1) \notin ready
    BY <1>2, PopIsNew DEF Exists
  <2>3. /\ ready' = ready /\ data' = data /\ handed' = handed /\ delivered' = delivered
    BY <1>2 DEF ConsumerPops, history
  <2>4. ~Owed(f) /\ ~Owed(f)'
    BY <2>1, <2>2, <2>3 DEF Owed
  <2>. QED
    BY <1>1, <2>3, <2>4 DEF Settled
<1>3. ASSUME NEW w \in Workers, ConsumerGets(w)
      PROVE  Settled(f)'
  <2>1. /\ ConsumerAt("get") /\ ~ConsumerAt("flush")
        /\ ~ConsumerAt("get")'
        /\ ConsumerAt("flush")' <=> data # <<>>
    BY <1>1, <1>3, ConsumerMoves
  <2>2. /\ ready' = ready /\ data' = data /\ handed' = handed /\ delivered' = delivered
        /\ pops' = pops /\ Pop(pops) \in ready
    BY <1>3, Zenon DEF ConsumerGets, history
  <2>3. delivered[f] \o data = handed
    BY <1>1, <2>1, <2>2 DEF Owed, Settled
  <2>4. Flush(pops, f) \notin ready
    <3>1. ~(pops < pops)
      BY <1>1
    <3>. QED
      BY <1>1, <2>1, <3>1 DEF Awaited, Exists
  <2>5. CASE data = <<>>
    <3>1. ~Owed(f)'
      BY <2>1, <2>5 DEF Owed
    <3>2. delivered[f] = handed
      BY <1>1, <2>3, <2>5, ConcatEmptySeq DEF Batch
    <3>. QED
      BY <2>2, <3>1, <3>2 DEF Settled
  <2>6. CASE data # <<>>
    <3>1. Owed(f)'
      BY <2>1, <2>2, <2>4, <2>6 DEF Owed
    <3>. QED
      BY <2>2, <2>3, <3>1 DEF Settled
  <2>. QED
    BY <2>5, <2>6
<1>4. ASSUME NEW w \in Workers, ConsumerWaits(w)
      PROVE  Settled(f)'
  <2>1. /\ ~ConsumerAt("get") /\ ConsumerAt("flush")
        /\ ~ConsumerAt("get")' /\ ~ConsumerAt("flush")'
    BY <1>1, <1>4, ConsumerMoves
  <2>2. /\ data' = data /\ handed' = handed /\ delivered' = delivered
        /\ Flush(pops, f) \in ready
    BY <1>4 DEF ConsumerWaits, history, consumer
  <2>3. ~Owed(f) /\ ~Owed(f)'
    BY <2>1, <2>2 DEF Owed
  <2>. QED
    BY <1>1, <2>2, <2>3 DEF Settled
<1>5. ASSUME NEW w \in Workers, ConsumerFlushes(w)
      PROVE  Settled(f)'
  <2>1. /\ ~ConsumerAt("get") /\ ConsumerAt("flush")
        /\ ~ConsumerAt("get")' /\ ConsumerAt("flush")'
    BY <1>1, <1>5, ConsumerMoves
  <2>2. /\ ready' = ready /\ data' = data /\ handed' = handed /\ delivered' = delivered
        /\ pops' = pops
    BY <1>5 DEF ConsumerFlushes, history
  <2>. QED
    BY <1>1, <2>1, <2>2, SettledElsewhere
<1>6. ASSUME pops' = pops, NEW w \in Workers, PopReads(w),
             ConsumerAt("get")' <=> ConsumerAt("get")
      PROVE  Settled(f)'
  <2>1. /\ job[w] = Pop(pops) /\ ConsumerAt("get") /\ ~ConsumerAt("flush")
        /\ Pop(pops) \notin ready
    BY <1>6, RunsPopFacts DEF PopReads
  <2>2. /\ data' = buffer_ /\ handed' = handed \o buffer_ /\ delivered' = delivered
    BY <1>6 DEF PopReads
  <2>3. Pop(pops) \in ready'
    BY <1>6, <2>1, Effects DEF Finishes
  <2>4. ~Owed(f) /\ Owed(f)'
    BY <1>6, <2>1, <2>3 DEF Owed
  <2>. QED
    BY <1>1, <2>2, <2>4 DEF Settled
<1>7. ASSUME pops' = pops, NEW w \in Workers, FlushRuns(w),
             ConsumerAt("get")' <=> ConsumerAt("get"),
             ConsumerAt("flush")' <=> ConsumerAt("flush")
      PROVE  Settled(f)'
  <2>1. /\ job[w].to \in 1..Flushers /\ job[w] = Flush(pops, job[w].to)
        /\ ConsumerAt("flush") /\ ~ConsumerAt("get")
        /\ Flush(pops, job[w].to) \notin ready
    BY <1>7, RunsFlushFacts
  <2>2. /\ data' = data /\ handed' = handed
        /\ delivered' = [delivered EXCEPT ![job[w].to] = delivered[job[w].to] \o data]
    BY <1>7 DEF FlushRuns, consumer
  <2>3. ready' = ready \cup {Flush(pops, job[w].to)}
    BY <1>7, <2>1, Effects DEF Finishes
  <2>4. CASE f = job[w].to
    <3>1. Owed(f) /\ ~Owed(f)'
      BY <1>7, <2>1, <2>3, <2>4 DEF Owed
    <3>2. delivered'[f] = delivered[f] \o data
      BY <1>1, <2>2, <2>4
    <3>. QED
      BY <1>1, <2>2, <3>1, <3>2 DEF Settled
  <2>5. CASE f # job[w].to
    <3>1. Flush(pops, f) # Flush(pops, job[w].to)
      <4>1. Flush(pops, f).to = f /\ Flush(pops, job[w].to).to = job[w].to
        BY TaskKinds
      <4>. QED
        BY <2>5, <4>1
    <3>2. Flush(pops, f) \in ready' <=> Flush(pops, f) \in ready
      BY <2>3, <3>1
    <3>3. Owed(f)' <=> Owed(f)
      BY <1>7, <2>1, <3>2 DEF Owed
    <3>4. delivered'[f] = delivered[f]
      BY <1>1, <2>2, <2>5
    <3>. QED
      BY <1>1, <2>2, <3>3, <3>4 DEF Settled
  <2>. QED
    BY <2>4, <2>5
<1>8. ASSUME pops' = pops,
             ConsumerAt("get")' <=> ConsumerAt("get"),
             ConsumerAt("flush")' <=> ConsumerAt("flush"),
             \A w \in Workers : ~PopReads(w) /\ ~FlushRuns(w)
      PROVE  Settled(f)'
  <2>1. data' = data /\ handed' = handed /\ delivered' = delivered
    <3>1. ASSUME NEW w \in Workers, PushWrites(w)
          PROVE  data' = data /\ handed' = handed /\ delivered' = delivered
      BY <3>1 DEF PushWrites, consumer
    <3>. QED
      BY <1>8, <3>1, BufferSteps
  <2>2. ASSUME NEW w \in Workers, Finishes(w),
               PushDrops(w) \/ PushWrites(w) \/ ConsumerEnds(w)
        PROVE  job[w] # Pop(pops) /\ job[w] # Flush(pops, f)
    <3>1. job[w].kind = "push" \/ job[w] = Consume
      BY <2>2 DEF PushDrops, PushWrites, ConsumerEnds, RunsPush, TInv, Fits
    <3>. QED
      BY <3>1, TaskKinds
  <2>3. \/ ready' = ready
        \/ \E w \in Workers : /\ ready' = ready \cup {job[w]}
                              /\ job[w] # Pop(pops) /\ job[w] # Flush(pops, f)
    BY <1>8, <2>2, TaskSteps DEF NoTask, Takes, Queues, Finishes
  <2>4. /\ Pop(pops) \in ready' <=> Pop(pops) \in ready
        /\ Flush(pops, f) \in ready' <=> Flush(pops, f) \in ready
    BY <2>3
  <2>. QED
    BY <1>1, <1>8, <2>1, <2>4, SettledElsewhere
<1>9. ASSUME NEW w \in Workers, ConsumerPops(w) \/ ConsumerGets(w) \/ ConsumerFlushes(w)
                                \/ ConsumerWaits(w)
      PROVE  Settled(f)'
  BY <1>2, <1>3, <1>4, <1>5, <1>9
<1>. QED
  BY <1>1, <1>6, <1>7, <1>8, <1>9, ConsumerCases

-----------------------------------------------------------------------------
(* The invariant holds. *)

LEMMA Initially ==
    ASSUME Init
    PROVE  IInv
<1>1. /\ task_queue_ = <<Consume>> /\ ready = {} /\ pops = 0
      /\ job = [w \in Workers |-> NoJob] /\ worker = [w \in Workers |-> "top"]
      /\ caller = [c \in Callers |-> NoJob]
      /\ handed = <<>> /\ delivered = [f \in 1..Flushers |-> <<>>]
  BY DEF Init
<1>2. /\ NoJob \in Task /\ Consume \in Task
      /\ NoJob.kind = "none" /\ Consume.kind = "consume"
  BY TaskMembers, TaskKinds
<1>3. TypeOK
  <2>1. TasksTyped
    BY <1>1, <1>2 DEF TasksTyped
  <2>2. ContentTyped
    BY EmptySeq DEF Init, ContentTyped, Batch
  <2>3. FlagsTyped
    BY Zenon DEF Init, FlagsTyped
  <2>4. /\ worker \in [Workers -> Place] /\ issued \in 0..Flushers
        /\ logged \in [Callers -> 0..MaxLogs]
    BY SizesAssumption DEF Init, Place
  <2>. QED
    BY <2>1, <2>2, <2>3, <2>4, TypeParts
<1>4. \A w \in Workers : Fits(w)
  BY <1>1 DEF Fits
<1>5. /\ Len(task_queue_) = 1 /\ task_queue_[1] = Consume
      /\ \A t : Queued(t) => t = Consume
      /\ \A t : Held(t) => t = NoJob
  BY <1>1 DEF Queued, Held
<1>6. Once
  BY <1>1, <1>2, <1>5 DEF Once
<1>7. \A t : Exists(t) => t = Consume \/ t = NoJob
  BY <1>1, <1>5 DEF Exists, Pending
<1>8. /\ \A n : ~Exists(Pop(n))
      /\ \A n, f : ~Exists(Flush(n, f))
      /\ \A m : ~Exists(Push(m))
  <2>1. /\ \A n : Pop(n).kind = "pop"
        /\ \A n, f : Flush(n, f).kind = "flush"
        /\ \A m : Push(m).kind = "push"
    BY TaskKinds
  <2>. QED
    BY <1>2, <1>7, <2>1
<1>9. Awaited
  BY <1>8 DEF Awaited, Exists
<1>10. /\ \A c \in Callers : CallerHolds(c)
       /\ \A m \in Message : Numbered(m)
  BY <1>1, <1>8 DEF CallerHolds, Numbered
<1>11. ~ConsumerAt("get") /\ ~ConsumerAt("flush")
  BY <1>1 DEF ConsumerAt
<1>12. Flow
  BY <1>1, <1>11 DEF Flow, Settled, Owed
<1>. QED
  BY <1>3, <1>4, <1>6, <1>9, <1>10, <1>12 DEF IInv, TInv, Tasks

LEMMA Stays ==
    ASSUME IInv, [Next]_vars
    PROVE  IInv'
<1>1. TInv /\ Tasks /\ Flow /\ Once
  BY DEF IInv, Tasks
<1>2. TInv'
  BY <1>1, TypeStays, FitsStay DEF TInv
<1>3. Tasks'
  BY <1>1, OnceStays, NumbersStay, AwaitedStays DEF Tasks
<1>4. Flow'
  BY <1>1, FlowStays
<1>. QED
  BY <1>2, <1>3, <1>4 DEF IInv

LEMMA Invariant == Spec => []IInv
<1>1. Init => IInv
  BY Initially
<1>2. IInv /\ [Next]_vars => IInv'
  BY Stays
<1>. QED
  BY <1>1, <1>2, PTL DEF Spec

\* Every variable keeps its type: only tasks are queued, held and done, a flush is
\* for one of the outputs, and a worker is in one of its places.
THEOREM TypeCorrect == Spec => []TypeOK
<1>1. IInv => TypeOK
  BY DEF IInv, TInv
<1>. QED
  BY <1>1, Invariant, PTL

\* A task that TaskScheduler was given is queued, or run by one worker, or done,
\* and never two of these, whatever the workers and callers do.
THEOREM EachTaskOnceHolds == Spec => []EachTaskOnce
<1>1. ASSUME IInv
      PROVE  EachTaskOnce
  <2>1. Once /\ task_queue_ \in Seq(Task)
    BY <1>1 DEF IInv, TInv, Tasks, TypeOK
  <2>2. \A t \in ToSet(task_queue_) : Queued(t)
    BY <2>1 DEF ToSet, Queued
  <2>3. /\ \A t \in ToSet(task_queue_) : t \notin ready \cup {job[w] : w \in Workers}
        /\ \A t \in ready : t \notin {job[w] : w \in Workers}
    BY <2>1, <2>2 DEF Once, Held
  <2>4. /\ ToSet(task_queue_) \cap (ready \cup {job[w] : w \in Workers}) = {}
        /\ ready \cap {job[w] : w \in Workers} = {}
    BY <2>3
  <2>. QED
    BY <2>1, <2>4 DEF Once, EachTaskOnce
<1>2. IInv => EachTaskOnce
  BY <1>1
<1>. QED
  BY <1>2, Invariant, PTL

\* Each output of the logger gets the batches the consumer popped in their order
\* and once each, although other workers run the flushes.
THEOREM OutputsInOrderHolds == Spec => []OutputsInOrder
<1>1. IInv => OutputsInOrder
  BY DEF IInv, Flow, Settled, OutputsInOrder
<1>. QED
  BY <1>1, Invariant, PTL

-----------------------------------------------------------------------------
(* The buffer *)

LEMMA ConservationStays ==
    ASSUME TypeOK, Conservation, [Next]_vars
    PROVE  Conservation'
<1>1. /\ buffer_ \in Seq(Message) /\ starts \in Seq(Nat) /\ write_pos_ \in Nat
      /\ handed \in Seq(Message) /\ written \in Seq(Message)
  BY DEF TypeOK, Batch
<1>2. CASE /\ buffer_' = buffer_ /\ starts' = starts /\ write_pos_' = write_pos_
           /\ written' = written /\ handed' = handed
  BY <1>2 DEF Conservation
<1>3. ASSUME NEW w \in Workers, PushWrites(w)
      PROVE  Conservation'
  <2>1. PICK m \in Message : m = job[w].message
    BY <1>3, PushFacts DEF PushWrites, RunsPush
  <2>2. /\ buffer_' = Append(buffer_, m) /\ written' = Append(written, m)
        /\ starts' = Append(starts, write_pos_) /\ write_pos_' = write_pos_ + m.len
        /\ handed' = handed /\ write_pos_ + m.len <= Capacity
    BY <1>3, <2>1 DEF PushWrites, Copies, HasRoom
  <2>3. m.len \in Nat /\ m.len # 0
    BY SizesAssumption DEF Message
  <2>4. handed' \o buffer_' = written'
    <3>1. /\ buffer_' = buffer_ \o <<m>> /\ written' = written \o <<m>>
          /\ <<m>> \in Seq(Message)
      BY <1>1, <2>2, AppendIsConcat
    <3>2. handed \o (buffer_ \o <<m>>) = (handed \o buffer_) \o <<m>>
      BY <1>1, <3>1, ConcatAssociative
    <3>. QED
      BY <2>2, <3>1, <3>2 DEF Conservation
  <2>5. /\ Len(buffer_') = Len(buffer_) + 1 /\ Len(buffer_) \in Nat
        /\ buffer_'[Len(buffer_) + 1] = m
        /\ \A i \in 1..Len(buffer_) : buffer_'[i] = buffer_[i]
    BY <1>1, <2>2, AppendFacts
  <2>6. /\ Len(starts') = Len(starts) + 1
        /\ starts'[Len(starts) + 1] = write_pos_
        /\ \A i \in 1..Len(starts) : starts'[i] = starts[i]
    BY <1>1, <2>2, AppendFacts
  <2>7. Len(starts) = Len(buffer_)
    BY DEF Conservation
  <2>8. ASSUME NEW i \in 1..Len(buffer_')
        PROVE  /\ i = 1 => starts'[i] = 0
               /\ starts'[i] + buffer_'[i].len =
                     IF i < Len(buffer_') THEN starts'[i + 1] ELSE write_pos_'
    <3>1. CASE i = Len(buffer_) + 1
      <4>1. starts'[i] = write_pos_ /\ buffer_'[i] = m /\ ~(i < Len(buffer_'))
        BY <2>5, <2>6, <2>7, <3>1
      <4>2. i = 1 => write_pos_ = 0
        <5>1. i = 1 => buffer_ = <<>>
          BY <1>1, <2>5, <3>1, EmptySeq
        <5>. QED
          BY <5>1 DEF Conservation
      <4>. QED
        BY <2>2, <4>1, <4>2
    <3>2. CASE i \in 1..Len(buffer_)
      <4>1. /\ i = 1 => starts[i] = 0
            /\ starts[i] + buffer_[i].len =
                  IF i < Len(buffer_) THEN starts[i + 1] ELSE write_pos_
        BY <3>2 DEF Conservation
      <4>2. /\ starts'[i] = starts[i] /\ buffer_'[i] = buffer_[i] /\ i < Len(buffer_')
        BY <2>5, <2>6, <2>7, <3>2
      <4>3. starts'[i + 1] = IF i < Len(buffer_) THEN starts[i + 1] ELSE write_pos_
        <5>1. CASE i < Len(buffer_)
          <6>1. i + 1 \in 1..Len(starts)
            BY <2>5, <2>7, <3>2, <5>1
          <6>. QED
            BY <2>6, <5>1, <6>1
        <5>2. CASE ~(i < Len(buffer_))
          <6>1. i + 1 = Len(starts) + 1
            BY <2>5, <2>7, <3>2, <5>2
          <6>. QED
            BY <2>6, <5>2, <6>1
        <5>. QED
          BY <5>1, <5>2
      <4>. QED
        BY <4>1, <4>2, <4>3
    <3>. QED
      BY <2>5, <3>1, <3>2
  <2>9. buffer_' # <<>> /\ write_pos_' <= Capacity
    <3>1. Len(buffer_') # 0
      BY <2>5
    <3>2. buffer_' # <<>>
      BY <3>1
    <3>. QED
      BY <2>2, <3>2
  <2>10. Len(starts') = Len(buffer_')
    BY <2>5, <2>6, <2>7
  <2>. QED
    BY <2>4, <2>8, <2>9, <2>10 DEF Conservation
<1>4. ASSUME NEW w \in Workers, PopReads(w)
      PROVE  Conservation'
  <2>1. /\ handed' = handed \o buffer_ /\ written' = written
        /\ buffer_' = <<>> /\ starts' = <<>> /\ write_pos_' = 0
    BY <1>4, Zenon DEF PopReads
  <2>2. handed' \o buffer_' = written'
    <3>1. handed \o buffer_ \in Seq(Message)
      BY <1>1, ConcatProperties
    <3>2. (handed \o buffer_) \o <<>> = handed \o buffer_
      BY <3>1, ConcatEmptySeq
    <3>. QED
      BY <2>1, <3>2 DEF Conservation
  <2>3. Len(starts') = 0 /\ Len(buffer_') = 0
    BY <2>1
  <2>4. 0 <= Capacity
    BY SizesAssumption
  <2>. QED
    BY <2>1, <2>2, <2>3, <2>4 DEF Conservation
<1>5. ASSUME NEW w \in Workers, FlushRuns(w)
      PROVE  Conservation'
  <2>1. /\ buffer_' = buffer_ /\ starts' = starts /\ write_pos_' = write_pos_
        /\ written' = written /\ handed' = handed
    BY <1>5 DEF FlushRuns, buffer, content
  <2>. QED
    BY <1>2, <2>1
<1>. QED
  BY <1>2, <1>3, <1>4, <1>5, BufferSteps

\* What AsyncBuffer gave the pops, with what it still holds, is what the pushes
\* copied into it; the messages lie in it without gap or overlap, and write_pos_
\* never passes the size the buffer was created with.
THEOREM ConservationHolds == Spec => []Conservation
<1>1. Init => TypeOK /\ Conservation
  <2>1. ASSUME Init
        PROVE  TypeOK /\ Conservation
    <3>1. TypeOK
      BY <2>1, Initially DEF IInv, TInv
    <3>2. /\ handed = <<>> /\ buffer_ = <<>> /\ starts = <<>> /\ written = <<>>
          /\ write_pos_ = 0
      BY <2>1 DEF Init
    <3>3. handed \o buffer_ = written /\ Len(starts) = 0 /\ Len(buffer_) = 0
      BY <3>2
    <3>. QED
      BY <3>1, <3>2, <3>3, SizesAssumption DEF Conservation
  <2>. QED
    BY <2>1
<1>2. TypeOK /\ Conservation /\ [Next]_vars => Conservation'
  BY ConservationStays
<1>. QED
  BY <1>1, <1>2, TypeCorrect, PTL DEF Spec

\* A buffer that was stopped stays stopped.
LEMMA StaysStopped ==
    ASSUME [Next]_vars, ~buffer_running_
    PROVE  ~buffer_running_'
<1>1. StopLogger => buffer_running_' = buffer_running_
  BY Zenon DEF StopLogger, buffer
<1>2. StopBuffer => buffer_running_' = FALSE
  BY Zenon DEF StopBuffer
<1>3. StopScheduler \/ JoinWorkers => buffer_running_' = buffer_running_
  BY Zenon DEF StopScheduler, JoinWorkers, buffer
<1>. QED
  BY <1>1, <1>2, <1>3, OwnerSteps, Zenon

\* What was written stays written.
LEMMA StaysWritten ==
    ASSUME TypeOK, [Next]_vars, NEW m, \E i \in 1..Len(written) : written[i] = m
    PROVE  \E i \in 1..Len(written') : written'[i] = m
<1>1. written \in Seq(Message)
  BY DEF TypeOK, Batch
<1>2. PICK i \in 1..Len(written) : written[i] = m
  OBVIOUS
<1>3. ASSUME NEW w \in Workers, PushWrites(w)
      PROVE  i \in 1..Len(written') /\ written'[i] = written[i]
  <2>1. job[w].message \in Message /\ written' = Append(written, job[w].message)
    BY <1>3, PushFacts DEF PushWrites, RunsPush, Copies
  <2>. QED
    BY <1>1, <2>1, AppendFacts
<1>4. ASSUME NEW w \in Workers, PopReads(w) \/ FlushRuns(w)
      PROVE  written' = written
  BY <1>4 DEF PopReads, FlushRuns
<1>. QED
  BY <1>2, <1>3, <1>4, BufferSteps

\* A push whose future is ready has copied its message, unless the buffer was
\* stopped: PushDrops is the only way out without it.
THEOREM ReadyMeansWrittenHolds == Spec => []ReadyMeansWritten
<1>1. Init => ReadyMeansWritten
  BY DEF Init, ReadyMeansWritten
<1>2. ASSUME IInv, ReadyMeansWritten, [Next]_vars
      PROVE  ReadyMeansWritten'
  <2>. SUFFICES ASSUME NEW m \in Message, Push(m) \in ready'
                PROVE  (\E i \in 1..Len(written') : written'[i] = m) \/ ~buffer_running_'
    BY DEF ReadyMeansWritten
  <2>1. /\ TInv /\ Tasks /\ TypeOK /\ written \in Seq(Message)
        /\ Push(m).kind = "push" /\ Push(m).message = m
    BY <1>2, TaskKinds DEF IInv, TInv, TypeOK, Batch
  <2>2. CASE Push(m) \in ready
    <3>1. (\E i \in 1..Len(written) : written[i] = m) \/ ~buffer_running_
      BY <1>2, <2>2 DEF ReadyMeansWritten
    <3>. QED
      BY <1>2, <2>1, <3>1, StaysWritten, StaysStopped
  <2>3. CASE Push(m) \notin ready
    <3>1. PICK w \in Workers : /\ ready' = ready \cup {job[w]}
                               /\ \/ PushDrops(w) \/ PushWrites(w) \/ PopReads(w)
                                  \/ ConsumerEnds(w) \/ FlushRuns(w)
      BY <1>2, <2>3, TaskSteps DEF NoTask, Takes, Queues, Finishes
    <3>2. job[w] = Push(m)
      BY <2>3, <3>1
    <3>3. PushDrops(w) \/ PushWrites(w)
      <4>1. job[w].kind = "push" /\ Consume.kind # "push"
        BY <2>1, <3>2, TaskKinds
      <4>. QED
        BY <2>1, <3>1, <4>1 DEF PopReads, RunsPop, FlushRuns, ConsumerEnds, TInv, Fits
    <3>4. CASE PushDrops(w)
      BY <1>2, <3>4, StaysStopped DEF PushDrops
    <3>5. CASE PushWrites(w)
      <4>1. written' = Append(written, m)
        BY <2>1, <3>2, <3>5 DEF PushWrites, Copies
      <4>2. Len(written) + 1 \in 1..Len(written') /\ written'[Len(written) + 1] = m
        BY <2>1, <4>1, AppendFacts
      <4>. QED
        BY <4>2
    <3>. QED
      BY <3>3, <3>4, <3>5
  <2>. QED
    BY <2>2, <2>3
<1>3. IInv /\ ReadyMeansWritten /\ [Next]_vars => ReadyMeansWritten'
  BY <1>2
<1>. QED
  BY <1>1, <1>3, Invariant, PTL DEF Spec

-----------------------------------------------------------------------------
(* Nobody misses a notification *)

\* How a worker comes to wait, and how it stops contending for the mutex.
LEMMA WaitsAndLeaves ==
    ASSUME TypeOK, [Next]_vars, NEW v \in Workers
    PROVE  /\ worker'[v] = "asleep" => worker[v] = "asleep" \/ WorkerWaits(v)
           /\ worker'[v] = "read_wait" => worker[v] = "read_wait" \/ PopWaits(v)
           /\ worker'[v] = "write_wait" => worker[v] = "write_wait" \/ PushWaits(v)
           /\ worker[v] = "lock" => \/ worker'[v] = "lock"
                                    \/ WorkerWaits(v) \/ WorkerBreaks(v) \/ WorkerTakes(v)
<1>. DEFINE Expected ==
              /\ worker'[v] = "asleep" => worker[v] = "asleep" \/ WorkerWaits(v)
              /\ worker'[v] = "read_wait" => worker[v] = "read_wait" \/ PopWaits(v)
              /\ worker'[v] = "write_wait" => worker[v] = "write_wait" \/ PushWaits(v)
              /\ worker[v] = "lock" => \/ worker'[v] = "lock"
                                       \/ WorkerWaits(v) \/ WorkerBreaks(v) \/ WorkerTakes(v)
<1>1. CASE Woken(v)
  BY <1>1 DEF Woken
<1>2. Wakes => Expected
  BY <1>1 DEF Wakes
<1>3. ASSUME NEW w \in Workers, NEW place, Moves(w, place), w # v
      PROVE  Expected
  BY <1>1, <1>3 DEF Moves
<1>4. ASSUME NEW place \in {"top", "run", "loop", "get", "flush"}, Moves(v, place),
             worker[v] # "lock"
      PROVE  Expected
  BY <1>4 DEF Moves
<1>. HIDE DEF Expected
<1>5. ASSUME NEW w \in Workers, Worker(w)
      PROVE  Expected
  <2>1. Wakes \/ \E place : Moves(w, place)
    BY <1>5, WorkerMoves DEF Worker
  <2>2. CASE w # v
    BY <1>2, <1>3, <2>1, <2>2
  <2>3. CASE w = v
    <3>1. WorkerTestsStop(v) => Expected
      <4>1. WorkerTestsStop(v) => worker[v] = "top" /\ (Moves(v, "lock") \/ Moves(v, "exited"))
        BY WorkerMoves DEF WorkerTestsStop
      <4>. QED
        BY <4>1 DEF Moves, Expected
    <3>2. WorkerWaits(v) \/ WorkerBreaks(v) \/ WorkerTakes(v) => Expected
      <4>1. /\ WorkerWaits(v) => Moves(v, "asleep")
            /\ WorkerBreaks(v) => Moves(v, "exited")
            /\ WorkerTakes(v) => Moves(v, "loop") \/ Moves(v, "run")
        BY WorkerMoves
      <4>. QED
        BY <4>1 DEF Moves, Expected
    <3>3. PushWaits(v) => Expected
      <4>1. PushWaits(v) => worker[v] = "run" /\ Moves(v, "write_wait")
        BY WorkerMoves DEF PushWaits, RunsPush
      <4>. QED
        BY <4>1 DEF Moves, Expected
    <3>4. PopWaits(v) => Expected
      <4>1. PopWaits(v) => worker[v] = "run" /\ Moves(v, "read_wait")
        BY WorkerMoves DEF PopWaits, RunsPop
      <4>. QED
        BY <4>1 DEF Moves, Expected
    <3>5. PushDrops(v) \/ PushWrites(v) \/ PopReads(v) \/ FlushRuns(v) => Expected
      <4>1. PushDrops(v) \/ PushWrites(v) \/ PopReads(v) \/ FlushRuns(v)
               => worker[v] = "run" /\ Moves(v, "top")
        BY WorkerMoves DEF PushDrops, PushWrites, RunsPush, PopReads, RunsPop, FlushRuns
      <4>. QED
        BY <4>1, <1>4
    <3>6. ConsumerPops(v) \/ ConsumerEnds(v) \/ ConsumerGets(v) \/ ConsumerWaits(v) => Expected
      <4>1. ConsumerPops(v) \/ ConsumerEnds(v) \/ ConsumerGets(v) \/ ConsumerWaits(v)
               => worker[v] \in {"loop", "get", "flush"}
        BY Zenon DEF ConsumerPops, ConsumerEnds, ConsumerGets, ConsumerWaits
      <4>2. ConsumerPops(v) \/ ConsumerEnds(v) \/ ConsumerGets(v) \/ ConsumerWaits(v)
               => \E place \in {"top", "loop", "get", "flush"} : Moves(v, place)
        BY WorkerMoves
      <4>. QED
        BY <4>1, <4>2, <1>4
    <3>7. ConsumerFlushes(v) => Expected
      BY <1>2, WorkerMoves
    <3>. QED
      BY <1>5, <2>3, <3>1, <3>2, <3>3, <3>4, <3>5, <3>6, <3>7 DEF Worker
  <2>. QED
    BY <2>2, <2>3
<1>6. ASSUME NEW w \in Workers, SpuriousWakeup(w)
      PROVE  Expected
  BY <1>2, <1>6, WorkerMoves
<1>. QED
  BY <1>2, <1>5, <1>6, StepCases, OthersWake DEF Expected

LEMMA Places ==
    /\ \A place : At(place) \subseteq Workers /\ At(place)' \subseteq Workers
    /\ \A v \in Workers : \A place : v \in At(place) <=> worker[v] = place
    /\ \A v \in Workers : \A place : v \in At(place)' <=> worker'[v] = place
BY DEF At

\* How many workers are at a place, and how one more or less counts.
LEMMA PlacesCounted ==
    ASSUME NEW place
    PROVE  /\ Cardinality(At(place)) \in Nat /\ Cardinality(At(place)') \in Nat
           /\ At(place) \subseteq At(place)' => Cardinality(At(place)) <= Cardinality(At(place)')
           /\ \A v \in Workers : v \in At(place)' \ At(place) /\ At(place) \subseteq At(place)'
                 => Cardinality(At(place)) + 1 <= Cardinality(At(place)')
           /\ \A v \in Workers : v \in At(place) /\ At(place) \ {v} \subseteq At(place)'
                 => Cardinality(At(place)) - 1 <= Cardinality(At(place)')
<1>1. IsFiniteSet(At(place)) /\ IsFiniteSet(At(place)')
  BY Places, SizesAssumption, FS_Subset
<1>2. Cardinality(At(place)) \in Nat /\ Cardinality(At(place)') \in Nat
  BY <1>1, FS_CardinalityType
<1>3. At(place) \subseteq At(place)' => Cardinality(At(place)) <= Cardinality(At(place)')
  BY <1>1, FS_Subset
<1>4. ASSUME NEW v \in Workers, v \in At(place)', v \notin At(place),
             At(place) \subseteq At(place)'
      PROVE  Cardinality(At(place)) + 1 <= Cardinality(At(place)')
  <2>1. IsFiniteSet(At(place) \cup {v}) /\ Cardinality(At(place) \cup {v}) = Cardinality(At(place)) + 1
    BY <1>1, <1>4, FS_AddElement
  <2>2. At(place) \cup {v} \subseteq At(place)'
    BY <1>4
  <2>. QED
    BY <1>1, <2>1, <2>2, FS_Subset
<1>5. ASSUME NEW v \in Workers, v \in At(place), At(place) \ {v} \subseteq At(place)'
      PROVE  Cardinality(At(place)) - 1 <= Cardinality(At(place)')
  <2>1. Cardinality(At(place) \ {v}) = Cardinality(At(place)) - 1
    BY <1>1, <1>5, FS_RemoveElement
  <2>. QED
    BY <1>1, <1>5, <2>1, FS_Subset
<1>. QED
  BY <1>2, <1>3, <1>4, <1>5

\* async_execute wakes a worker, if one sleeps.
LEMMA QueueWakesOne ==
    ASSUME NEW t, NEW now \in [Workers -> Place], Queue(t, now),
           NEW u \in Workers, now[u] = "asleep"
    PROVE  \E v \in Workers : now[v] = "asleep" /\ worker'[v] = "lock"
<1>1. worker' \in {[now EXCEPT ![w] = "lock"] : w \in {w \in Workers : now[w] = "asleep"}}
  BY DEF Queue, NotifyOne
<1>2. PICK w \in Workers : now[w] = "asleep" /\ worker' = [now EXCEPT ![w] = "lock"]
  BY <1>1
<1>. QED
  BY <1>2

LEMMA QueuersWakeOne ==
    ASSUME TypeOK, NEW u \in Workers, worker[u] = "asleep",
           \/ \E w \in Workers : ConsumerPops(w) \/ ConsumerFlushes(w)
           \/ \E c \in Callers : LogQueues(c)
    PROVE  \E v \in Workers : worker[v] = "asleep" /\ worker'[v] = "lock"
<1>1. worker \in [Workers -> Place] /\ "get" \in Place
  BY DEF TypeOK, Place
<1>2. ASSUME NEW t, Queue(t, worker)
      PROVE  \E v \in Workers : worker[v] = "asleep" /\ worker'[v] = "lock"
  BY <1>1, <1>2, QueueWakesOne
<1>3. ASSUME NEW w \in Workers, ConsumerPops(w)
      PROVE  \E v \in Workers : worker[v] = "asleep" /\ worker'[v] = "lock"
  <2>. DEFINE now == [worker EXCEPT ![w] = "get"]
  <2>1. worker[w] = "loop" /\ Queue(Pop(pops'), now)
    BY <1>3 DEF ConsumerPops
  <2>2. now \in [Workers -> Place] /\ \A v \in Workers : now[v] = "asleep" <=> worker[v] = "asleep"
    BY <1>1, <2>1
  <2>. HIDE DEF now
  <2>. QED
    BY <2>1, <2>2, QueueWakesOne
<1>4. ASSUME NEW w \in Workers, ConsumerFlushes(w)
      PROVE  \E v \in Workers : worker[v] = "asleep" /\ worker'[v] = "lock"
  BY <1>2, <1>4 DEF ConsumerFlushes
<1>5. ASSUME NEW c \in Callers, LogQueues(c)
      PROVE  \E v \in Workers : worker[v] = "asleep" /\ worker'[v] = "lock"
  BY <1>2, <1>5 DEF LogQueues
<1>. QED
  BY <1>3, <1>4, <1>5

\* A worker goes to sleep with nothing queued, a task is queued with a
\* notification, and who takes one had been on its way to it.
LEMMA SleepersStaySpare ==
    ASSUME TypeOK, SleepersAreSpare, [Next]_vars
    PROVE  SleepersAreSpare'
<1>. SUFFICES ASSUME NEW u \in Workers, worker'[u] = "asleep"
              PROVE  ~stop_' /\ Len(task_queue_') <= Cardinality(At("lock")')
  BY Places DEF SleepersAreSpare
<1>1. task_queue_ \in Seq(Task) /\ Len(task_queue_) \in Nat
  BY LenProperties DEF TypeOK
<1>2. CASE WorkerWaits(u)
  <2>1. stop_' = stop_ /\ ~stop_ /\ task_queue_' = <<>>
    BY <1>2 DEF WorkerWaits, scheduler
  <2>. QED
    BY <2>1, PlacesCounted
<1>3. CASE ~WorkerWaits(u)
  <2>1. worker[u] = "asleep"
    BY <1>3, WaitsAndLeaves
  <2>2. ~stop_ /\ Len(task_queue_) <= Cardinality(At("lock"))
    BY <2>1, Places DEF SleepersAreSpare
  <2>3. ~StopScheduler
    BY DEF StopScheduler, NotifyAll
  <2>4. stop_' = stop_
    BY <2>3, OwnerSteps DEF StopLogger, StopBuffer, JoinWorkers, scheduler
  <2>5. \A v \in Workers : worker[v] = "lock" => \/ worker'[v] = "lock"
                                                 \/ WorkerWaits(v) \/ WorkerTakes(v)
    BY <2>2, WaitsAndLeaves DEF WorkerBreaks
  <2>6. CASE \E w \in Workers : WorkerWaits(w)
    <3>1. task_queue_' = <<>>
      BY <2>6 DEF WorkerWaits, scheduler
    <3>. QED
      BY <2>2, <2>4, <3>1, PlacesCounted
  <2>7. ASSUME NEW w \in Workers, WorkerTakes(w)
        PROVE  Len(task_queue_') <= Cardinality(At("lock")')
    <3>1. /\ task_queue_ # <<>> /\ task_queue_' = Tail(task_queue_) /\ worker[w] = "lock"
          /\ worker' = [worker EXCEPT ![w] =
                           IF Head(task_queue_) = Consume THEN "loop" ELSE "run"]
      BY <2>7 DEF WorkerTakes
    <3>2. Len(task_queue_') = Len(task_queue_) - 1
      BY <1>1, <3>1
    <3>3. At("lock") \ {w} \subseteq At("lock")' /\ w \in At("lock")
      BY <3>1, Places DEF TypeOK
    <3>. QED
      BY <1>1, <2>2, <3>2, <3>3, PlacesCounted
  <2>8. CASE ~ \E w \in Workers : WorkerWaits(w) \/ WorkerTakes(w)
    <3>1. At("lock") \subseteq At("lock")'
      BY <2>5, <2>8, Places
    <3>2. CASE task_queue_' = task_queue_
      BY <1>1, <2>2, <2>4, <3>1, <3>2, PlacesCounted
    <3>3. CASE \/ \E w \in Workers : Queues(Pop(pops + 1)) /\ ConsumerPops(w)
               \/ \E w \in Workers : Queues(Flush(pops, issued + 1)) /\ ConsumerFlushes(w)
               \/ \E c \in Callers : Queues(caller[c]) /\ LogQueues(c)
      <4>1. PICK v \in Workers : worker[v] = "asleep" /\ worker'[v] = "lock"
        BY <2>1, <3>3, QueuersWakeOne
      <4>2. v \in At("lock")' \ At("lock")
        BY <4>1, Places
      <4>3. \E t : task_queue_' = Append(task_queue_, t)
        BY <3>3 DEF Queues
      <4>4. Len(task_queue_') = Len(task_queue_) + 1
        BY <1>1, <4>3
      <4>. QED
        BY <1>1, <2>2, <2>4, <3>1, <4>2, <4>4, PlacesCounted
    <3>. QED
      BY <2>8, <3>2, <3>3, TaskSteps DEF NoTask, Finishes
  <2>. QED
    BY <2>2, <2>4, <2>6, <2>7, <2>8
<1>. QED
  BY <1>2, <1>3

\* There is one pop at a time, so one worker that runs or waits in it.
LEMMA OnePop ==
    ASSUME TInv, Tasks,
           NEW v \in Workers, job[v].kind = "pop", NEW w \in Workers, job[w].kind = "pop"
    PROVE  v = w
<1>1. TypeOK /\ Once /\ Awaited
  BY DEF TInv, Tasks
<1>2. PICK m \in Nat, n \in Nat : job[v] = Pop(m) /\ job[w] = Pop(n)
  BY <1>1, PopFacts
<1>3. m = pops /\ n = pops
  BY <1>1, <1>2 DEF Awaited, Pending, Held
<1>. QED
  BY <1>1, <1>2, <1>3, TaskKinds DEF Once

\* The pop waits in an empty buffer; a push that fills it wakes the pop.
LEMMA ReaderStaysIdle ==
    ASSUME IInv, ReaderHasNothing, [Next]_vars
    PROVE  ReaderHasNothing'
<1>. SUFFICES ASSUME NEW v \in Workers, worker'[v] = "read_wait"
              PROVE  write_pos_' = 0 /\ buffer_running_'
  BY Places DEF ReaderHasNothing
<1>1. TInv /\ Tasks /\ TypeOK /\ worker \in [Workers -> Place]
  BY DEF IInv, TInv, TypeOK
<1>2. CASE PopWaits(v)
  BY <1>2 DEF PopWaits, buffer, content
<1>3. CASE ~PopWaits(v)
  <2>1. worker[v] = "read_wait"
    BY <1>1, <1>3, WaitsAndLeaves
  <2>2. write_pos_ = 0 /\ buffer_running_ /\ job[v].kind = "pop"
    BY <1>1, <2>1, Places DEF ReaderHasNothing, TInv, Fits
  <2>3. ~StopBuffer
    BY DEF StopBuffer, NotifyAll
  <2>4. buffer_running_' = buffer_running_
    BY <2>3, OwnerSteps DEF StopLogger, StopScheduler, JoinWorkers, buffer
  <2>5. ASSUME NEW w \in Workers, PopReads(w)
        PROVE  FALSE
    <3>1. v = w
      BY <1>1, <2>2, <2>5, OnePop DEF PopReads, RunsPop
    <3>. QED
      BY <2>1, <2>5, <3>1 DEF PopReads, RunsPop
  <2>6. ASSUME NEW w \in Workers, PushWrites(w)
        PROVE  FALSE
    <3>1. PICK now \in NotifyOne(worker, "read_wait", "run") : worker' = [now EXCEPT ![w] = "top"]
      BY <2>6 DEF PushWrites, Returns
    <3>2. PICK u \in Workers : worker[u] = "read_wait" /\ now = [worker EXCEPT ![u] = "run"]
      BY <2>1, <3>1 DEF NotifyOne
    <3>3. u # v /\ job[u].kind = "pop"
      BY <1>1, <3>1, <3>2 DEF TInv, Fits
    <3>. QED
      BY <1>1, <2>2, <3>3, OnePop
  <2>7. write_pos_' = write_pos_
    BY <2>5, <2>6, BufferSteps DEF FlushRuns, buffer, content
  <2>. QED
    BY <2>2, <2>4, <2>7
<1>. QED
  BY <1>2, <1>3

\* A push goes on as it waits, drops or writes, and in no other step.
LEMMA PushRunsOn ==
    ASSUME TypeOK, [Next]_vars, NEW w \in Workers, RunsPush(w),
           ~PushWaits(w), ~PushDrops(w), ~PushWrites(w)
    PROVE  worker'[w] = "run" /\ job'[w] = job[w]
<1>. DEFINE Kept == worker'[w] = "run" /\ job'[w] = job[w]
<1>1. worker[w] = "run" /\ job[w].kind = "push" /\ job \in [Workers -> Task]
  BY DEF RunsPush, TypeOK
<1>2. ~Worker(w)
  BY <1>1 DEF Worker, WorkerTestsStop, WorkerWaits, WorkerBreaks, WorkerTakes, PopWaits,
        PopReads, RunsPop, ConsumerPops, ConsumerEnds, ConsumerGets, ConsumerFlushes,
        ConsumerWaits, FlushRuns
<1>3. Wakes \/ \E v \in Workers \ {w} : \E place : Moves(v, place)
  <2>1. ASSUME NEW v \in Workers, Worker(v)
        PROVE  Wakes \/ (v # w /\ \E place : Moves(v, place))
    BY <1>2, <2>1, WorkerMoves DEF Worker
  <2>2. \A v \in Workers : SpuriousWakeup(v) => Wakes
    BY WorkerMoves
  <2>. QED
    BY <2>1, <2>2, StepCases, OthersWake
<1>4. worker'[w] = "run"
  BY <1>1, <1>3 DEF Wakes, Moves, Woken
<1>5. job'[w] = job[w]
  <2>1. ASSUME NEW v \in Workers, Worker(v)
        PROVE  v # w
    BY <1>2, <2>1
  <2>2. \A v \in Workers : Takes(v) /\ WorkerTakes(v) => v # w /\ job' = [job EXCEPT ![v] = Head(task_queue_)]
    BY <2>1 DEF Worker, Takes
  <2>3. \A v \in Workers :
           Finishes(v) /\ (PushDrops(v) \/ PushWrites(v) \/ PopReads(v) \/ ConsumerEnds(v) \/ FlushRuns(v))
              => v # w /\ job' = [job EXCEPT ![v] = NoJob]
    BY <2>1 DEF Worker, Finishes
  <2>. QED
    BY <1>1, <2>2, <2>3, TaskSteps DEF NoTask, Queues
<1>. QED
  BY <1>4, <1>5

\* A push waits behind messages that can be popped; the pop that takes them wakes
\* a push, and whatever a push does leaves something in the buffer.
LEMMA WriterKeepsHope ==
    ASSUME IInv, WriterHasHope, [Next]_vars
    PROVE  WriterHasHope'
<1>. SUFFICES ASSUME NEW v \in Workers, worker'[v] = "write_wait",
                     \A len \in Lens : len <= Capacity
              PROVE  buffer_running_' /\ (write_pos_' # 0 \/ \E w \in Workers : RunsPush(w)')
  BY Places DEF WriterHasHope
<1>1. TInv /\ Tasks /\ TypeOK /\ worker \in [Workers -> Place] /\ write_pos_ \in Nat
  BY DEF IInv, TInv, TypeOK
<1>2. ASSUME NEW w \in Workers, PushWaits(w)
      PROVE  write_pos_ # 0 /\ write_pos_' = write_pos_ /\ buffer_running_ /\ buffer_running_'
  <2>1. /\ ~HasRoom(job[w].message) /\ buffer_running_ /\ job[w].kind = "push"
        /\ write_pos_' = write_pos_ /\ buffer_running_' = buffer_running_
    BY <1>2 DEF PushWaits, RunsPush, buffer, content
  <2>2. job[w].message.len \in Lens
    BY <1>1, <2>1, PushFacts DEF Message
  <2>3. job[w].message.len <= Capacity /\ job[w].message.len \in Nat
    BY <1>1, <2>1, <2>2, PushFacts
  <2>. QED
    BY <1>1, <2>1, <2>3, SizesAssumption DEF HasRoom
<1>3. CASE \E w \in Workers : PushWaits(w)
  BY <1>2, <1>3
<1>4. CASE ~ \E w \in Workers : PushWaits(w)
  <2>1. worker[v] = "write_wait"
    BY <1>1, <1>4, WaitsAndLeaves
  <2>2. buffer_running_ /\ (write_pos_ # 0 \/ \E w \in Workers : RunsPush(w))
    BY <2>1, Places DEF WriterHasHope
  <2>3. ~StopBuffer
    BY DEF StopBuffer, NotifyAll
  <2>4. buffer_running_' = buffer_running_
    BY <2>3, OwnerSteps DEF StopLogger, StopScheduler, JoinWorkers, buffer
  <2>5. ASSUME NEW w \in Workers, PopReads(w)
        PROVE  \E u \in Workers : RunsPush(u)'
    <3>1. PICK now \in NotifyOne(worker, "write_wait", "run") : worker' = [now EXCEPT ![w] = "top"]
      <4>1. CASE write_pos_ # 0
        BY <2>5, <4>1 DEF PopReads, Returns
      <4>2. CASE write_pos_ = 0
        BY <2>2, <2>5, <4>2 DEF PopReads
      <4>. QED
        BY <4>1, <4>2
    <3>2. PICK u \in Workers : worker[u] = "write_wait" /\ now = [worker EXCEPT ![u] = "run"]
      BY <2>1, <3>1 DEF NotifyOne
    <3>3. w # u /\ worker[w] = "run" /\ job' = [job EXCEPT ![w] = NoJob]
      BY <2>5, <3>2 DEF PopReads, RunsPop, Returns
    <3>4. job[u].kind = "push"
      BY <1>1, <3>2 DEF TInv, Fits
    <3>5. worker'[u] = "run" /\ job'[u] = job[u]
      BY <1>1, <3>1, <3>2, <3>3 DEF TypeOK
    <3>. QED
      BY <3>4, <3>5 DEF RunsPush
  <2>6. ASSUME NEW w \in Workers, PushWrites(w)
        PROVE  write_pos_' # 0
    <3>1. job[w].message.len \in Nat /\ job[w].message.len # 0
      BY <1>1, <2>6, PushFacts DEF PushWrites, RunsPush
    <3>2. write_pos_' = write_pos_ + job[w].message.len
      BY <2>6 DEF PushWrites, Copies
    <3>. QED
      BY <1>1, <3>1, <3>2
  <2>7. CASE write_pos_' = write_pos_ /\ ~ \E w \in Workers : PopReads(w) \/ PushWrites(w)
    <3>1. CASE write_pos_ # 0
      BY <2>2, <2>4, <2>7, <3>1
    <3>2. ASSUME NEW w \in Workers, RunsPush(w)
          PROVE  RunsPush(w)'
      <4>1. ~PushDrops(w)
        BY <2>2 DEF PushDrops
      <4>2. worker'[w] = "run" /\ job'[w] = job[w]
        BY <1>1, <1>4, <2>7, <3>2, <4>1, PushRunsOn
      <4>. QED
        BY <3>2, <4>2 DEF RunsPush
    <3>. QED
      BY <2>2, <2>4, <3>1, <3>2
  <2>. QED
    BY <2>2, <2>4, <2>5, <2>6, <2>7, BufferSteps DEF FlushRuns, buffer, content
<1>. QED
  BY <1>3, <1>4

\* Nobody misses a notification, however many workers, callers and outputs there
\* are, whatever the size of the buffer, and whenever the logger is stopped.
THEOREM NoMissedWakeupHolds == Spec => []NoMissedWakeup
<1>1. Init => NoMissedWakeup
  BY Places DEF Init, NoMissedWakeup, SleepersAreSpare, ReaderHasNothing, WriterHasHope, At
<1>2. IInv /\ NoMissedWakeup /\ [Next]_vars => NoMissedWakeup'
  BY SleepersStaySpare, ReaderStaysIdle, WriterKeepsHope DEF NoMissedWakeup, IInv, TInv
<1>. QED
  BY <1>1, <1>2, Invariant, PTL DEF Spec

-----------------------------------------------------------------------------
(* CoroutineLogger implements LogFanout. *)

\* The pop takes all that was written, and no output is owed anything then.
LEMMA PopTakes ==
    ASSUME IInv, Conservation, NEW w \in Workers, PopReads(w)
    PROVE  Fanout!Take
<1>1. ~ConsumerAt("flush") /\ Pop(pops) \notin ready
  BY RunsPopFacts DEF IInv, PopReads
<1>2. \A f \in 1..Flushers : delivered[f] = handed
  BY <1>1 DEF IInv, Flow, Settled, Owed
<1>3. handed' = written /\ written' = written /\ delivered' = delivered
  BY DEF PopReads, Conservation
<1>. QED
  BY <1>2, <1>3 DEF Fanout!Take

\* A flush gives its output what it is owed: the rest of what was taken.
LEMMA FlushDelivers ==
    ASSUME IInv, NEW w \in Workers, FlushRuns(w)
    PROVE  \E f \in 1..Flushers : Fanout!Deliver(f)
<1>1. /\ job[w].to \in 1..Flushers
      /\ ConsumerAt("flush") /\ Flush(pops, job[w].to) \notin ready
  BY RunsFlushFacts DEF IInv
<1>2. delivered[job[w].to] \o data = handed
  BY <1>1 DEF IInv, Flow, Settled, Owed
<1>3. /\ delivered' = [delivered EXCEPT ![job[w].to] = delivered[job[w].to] \o data]
      /\ written' = written /\ handed' = handed
  BY DEF FlushRuns
<1>. QED
  BY <1>1, <1>2, <1>3 DEF Fanout!Deliver

\* CoroutineLogger implements LogFanout, for any number of workers and outputs:
\* a push accepts, a pop takes all there is, when every output has been given what
\* was taken before, a flush delivers the batch, and no other step of the
\* scheduler, the consumer or the shutdown is seen.
THEOREM ImplementsHolds == Spec => Implements
<1>1. Init => Fanout!Init
  BY DEF Init, Fanout!Init
<1>2. IInv /\ Conservation /\ [Next]_vars => [Fanout!Next]_Fanout!vars
  <2>. SUFFICES ASSUME IInv, Conservation, [Next]_vars
                PROVE  Fanout!Next \/ UNCHANGED Fanout!vars
    OBVIOUS
  <2>1. CASE written' = written /\ handed' = handed /\ delivered' = delivered
    BY <2>1 DEF Fanout!vars
  <2>2. ASSUME NEW w \in Workers, PushWrites(w)
        PROVE  Fanout!Accept
    <3>1. /\ job[w].message \in Message
          /\ written' = Append(written, job[w].message)
          /\ handed' = handed /\ delivered' = delivered
      BY <2>2, PushFacts DEF PushWrites, RunsPush, Copies, IInv, TInv
    <3>. QED
      BY <3>1 DEF Fanout!Accept
  <2>3. ASSUME NEW w \in Workers, PopReads(w)
        PROVE  Fanout!Take
    BY <2>3, PopTakes
  <2>4. ASSUME NEW w \in Workers, FlushRuns(w)
        PROVE  \E f \in 1..Flushers : Fanout!Deliver(f)
    BY <2>4, FlushDelivers
  <2>. QED
    BY <2>1, <2>2, <2>3, <2>4, BufferSteps DEF Fanout!Next
<1>. QED
  BY <1>1, <1>2, Invariant, ConservationHolds, PTL DEF Spec, Implements, Fanout!Spec

=============================================================================
