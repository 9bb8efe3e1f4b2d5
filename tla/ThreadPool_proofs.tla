-------------------------- MODULE ThreadPool_proofs --------------------------
(***************************************************************************)
(* Proofs about ThreadPool, for any finite number of workers, any set of   *)
(* callers and any number of calls.                                        *)
(***************************************************************************)
EXTENDS ThreadPool, SequenceTheorems, FiniteSetTheorems, TLAPS

\* Type correctness.
THEOREM TypeCorrect == Spec => []TypeOK
<1>1. Init => TypeOK
  <2>1. <<>> \in Seq(Task)
    BY EmptySeq
  <2>2. 0 \in 0..MaxCalls
    BY PoolAssumption
  <2>. QED
    BY <2>1, <2>2 DEF Init, TypeOK
<1>2. TypeOK /\ [Next]_vars => TypeOK'
  <2>. SUFFICES ASSUME TypeOK, [Next]_vars PROVE TypeOK'
    OBVIOUS
  <2>. USE DEF TypeOK
  <2>1. ASSUME NEW c \in Callers, Enqueue(c) PROVE TypeOK'
    <3>1. calls[c] + 1 \in 1..MaxCalls /\ calls' \in [Callers -> 0..MaxCalls]
      BY <2>1, PoolAssumption DEF Enqueue
    <3>2. LastTask(c)' \in Task
      BY <2>1, <3>1 DEF Enqueue, LastTask, Task
    <3>. QED
      BY <2>1, <3>1, <3>2 DEF Enqueue
  <2>2. ASSUME NEW c \in Callers, EnqueueThrows(c) PROVE TypeOK'
    BY <2>2 DEF EnqueueThrows
  <2>3. ASSUME NEW c \in Callers, NotifyOne(c) PROVE TypeOK'
    BY <2>3 DEF NotifyOne, Waiting
  <2>4. ASSUME NEW c \in Callers, GetReturns(c) PROVE TypeOK'
    BY <2>4 DEF GetReturns
  <2>5. ASSUME NEW w \in Workers, WorkerWaits(w) PROVE TypeOK'
    BY <2>5 DEF WorkerWaits
  <2>6. ASSUME NEW w \in Workers, SpuriousWakeup(w) PROVE TypeOK'
    BY <2>6 DEF SpuriousWakeup
  <2>7. ASSUME NEW w \in Workers, WorkerReturns(w) PROVE TypeOK'
    BY <2>7 DEF WorkerReturns
  <2>8. ASSUME NEW w \in Workers, WorkerTakes(w) PROVE TypeOK'
    <3>1. Head(tasks) \in Task /\ Tail(tasks) \in Seq(Task)
      BY <2>8, HeadTailProperties DEF WorkerTakes
    <3>. QED
      BY <2>8, <3>1 DEF WorkerTakes
  <2>9. ASSUME NEW w \in Workers, WorkerRuns(w) PROVE TypeOK'
    BY <2>9 DEF WorkerRuns
  <2>10. CASE SetStop
    BY <2>10 DEF SetStop
  <2>11. CASE NotifyAll
    BY <2>11 DEF NotifyAll
  <2>12. CASE JoinAll
    BY <2>12 DEF JoinAll
  <2>13. CASE UNCHANGED vars
    BY <2>13 DEF vars
  <2>. QED
    BY <2>1, <2>2, <2>3, <2>4, <2>5, <2>6, <2>7, <2>8, <2>9, <2>10, <2>11,
       <2>12, <2>13 DEF Next, Worker
<1>. QED
  BY <1>1, <1>2, PTL DEF Spec
-----------------------------------------------------------------------------
(* Control: where the destructor is tells where the workers can be. *)

Control ==
    /\ stop <=> owner # "none"
    /\ \A w \in Workers : worker[w] = "returned" => stop /\ tasks = <<>>
    /\ owner \in {"joining", "joined"} =>
           \A w \in Workers : worker[w] # "waiting"
    /\ owner = "joined" => \A w \in Workers : worker[w] = "returned"

LEMMA ControlHolds == Spec => []Control
<1>1. Init => Control
  BY DEF Init, Control
<1>2. TypeOK /\ Control /\ [Next]_vars => Control'
  <2>. SUFFICES ASSUME TypeOK, Control, [Next]_vars PROVE Control'
    OBVIOUS
  <2>. USE DEF TypeOK, Control
  <2>1. ASSUME NEW c \in Callers, Enqueue(c) PROVE Control'
    BY <2>1 DEF Enqueue
  <2>2. ASSUME NEW c \in Callers, EnqueueThrows(c) PROVE Control'
    BY <2>2 DEF EnqueueThrows
  <2>3. ASSUME NEW c \in Callers, NotifyOne(c) PROVE Control'
    BY <2>3 DEF NotifyOne, Waiting
  <2>4. ASSUME NEW c \in Callers, GetReturns(c) PROVE Control'
    BY <2>4 DEF GetReturns
  <2>5. ASSUME NEW w \in Workers, WorkerWaits(w) PROVE Control'
    BY <2>5 DEF WorkerWaits
  <2>6. ASSUME NEW w \in Workers, SpuriousWakeup(w) PROVE Control'
    BY <2>6 DEF SpuriousWakeup
  <2>7. ASSUME NEW w \in Workers, WorkerReturns(w) PROVE Control'
    BY <2>7 DEF WorkerReturns
  <2>8. ASSUME NEW w \in Workers, WorkerTakes(w) PROVE Control'
    BY <2>8 DEF WorkerTakes
  <2>9. ASSUME NEW w \in Workers, WorkerRuns(w) PROVE Control'
    BY <2>9 DEF WorkerRuns
  <2>10. CASE SetStop
    BY <2>10 DEF SetStop
  <2>11. CASE NotifyAll
    BY <2>11 DEF NotifyAll
  <2>12. CASE JoinAll
    BY <2>12 DEF JoinAll
  <2>13. CASE UNCHANGED vars
    BY <2>13 DEF vars
  <2>. QED
    BY <2>1, <2>2, <2>3, <2>4, <2>5, <2>6, <2>7, <2>8, <2>9, <2>10, <2>11,
       <2>12, <2>13 DEF Next, Worker
<1>. QED
  BY <1>1, <1>2, TypeCorrect, PTL DEF Spec

\* Once the destructor has notified, no worker sleeps any more.
THEOREM NoSleeperAfterStopHolds == Spec => []NoSleeperAfterStop
<1>1. Control => NoSleeperAfterStop
  BY DEF Control, NoSleeperAfterStop, Waiting
<1>. QED
  BY <1>1, ControlHolds, PTL

\* A queued task always has an awake worker or a notification to come.
THEOREM NoMissedWakeupHolds == Spec => []NoMissedWakeup
<1>1. Init => NoMissedWakeup
  BY DEF Init, NoMissedWakeup
<1>2. TypeOK /\ Control /\ NoMissedWakeup /\ [Next]_vars => NoMissedWakeup'
  <2>. SUFFICES ASSUME TypeOK, Control, NoMissedWakeup, [Next]_vars,
                       tasks' # <<>>
                PROVE  \/ \E w \in Workers : worker'[w] \in {"lock", "run"}
                       \/ \E c \in Callers : caller'[c] = "notify"
    BY DEF NoMissedWakeup
  <2>. USE DEF TypeOK, NoMissedWakeup
  <2>1. ASSUME NEW c \in Callers, Enqueue(c)
        PROVE  \E d \in Callers : caller'[d] = "notify"
    BY <2>1 DEF Enqueue
  <2>2. ASSUME NEW c \in Callers, NotifyOne(c)
        PROVE  \E w \in Workers : worker'[w] \in {"lock", "run"}
    <3>1. CASE Waiting = {}
      <4>1. PICK w \in Workers : TRUE
        BY PoolAssumption
      <4>2. worker[w] \in {"lock", "run"}
        BY <2>2, <3>1, <4>1 DEF Waiting, NotifyOne, Control
      <4>. QED
        BY <2>2, <3>1, <4>2 DEF NotifyOne
    <3>2. CASE Waiting # {}
      BY <2>2, <3>2 DEF NotifyOne, Waiting
    <3>. QED
      BY <3>1, <3>2
  <2>3. ASSUME NEW c \in Callers, EnqueueThrows(c) \/ GetReturns(c)
        PROVE  \/ \E w \in Workers : worker'[w] \in {"lock", "run"}
               \/ \E d \in Callers : caller'[d] = "notify"
    BY <2>3 DEF EnqueueThrows, GetReturns
  <2>4. ASSUME NEW w \in Workers, WorkerWaits(w) \/ WorkerReturns(w)
        PROVE  FALSE
    BY <2>4 DEF WorkerWaits, WorkerReturns
  <2>5. ASSUME NEW w \in Workers,
               SpuriousWakeup(w) \/ WorkerTakes(w) \/ WorkerRuns(w)
        PROVE  worker'[w] \in {"lock", "run"}
    BY <2>5 DEF SpuriousWakeup, WorkerTakes, WorkerRuns
  <2>6. CASE SetStop \/ JoinAll \/ UNCHANGED vars
    BY <2>6 DEF SetStop, JoinAll, vars
  <2>7. CASE NotifyAll
    BY <2>7 DEF NotifyAll
  <2>. QED
    BY <2>1, <2>2, <2>3, <2>4, <2>5, <2>6, <2>7 DEF Next, Worker
<1>. QED
  BY <1>1, <1>2, TypeCorrect, ControlHolds, PTL DEF Spec

-----------------------------------------------------------------------------
(* The data: what happens to a task from enqueue to its future. *)

\* Moving the head of one sequence to the end of another keeps their
\* concatenation.
LEMMA TakeKeepsOrder ==
    ASSUME NEW S, NEW s \in Seq(S), NEW t \in Seq(S), t # <<>>
    PROVE  Append(s, Head(t)) \o Tail(t) = s \o t
<1>1. Head(t) \in S /\ Tail(t) \in Seq(S) /\ Head(t) = t[1]
  BY HeadTailProperties
<1>2. Len(t) \in Nat \ {0}
  BY EmptySeq
<1>3. t = SubSeq(t, 1, Len(t))
  BY SubSeqFull
<1>4. SubSeq(t, 1, Len(t)) = <<t[1]>> \o SubSeq(t, 2, Len(t))
  <2>1. 1 \in 1..Len(t) /\ Len(t) \in 1..Len(t) /\ 1 + 1 = 2
    BY <1>2
  <2>. QED
    BY <2>1, SubSeqRecursiveFirst
<1>5. t = <<Head(t)>> \o Tail(t)
  BY <1>1, <1>3, <1>4, TailIsSubSeq
<1>6. Append(s, Head(t)) = s \o <<Head(t)>> /\ <<Head(t)>> \in Seq(S)
  BY <1>1, AppendIsConcat
<1>7. (s \o <<Head(t)>>) \o Tail(t) = s \o (<<Head(t)>> \o Tail(t))
  BY <1>1, <1>6, ConcatAssociative
<1>. QED
  BY <1>5, <1>6, <1>7

\* Tasks leave the queue in the order they entered it.
THEOREM FifoHolds == Spec => []Fifo
<1>1. Init => Fifo
  BY DEF Init, Fifo
<1>2. TypeOK /\ Fifo /\ [Next]_vars => Fifo'
  <2>. SUFFICES ASSUME TypeOK, Fifo, [Next]_vars PROVE Fifo'
    OBVIOUS
  <2>. USE DEF Fifo
  <2>1. CASE UNCHANGED <<tasks, accepted, started>>
    BY <2>1
  <2>2. ASSUME NEW c \in Callers, Enqueue(c) PROVE Fifo'
    <3>1. LastTask(c)' \in Task
      BY <2>2, TypeCorrect, PoolAssumption DEF Enqueue, LastTask, Task, TypeOK
    <3>2. started \o Append(tasks, LastTask(c)') = Append(started \o tasks, LastTask(c)')
      BY <3>1 DEF TypeOK
    <3>. QED
      BY <2>2, <3>2 DEF Enqueue
  <2>3. ASSUME NEW w \in Workers, WorkerTakes(w) PROVE Fifo'
    <3>1. tasks \in Seq(Task) /\ started \in Seq(Task) /\ tasks # <<>>
      BY <2>3 DEF WorkerTakes, TypeOK
    <3>2. Append(started, Head(tasks)) \o Tail(tasks) = started \o tasks
      BY <3>1, TakeKeepsOrder
    <3>. QED
      BY <2>3, <3>2 DEF WorkerTakes
  <2>. QED
    BY <2>1, <2>2, <2>3
       DEF Next, Worker, EnqueueThrows, NotifyOne, GetReturns, WorkerWaits,
           SpuriousWakeup, WorkerReturns, WorkerRuns, SetStop, NotifyAll,
           JoinAll, vars
<1>. QED
  BY <1>1, <1>2, TypeCorrect, PTL DEF Spec
\* Every accepted task is a different one: a caller numbers its calls.
Distinct ==
    /\ \A i \in 1..Len(accepted) : accepted[i][2] <= calls[accepted[i][1]]
    /\ \A i, j \in 1..Len(accepted) : accepted[i] = accepted[j] => i = j

LEMMA DistinctHolds == Spec => []Distinct
<1>1. Init => Distinct
  BY DEF Init, Distinct
<1>2. TypeOK /\ TypeOK' /\ Distinct /\ [Next]_vars => Distinct'
  <2>. SUFFICES ASSUME TypeOK, TypeOK', Distinct, [Next]_vars PROVE Distinct'
    OBVIOUS
  <2>1. CASE UNCHANGED <<calls, accepted>>
    BY <2>1 DEF Distinct
  <2>2. ASSUME NEW c \in Callers, Enqueue(c) PROVE Distinct'
    <3>. DEFINE t == LastTask(c)'
    <3>1. /\ accepted \in Seq(Task) /\ Len(accepted) \in Nat
          /\ \A i \in 1..Len(accepted) : accepted[i] \in Task
      BY DEF TypeOK
    <3>2. /\ calls[c] \in Nat /\ calls[c] + 1 \in 1..MaxCalls
          /\ calls'[c] = calls[c] + 1
          /\ \A d \in Callers : calls[d] \in Nat /\ calls[d] <= calls'[d]
      BY <2>2, PoolAssumption DEF Enqueue, TypeOK
    <3>3. t = <<c, calls[c] + 1>> /\ t \in Task
      BY <2>2, <3>2 DEF LastTask, Task
    <3>4. /\ accepted' = Append(accepted, t)
          /\ Len(accepted') = Len(accepted) + 1
          /\ \A i \in 1..Len(accepted) : accepted'[i] = accepted[i]
          /\ accepted'[Len(accepted) + 1] = t
      BY <2>2, <3>1, <3>3, AppendProperties DEF Enqueue
    <3>. HIDE DEF t
    <3>5. ASSUME NEW i \in 1..Len(accepted)
          PROVE  /\ accepted[i][1] \in Callers /\ accepted[i][2] \in Nat
                 /\ accepted[i][2] <= calls[accepted[i][1]]
      BY <3>1 DEF Task, Distinct
    <3>6. ASSUME NEW i \in 1..Len(accepted) PROVE accepted[i] # t
      BY <3>2, <3>3, <3>5
    <3>7. ASSUME NEW i \in 1..Len(accepted')
          PROVE  accepted'[i][2] <= calls'[accepted'[i][1]]
      <4>1. CASE i <= Len(accepted)
        <5>1. i \in 1..Len(accepted) /\ accepted'[i] = accepted[i]
          BY <3>1, <3>4, <4>1
        <5>2. /\ calls[accepted[i][1]] \in Nat /\ calls'[accepted[i][1]] \in Nat
              /\ calls[accepted[i][1]] <= calls'[accepted[i][1]]
          BY <3>2, <3>5, <5>1, PoolAssumption DEF TypeOK
        <5>. QED
          BY <3>5, <5>1, <5>2
      <4>2. CASE i = Len(accepted) + 1
        BY <3>2, <3>3, <3>4, <4>2
      <4>. QED
        BY <3>1, <3>4, <4>1, <4>2
    <3>8. ASSUME NEW i \in 1..Len(accepted'), NEW j \in 1..Len(accepted'),
                 accepted'[i] = accepted'[j]
          PROVE  i = j
      <4>1. CASE i \in 1..Len(accepted) /\ j \in 1..Len(accepted)
        BY <3>4, <3>8, <4>1 DEF Distinct
      <4>2. CASE i \notin 1..Len(accepted) \/ j \notin 1..Len(accepted)
        BY <3>1, <3>4, <3>6, <3>8, <4>2
      <4>. QED
        BY <4>1, <4>2
    <3>. QED
      BY <3>7, <3>8 DEF Distinct
  <2>. QED
    BY <2>1, <2>2
       DEF Next, Worker, EnqueueThrows, NotifyOne, GetReturns, WorkerWaits,
           SpuriousWakeup, WorkerReturns, WorkerTakes, WorkerRuns, SetStop,
           NotifyAll, JoinAll, vars
<1>. QED
  BY <1>1, <1>2, TypeCorrect, PTL DEF Spec

\* What was started is the beginning of what was accepted, and the next task
\* to start was not started before.
LEMMA NextTask ==
    ASSUME TypeOK, Fifo, Distinct
    PROVE  /\ Len(started) \in Nat /\ Len(tasks) \in Nat
           /\ Len(accepted) = Len(started) + Len(tasks)
           /\ tasks # <<>> => /\ Len(started) < Len(accepted)
                              /\ Head(tasks) = accepted[Len(started) + 1]
                              /\ Head(tasks) \notin Elements(started)
<1>1. /\ started \in Seq(Task) /\ tasks \in Seq(Task)
      /\ Len(started) \in Nat /\ Len(tasks) \in Nat
  BY LenProperties DEF TypeOK
<1>2. /\ Len(accepted) = Len(started) + Len(tasks)
      /\ \A i \in 1..Len(started) + Len(tasks) :
            accepted[i] = IF i <= Len(started) THEN started[i]
                                               ELSE tasks[i - Len(started)]
  BY <1>1, ConcatProperties DEF Fifo
<1>3. ASSUME tasks # <<>>
      PROVE  /\ Len(started) < Len(accepted)
             /\ Head(tasks) = accepted[Len(started) + 1]
             /\ Head(tasks) \notin Elements(started)
  <2>1. Len(tasks) > 0
    BY <1>1, <1>3, EmptySeq
  <2>2. Head(tasks) = accepted[Len(started) + 1]
    BY <1>1, <1>2, <2>1
  <2>3. ASSUME NEW i \in 1..Len(started) PROVE started[i] # Head(tasks)
    BY <1>1, <1>2, <2>1, <2>2 DEF Distinct
  <2>. QED
    BY <1>1, <1>2, <2>1, <2>2, <2>3 DEF Elements
<1>. QED
  BY <1>1, <1>2, <1>3
\* No task runs twice: a started task is finished or in one worker's hands.
THEOREM RunOnceHolds == Spec => []RunOnce
<1>1. Init => RunOnce
  BY DEF Init, RunOnce, Elements
<1>2. TypeOK /\ Fifo /\ Distinct /\ RunOnce /\ [Next]_vars => RunOnce'
  <2>. SUFFICES ASSUME TypeOK, Fifo, Distinct, RunOnce, [Next]_vars
                PROVE  RunOnce'
    OBVIOUS
  <2>1. CASE UNCHANGED <<started, done, running>> /\
             \A w \in Workers : worker'[w] = "run" <=> worker[w] = "run"
    BY <2>1 DEF RunOnce, Elements
  <2>2. ASSUME NEW w \in Workers, WorkerTakes(w) PROVE RunOnce'
    <3>1. /\ Head(tasks) \notin Elements(started)
          /\ Len(started) \in Nat
      BY <2>2, NextTask DEF WorkerTakes
    <3>2. Head(tasks) \in Task
      BY <2>2, HeadTailProperties DEF WorkerTakes, TypeOK
    <3>3. /\ Len(started') = Len(started) + 1
          /\ \A i \in 1..Len(started) : started'[i] = started[i]
          /\ started'[Len(started) + 1] = Head(tasks)
      BY <2>2, <3>2, AppendProperties DEF WorkerTakes, TypeOK
    <3>4. Elements(started)' = Elements(started) \cup {Head(tasks)}
      <4>1. 1..Len(started') = (1..Len(started)) \cup {Len(started) + 1}
        BY <3>1, <3>3
      <4>. QED
        BY <3>3, <4>1 DEF Elements
    <3>5. /\ worker[w] = "lock" /\ done' = done
          /\ running' = [running EXCEPT ![w] = Head(tasks)]
          /\ worker' = [worker EXCEPT ![w] = "run"]
          /\ running \in [Workers -> Task \cup {NoTask}]
          /\ worker \in [Workers -> {"lock", "waiting", "run", "returned"}]
      BY <2>2 DEF WorkerTakes, TypeOK
    <3>6. {running'[v] : v \in {u \in Workers : worker'[u] = "run"}}
            = {running[v] : v \in {u \in Workers : worker[u] = "run"}}
                \cup {Head(tasks)}
      BY <3>5
    <3>7. \A v \in Workers : worker[v] = "run" => running[v] # Head(tasks)
      BY <3>1 DEF RunOnce
    <3>8. Head(tasks) \notin done
      BY <3>1 DEF RunOnce
    <3>. QED
      BY <3>4, <3>5, <3>6, <3>7, <3>8 DEF RunOnce
  <2>3. ASSUME NEW w \in Workers, WorkerRuns(w) PROVE RunOnce'
    <3>1. /\ worker[w] = "run" /\ done' = done \cup {running[w]}
          /\ running' = [running EXCEPT ![w] = NoTask]
          /\ worker' = [worker EXCEPT ![w] = "lock"]
          /\ started' = started
          /\ running \in [Workers -> Task \cup {NoTask}]
          /\ worker \in [Workers -> {"lock", "waiting", "run", "returned"}]
      BY <2>3 DEF WorkerRuns, TypeOK
    <3>2. {running[v] : v \in {u \in Workers : worker[u] = "run"}}
            = {running'[v] : v \in {u \in Workers : worker'[u] = "run"}}
                \cup {running[w]}
      BY <3>1
    <3>. QED
      BY <3>1, <3>2 DEF RunOnce, Elements
  <2>. QED
    BY <2>1, <2>2, <2>3
       DEF Next, Worker, Enqueue, EnqueueThrows, NotifyOne, Waiting, GetReturns,
           WorkerWaits, SpuriousWakeup, WorkerReturns, SetStop, NotifyAll,
           JoinAll, vars, TypeOK
<1>. QED
  BY <1>1, <1>2, TypeCorrect, FifoHolds, DistinctHolds, PTL DEF Spec

\* The destructor returns only when every accepted task has run.
THEOREM JoinDrainsHolds == Spec => []JoinDrains
<1>1. TypeOK /\ Control /\ Fifo /\ RunOnce => JoinDrains
  <2>. SUFFICES ASSUME TypeOK, Control, Fifo, RunOnce, owner = "joined"
                PROVE  done = Elements(accepted)
    BY DEF JoinDrains
  <2>1. \A w \in Workers : worker[w] = "returned"
    BY DEF Control
  <2>2. tasks = <<>>
    BY <2>1, PoolAssumption DEF Control
  <2>3. started = accepted
    BY <2>2, ConcatEmptySeq DEF Fifo, TypeOK
  <2>. QED
    BY <2>1, <2>3 DEF RunOnce
<1>. QED
  BY <1>1, TypeCorrect, ControlHolds, FifoHolds, RunOnceHolds, PTL
-----------------------------------------------------------------------------
(* Refinement *)

\* As many tasks were started as have finished or are being run.
Counted ==
    /\ IsFiniteSet(done)
    /\ Len(started) = Cardinality(done)
                        + Cardinality({w \in Workers : worker[w] = "run"})

LEMMA CountedHolds == Spec => []Counted
<1>. DEFINE Run == {w \in Workers : worker[w] = "run"}
<1>1. Init => Counted
  <2>. SUFFICES ASSUME Init PROVE Counted
    OBVIOUS
  <2>1. done = {} /\ Run = {} /\ Len(started) = 0
    BY DEF Init
  <2>. QED
    BY <2>1, FS_EmptySet DEF Counted
<1>2. TypeOK /\ RunOnce /\ Counted /\ [Next]_vars => Counted'
  <2>. SUFFICES ASSUME TypeOK, RunOnce, Counted, [Next]_vars PROVE Counted'
    OBVIOUS
  <2>0. /\ IsFiniteSet(Run) /\ Cardinality(Run) \in Nat
        /\ IsFiniteSet(done) /\ Cardinality(done) \in Nat
        /\ Len(started) = Cardinality(done) + Cardinality(Run)
    BY FS_Subset, FS_CardinalityType, PoolAssumption DEF Counted
  <2>1. CASE UNCHANGED <<started, done>> /\ Run' = Run
    BY <2>1 DEF Counted
  <2>2. ASSUME NEW w \in Workers, WorkerTakes(w) PROVE Counted'
    <3>1. w \notin Run /\ Run' = Run \cup {w} /\ done' = done
      BY <2>2 DEF WorkerTakes, TypeOK
    <3>2. Cardinality(Run') = Cardinality(Run) + 1
      BY <2>0, <3>1, FS_AddElement
    <3>3. Len(started') = Len(started) + 1
      BY <2>2, HeadTailProperties, AppendProperties DEF WorkerTakes, TypeOK
    <3>. QED
      BY <2>0, <3>1, <3>2, <3>3 DEF Counted
  <2>3. ASSUME NEW w \in Workers, WorkerRuns(w) PROVE Counted'
    <3>1. /\ w \in Run /\ Run' = Run \ {w} /\ started' = started
          /\ done' = done \cup {running[w]} /\ running[w] \notin done
      BY <2>3 DEF WorkerRuns, TypeOK, RunOnce
    <3>2. Cardinality(Run') = Cardinality(Run) - 1
      BY <2>0, <3>1, FS_RemoveElement
    <3>3. Cardinality(done') = Cardinality(done) + 1 /\ IsFiniteSet(done')
      BY <2>0, <3>1, FS_AddElement
    <3>4. Len(started') = Cardinality(done') + Cardinality(Run')
      BY <2>0, <3>1, <3>2, <3>3
    <3>. QED
      BY <3>3, <3>4 DEF Counted
  <2>4. ASSUME NEW w \in Workers, WorkerWaits(w) \/ WorkerReturns(w) \/ SpuriousWakeup(w)
        PROVE  Counted'
    BY <2>1, <2>4 DEF WorkerWaits, WorkerReturns, SpuriousWakeup, TypeOK
  <2>5. CASE SetStop \/ NotifyAll \/ JoinAll
    BY <2>1, <2>5 DEF SetStop, NotifyAll, JoinAll, TypeOK
  <2>6. ASSUME NEW c \in Callers, NotifyOne(c) PROVE Counted'
    BY <2>1, <2>6 DEF NotifyOne, Waiting, TypeOK
  <2>7. ASSUME NEW c \in Callers, Enqueue(c) \/ EnqueueThrows(c) \/ GetReturns(c)
        PROVE  Counted'
    BY <2>1, <2>7 DEF Enqueue, EnqueueThrows, GetReturns
  <2>8. CASE UNCHANGED vars
    BY <2>1, <2>8 DEF vars
  <2>. QED
    BY <2>2, <2>3, <2>4, <2>5, <2>6, <2>7, <2>8 DEF Next, Worker
<1>. QED
  BY <1>1, <1>2, TypeCorrect, RunOnceHolds, PTL DEF Spec

\* The pool implements TaskQueue: tasks start in order, at most one per worker
\* at a time, each once, and the pool closes only when all have finished.
THEOREM ImplementsTaskQueue == Spec => Queue!Spec
<1>1. Init => Queue!Init
  BY DEF Init, Queue!Init
<1>2. /\ TypeOK /\ TypeOK' /\ Control /\ Fifo /\ Distinct /\ RunOnce
      /\ Counted /\ JoinDrains' /\ [Next]_vars
      => [Queue!Next]_Queue!vars
  <2>. SUFFICES ASSUME TypeOK, TypeOK', Control, Fifo, Distinct, RunOnce,
                       Counted, JoinDrains', [Next]_vars
                PROVE  [Queue!Next]_Queue!vars
    OBVIOUS
  <2>1. CASE UNCHANGED <<accepted, started, done, stop, owner>>
    BY <2>1 DEF Queue!vars
  <2>2. ASSUME NEW c \in Callers, Enqueue(c) PROVE Queue!Next
    <3>. DEFINE t == LastTask(c)'
    <3>1. t \in Task
      BY <2>2 DEF Enqueue, LastTask, Task, TypeOK
    <3>2. t \notin Queue!Elements(accepted)
      <4>1. t[1] = c /\ t[2] = calls[c] + 1 /\ calls[c] \in Nat
        BY <2>2, PoolAssumption DEF Enqueue, LastTask, TypeOK
      <4>2. ASSUME NEW i \in 1..Len(accepted), accepted[i] = t PROVE FALSE
        BY <4>1, <4>2 DEF Distinct
      <4>. QED
        BY <4>2 DEF Queue!Elements
    <3>3. Queue!Accept(t)
      BY <2>2, <3>2 DEF Enqueue, Queue!Accept
    <3>. QED
      BY <3>1, <3>3 DEF Queue!Next
  <2>3. ASSUME NEW w \in Workers, WorkerTakes(w) PROVE Queue!Next
    <3>1. /\ Len(started) < Len(accepted)
          /\ Head(tasks) = accepted[Len(started) + 1]
      BY <2>3, NextTask DEF WorkerTakes
    <3>2. Len(started) < Cardinality(done) + Cardinality(Workers)
      <4>. DEFINE Run == {v \in Workers : worker[v] = "run"}
      <4>1. w \notin Run /\ Run \subseteq Workers
        BY <2>3 DEF WorkerTakes
      <4>2. /\ Cardinality(Run) \in Nat /\ Cardinality(Workers) \in Nat
            /\ Cardinality(done) \in Nat
            /\ Cardinality(Run) < Cardinality(Workers)
        BY <4>1, PoolAssumption, FS_Subset, FS_CardinalityType DEF Counted
      <4>. QED
        BY <4>2 DEF Counted
    <3>3. Queue!Cardinality(done) = Cardinality(done)
      BY DEF Cardinality, Queue!Cardinality
    <3>4. Queue!Start
      BY <2>3, <3>1, <3>2, <3>3 DEF WorkerTakes, Queue!Start
    <3>. QED
      BY <3>4 DEF Queue!Next
  <2>4. ASSUME NEW w \in Workers, WorkerRuns(w) PROVE Queue!Next
    <3>1. running[w] \in Task /\ running[w] \in Queue!Elements(started) \ done
      BY <2>4 DEF WorkerRuns, TypeOK, RunOnce, Elements, Queue!Elements
    <3>2. Queue!Finish(running[w])
      BY <2>4, <3>1 DEF WorkerRuns, Queue!Finish
    <3>. QED
      BY <3>1, <3>2 DEF Queue!Next
  <2>5. CASE SetStop
    BY <2>5 DEF SetStop, Control, Queue!Next, Queue!Stop
  <2>6. CASE NotifyAll
    BY <2>6 DEF NotifyAll, Queue!vars
  <2>7. CASE JoinAll
    <3>1. done = Queue!Elements(accepted)
      BY <2>7 DEF JoinAll, JoinDrains, Elements, Queue!Elements
    <3>. QED
      BY <2>7, <3>1 DEF JoinAll, Control, Queue!Next, Queue!Close
  <2>. QED
    BY <2>1, <2>2, <2>3, <2>4, <2>5, <2>6, <2>7
       DEF Next, Worker, EnqueueThrows, NotifyOne, GetReturns, WorkerWaits,
           SpuriousWakeup, WorkerReturns, vars
<1>. QED
  BY <1>1, <1>2, TypeCorrect, ControlHolds, FifoHolds, DistinctHolds,
     RunOnceHolds, CountedHolds, JoinDrainsHolds, PTL DEF Spec, Queue!Spec

===============================================================================
