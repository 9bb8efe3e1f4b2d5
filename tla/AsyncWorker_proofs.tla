-------------------------- MODULE AsyncWorker_proofs --------------------------
(***************************************************************************)
(* Proofs about AsyncWorker, for every set of threads, every set of        *)
(* message lengths, every configuration and both modes.                    *)
(***************************************************************************)
EXTENDS AsyncWorker, SequenceTheorems, TLAPS

\* A buffer is empty exactly when its positions say so.
BufferOK(b) == /\ b.read_pos = 0
               /\ b.data = <<>> <=> b.write_pos = 0

\* Where the data can be, given where the threads are.
Phases ==
    /\ BufferOK(buffer_productor_) /\ BufferOK(buffer_consumer_)
    /\ buffer_consumer_.data = <<>>
    /\ delivered = <<>>
    /\ stop_ <=> owner # "running"
    /\ stop_ => \A p \in Producers : producer[p] = "idle"
    /\ mtx_ = "worker" <=> worker \in {"swap", "callback", "test"}
    /\ worker = "swap" => stop_ /\ buffer_productor_.data = <<>>
    /\ worker = "returned" => stop_ /\ buffer_productor_.data = <<>>
    /\ owner = "joined" => worker = "returned"

\* The buffers' contents account for everything that was accepted.
Accounting == accepted = buffer_productor_.data

-----------------------------------------------------------------------------
\* Push keeps a buffer a buffer, appends the message and only adds to it.
LEMMA BufferPushFacts ==
    ASSUME NEW b \in Buffer, NEW m \in Message
    PROVE  /\ BufferPush(b, m) \in Buffer
           /\ b.read_pos = 0 => BufferOK(BufferPush(b, m))
           /\ BufferPush(b, m).data = Append(b.data, m)
<1>1. SizeAfter(b, m.len) \in Nat
  BY ConfigAssumption DEF SizeAfter, Buffer, WriteableSize
<1>2. m.len \in Nat \ {0}
  BY LensAssumption DEF Message
<1>3. Append(b.data, m) \in Seq(Message) /\ Append(b.data, m) # <<>>
  BY DEF Buffer
<1>4. b.write_pos + m.len \in Nat \ {0}
  BY <1>2 DEF Buffer
<1>. QED
  BY <1>1, <1>3, <1>4 DEF BufferPush, Buffer, BufferOK

\* The buffers start, and are left by Reset, as empty buffers.
LEMMA EmptyBufferFacts ==
    /\ EmptyBuffer \in Buffer /\ BufferOK(EmptyBuffer)
    /\ \A b \in Buffer : Reset(b) \in Buffer /\ BufferOK(Reset(b))
<1>1. <<>> \in Seq(Message)
  BY EmptySeq
<1>. QED
  BY <1>1, ConfigAssumption DEF EmptyBuffer, Buffer, BufferOK, Reset

\* Type correctness.
THEOREM TypeCorrect == Spec => []TypeOK
<1>1. Init => TypeOK
  <2>. SUFFICES ASSUME Init PROVE TypeOK
    OBVIOUS
  <2>1. (CHOOSE l \in Lens : TRUE) \in Lens
    BY LensAssumption
  <2>2. message \in [Producers -> Message]
    BY <2>1, ConfigAssumption DEF Init, Message
  <2>3. <<>> \in Seq(Message)
    BY EmptySeq
  <2>. QED
    BY <2>2, <2>3, EmptyBufferFacts DEF Init, TypeOK
<1>2. TypeOK /\ [Next]_vars => TypeOK'
  <2>. SUFFICES ASSUME TypeOK, [Next]_vars PROVE TypeOK'
    OBVIOUS
  <2>. USE DEF TypeOK
  <2>1. CASE ConstructorEnds
    BY <2>1 DEF ConstructorEnds, buffers, history
  <2>2. ASSUME NEW p \in Producers, NEW len \in Lens, Call(p, len)
        PROVE  TypeOK'
    <3>1. [message[p] EXCEPT !.no = @ + 1, !.len = len] \in Message
      <4>1. message[p] \in Message /\ message[p].no < MaxPushes
        BY <2>2 DEF Call
      <4>2. message[p].no + 1 \in 0..MaxPushes
        BY <4>1, ConfigAssumption DEF Message
      <4>. QED
        BY <4>1, <4>2 DEF Message
    <3>2. message' \in [Producers -> Message]
      BY <2>2, <3>1 DEF Call
    <3>. QED
      BY <2>2, <3>2 DEF Call, buffers, history
  <2>3. ASSUME NEW p \in Producers, PushWaits(p) PROVE TypeOK'
    BY <2>3 DEF PushWaits, buffers, history
  <2>4. ASSUME NEW p \in Producers, PushWrites(p) PROVE TypeOK'
    <3>1. BufferPush(buffer_productor_, message[p]) \in Buffer
      BY BufferPushFacts
    <3>. QED
      BY <2>4, <3>1 DEF PushWrites
  <2>5. ASSUME NEW p \in Producers, SpuriousWakeup(p) PROVE TypeOK'
    BY <2>5 DEF SpuriousWakeup, buffers, history
  <2>6. CASE Worker
    <3>1. CASE WorkerTests
      BY <3>1 DEF WorkerTests, buffers, history
    <3>2. CASE WorkerSwaps
      <4>1. producer' \in [Producers -> {"idle", "push", "waiting"}]
        BY <3>2 DEF WorkerSwaps, NotifyOne, Waiting
      <4>. QED
        BY <3>2, <4>1 DEF WorkerSwaps, history
    <3>3. CASE WorkerCallback
      <4>1. delivered' \in Seq(Message)
        BY <3>3 DEF WorkerCallback, Buffer
      <4>. QED
        BY <3>3, <4>1, EmptyBufferFacts DEF WorkerCallback
    <3>4. CASE WorkerCallbackUnset
      BY <3>4 DEF WorkerCallbackUnset, buffers, history
    <3>5. CASE WorkerEndsTurn
      BY <3>5 DEF WorkerEndsTurn, buffers, history
    <3>. QED
      BY <2>6, <3>1, <3>2, <3>3, <3>4, <3>5 DEF Worker
  <2>7. CASE StopBegins
    BY <2>7 DEF StopBegins, buffers, history
  <2>8. CASE StopJoins
    BY <2>8 DEF StopJoins, buffers, history
  <2>9. CASE UNCHANGED vars
    BY <2>9 DEF vars
  <2>. QED
    BY <2>1, <2>2, <2>3, <2>4, <2>5, <2>6, <2>7, <2>8, <2>9 DEF Next, Push
<1>. QED
  BY <1>1, <1>2, PTL DEF Spec
-----------------------------------------------------------------------------
\* The invariant behind every safety property.
LEMMA InvHolds == Spec => [](TypeOK /\ Phases /\ Accounting)
<1>1. Init => Phases /\ Accounting
  BY EmptyBufferFacts DEF Init, Phases, Accounting, EmptyBuffer
<1>2. TypeOK /\ Phases /\ Accounting /\ [Next]_vars => Phases' /\ Accounting'
  <2>. SUFFICES ASSUME TypeOK, Phases, Accounting, [Next]_vars
                PROVE  Phases' /\ Accounting'
    OBVIOUS
  <2>. USE DEF Phases, Accounting
  <2>1. CASE ConstructorEnds
    BY <2>1 DEF ConstructorEnds, buffers, history
  <2>2. ASSUME NEW p \in Producers, NEW len \in Lens, Call(p, len)
        PROVE  Phases' /\ Accounting'
    BY <2>2 DEF Call, buffers, history
  <2>3. ASSUME NEW p \in Producers, PushWaits(p)
        PROVE  Phases' /\ Accounting'
    BY <2>3 DEF PushWaits, buffers, history
  <2>4. ASSUME NEW p \in Producers, PushWrites(p)
        PROVE  Phases' /\ Accounting'
    <3>1. buffer_productor_ \in Buffer /\ message[p] \in Message
      BY DEF TypeOK
    <3>2. /\ BufferOK(buffer_productor_')
          /\ buffer_productor_'.data = Append(buffer_productor_.data, message[p])
      BY <2>4, <3>1, BufferPushFacts DEF PushWrites, BufferOK
    <3>3. ~stop_ /\ worker # "returned" /\ worker # "swap"
      \* mtx_ is free, so the worker is not inside an iteration
      BY <2>4 DEF PushWrites
    <3>. QED
      BY <2>4, <3>2, <3>3 DEF PushWrites
  <2>5. ASSUME NEW p \in Producers, SpuriousWakeup(p)
        PROVE  Phases' /\ Accounting'
    BY <2>5 DEF SpuriousWakeup, buffers, history
  <2>6. CASE WorkerTests
    BY <2>6 DEF WorkerTests, SwapCondition, IsEmpty, BufferOK, buffers, history
  <2>7. CASE WorkerSwaps
    <3>1. \A p \in Producers : producer[p] = "idle" => producer'[p] = "idle"
      BY <2>7 DEF WorkerSwaps, NotifyOne, Waiting, TypeOK
    <3>. QED
      BY <2>7, <3>1 DEF WorkerSwaps, history
  <2>8. CASE WorkerCallback
    <3>1. delivered' = <<>>
      BY <2>8 DEF WorkerCallback
    <3>2. BufferOK(buffer_consumer_') /\ buffer_consumer_'.data = <<>>
      BY <2>8, EmptyBufferFacts DEF WorkerCallback, TypeOK, Reset, Buffer
    <3>. QED
      BY <2>8, <3>1, <3>2 DEF WorkerCallback
  <2>9. CASE WorkerCallbackUnset
    BY <2>9 DEF WorkerCallbackUnset, buffers, history
  <2>10. CASE WorkerEndsTurn
    BY <2>10 DEF WorkerEndsTurn, WorkerLeaves, IsEmpty, BufferOK, buffers, history
  <2>11. CASE StopBegins
    BY <2>11 DEF StopBegins, buffers, history
  <2>12. CASE StopJoins
    BY <2>12 DEF StopJoins, buffers, history
  <2>13. CASE UNCHANGED vars
    BY <2>13 DEF vars
  <2>. QED
    BY <2>1, <2>2, <2>3, <2>4, <2>5, <2>6, <2>7, <2>8, <2>9, <2>10, <2>11,
       <2>12, <2>13 DEF Next, Push, Worker
<1>. QED
  BY TypeCorrect, <1>1, <1>2, PTL DEF Spec

\* Whoever makes room, a thread that waits for it in safe mode is not notified:
\* the swap that would do it comes after stop_, when no thread waits.
THEOREM WaitersAreNotNotifiedHolds == Spec => WaitersAreNotNotified
<1>1. TypeOK /\ Phases /\ [Next]_vars =>
        \A p \in Producers : producer[p] = "waiting" =>
            producer'[p] = "waiting" \/ SpuriousWakeup(p)
  <2>. SUFFICES ASSUME TypeOK, Phases, [Next]_vars,
                       NEW p \in Producers, producer[p] = "waiting"
                PROVE  producer'[p] = "waiting" \/ SpuriousWakeup(p)
    OBVIOUS
  <2>1. CASE UNCHANGED producer
    BY <2>1
  <2>2. ASSUME NEW q \in Producers, PushWaits(q) \/ PushWrites(q) \/ SpuriousWakeup(q)
        PROVE  producer'[p] = "waiting" \/ SpuriousWakeup(p)
    BY <2>2 DEF PushWaits, PushWrites, SpuriousWakeup, TypeOK
  <2>3. ASSUME NEW q \in Producers, NEW len \in Lens, Call(q, len)
        PROVE  producer'[p] = "waiting"
    BY <2>3 DEF Call, TypeOK
  <2>4. ~WorkerSwaps
    \* the worker swaps only after stop_, when every thread is idle
    BY DEF WorkerSwaps, Phases
  <2>. QED
    BY <2>1, <2>2, <2>3, <2>4
    DEF Next, Push, Worker, ConstructorEnds, WorkerTests, WorkerCallback,
        WorkerCallbackUnset, WorkerEndsTurn, StopBegins, StopJoins, vars
<1>. QED
  BY <1>1, TypeCorrect, InvHolds, PTL DEF Spec, WaitersAreNotNotified

\* stop() returns only when nothing that was accepted is pending.
THEOREM StopDrainsHolds == Spec => []StopDrains
<1>1. Phases /\ Accounting => StopDrains
  BY DEF Phases, Accounting, StopDrains
<1>. QED
  BY <1>1, InvHolds, PTL

\* Whatever the configuration, no message ever reaches the callback.
THEOREM NothingReachesCallbackHolds == Spec => []NothingReachesCallback
<1>1. Phases => NothingReachesCallback
  BY DEF Phases, NothingReachesCallback
<1>. QED
  BY <1>1, InvHolds, PTL

-----------------------------------------------------------------------------
\* Capacity: sizes never fall below the configured one, positions never
\* exceed sizes.
WithinCapacity(b) == b.write_pos <= b.size /\ BufferSize <= b.size

Capacity == WithinCapacity(buffer_productor_) /\ WithinCapacity(buffer_consumer_)

\* One Push keeps within the capacity, if the message fits (safe mode) or one
\* growth step covers it.
LEMMA PushWithinCapacity ==
    ASSUME NEW b \in Buffer, NEW m \in Message, WithinCapacity(b),
           LengthsFit \/ m.len <= WriteableSize(b)
    PROVE  WithinCapacity(BufferPush(b, m))
<1>. DEFINE grown == SizeAfter(b, m.len)
<1>0. /\ m.len \in Lens /\ m.len \in Nat
      /\ b.size \in Nat /\ b.write_pos \in Nat
      /\ Threshold \in Nat /\ LinearGrowth \in Nat /\ BufferSize \in Nat
  BY LensAssumption, ConfigAssumption DEF Message, Buffer
<1>1. /\ BufferPush(b, m).size = grown
      /\ BufferPush(b, m).write_pos = b.write_pos + m.len
  BY DEF BufferPush, Buffer
<1>2. grown \in Nat /\ grown >= b.size
  BY <1>0 DEF SizeAfter
<1>3. b.write_pos + m.len <= grown
  <2>1. CASE m.len <= WriteableSize(b)
    <3>. HIDE DEF grown
    <3>. QED
      BY <1>0, <1>2, <2>1 DEF WriteableSize
  <2>2. CASE ~(m.len <= WriteableSize(b))
    <3>1. m.len <= 2 * BufferSize /\ m.len <= LinearGrowth
      BY <1>0, <2>2 DEF LengthsFit
    <3>. QED
      BY <1>0, <2>2, <3>1 DEF SizeAfter, WriteableSize, WithinCapacity
  <2>. QED
    BY <2>1, <2>2
<1>. HIDE DEF grown
<1>. QED
  BY <1>0, <1>1, <1>2, <1>3 DEF WithinCapacity

\* The buffer is always large enough for what Push copies into it: always in
\* safe mode, and in unsafe mode for message lengths one growth step covers.
THEOREM CapacityHolds ==
    Spec => [](async_type_ = "ASYNC_SAFE" \/ LengthsFit => CapacityEnough)
<1>. DEFINE Fits == async_type_ = "ASYNC_SAFE" \/ LengthsFit
            Inv == Fits => Capacity
<1>1. Init => Inv
  BY ConfigAssumption DEF Init, Capacity, WithinCapacity, EmptyBuffer
<1>2. TypeOK /\ Inv /\ [Next]_vars => Inv'
  <2>. SUFFICES ASSUME TypeOK, Inv, [Next]_vars, Fits' PROVE Capacity'
    OBVIOUS
  <2>0. async_type_' = async_type_ /\ Fits /\ Capacity
    <3>1. async_type_' = async_type_
      BY DEF Next, Push, Worker, ConstructorEnds, Call, PushWaits, PushWrites,
             SpuriousWakeup, WorkerTests, WorkerSwaps, WorkerCallback,
             WorkerCallbackUnset, WorkerEndsTurn, StopBegins, StopJoins, vars
    <3>. QED
      BY <3>1 DEF LengthsFit
  <2>. USE DEF Capacity
  <2>1. CASE UNCHANGED buffers
    BY <2>0, <2>1 DEF buffers, WithinCapacity
  <2>2. ASSUME NEW p \in Producers, PushWrites(p) PROVE Capacity'
    <3>1. buffer_productor_ \in Buffer /\ message[p] \in Message
      BY DEF TypeOK
    <3>2. WithinCapacity(BufferPush(buffer_productor_, message[p]))
      BY <2>0, <2>2, <3>1, PushWithinCapacity
         DEF PushWrites, MustWait, HasRoom
    <3>. QED
      BY <2>0, <2>2, <3>2 DEF PushWrites, WithinCapacity
  <2>3. CASE WorkerSwaps
    BY <2>0, <2>3 DEF WorkerSwaps, WithinCapacity
  <2>4. CASE WorkerCallback
    <3>1. WithinCapacity(Reset(buffer_consumer_))
      BY <2>0 DEF Reset, WithinCapacity, TypeOK, Buffer
    <3>. QED
      BY <2>0, <2>4, <3>1 DEF WorkerCallback, WithinCapacity
  <2>. QED
    BY <2>1, <2>2, <2>3, <2>4
       DEF Next, Push, Worker, ConstructorEnds, Call, PushWaits, SpuriousWakeup,
           WorkerTests, WorkerCallbackUnset, WorkerEndsTurn, StopBegins,
           StopJoins, buffers, vars
<1>3. Inv => (Fits => CapacityEnough)
  BY DEF Capacity, WithinCapacity, CapacityEnough
<1>. QED
  BY <1>1, <1>2, <1>3, TypeCorrect, PTL DEF Spec
-----------------------------------------------------------------------------
\* AsyncWorker implements LogChannel: every step is an Accept, a Close or a
\* stutter (and never a Deliver: see NothingReachesCallbackHolds).
THEOREM ImplementsHolds == Spec => Implements
<1>1. Init => Channel!Init
  BY DEF Init, Channel!Init
<1>2. /\ TypeOK /\ Phases /\ Accounting /\ Phases'
      /\ [Next]_vars
      => [Channel!Next]_Channel!vars
  <2>. SUFFICES ASSUME TypeOK, Phases, Accounting, Phases', [Next]_vars
                PROVE  [Channel!Next]_Channel!vars
    OBVIOUS
  <2>1. CASE UNCHANGED <<accepted, owner>>
    BY <2>1 DEF Phases, Channel!vars
  <2>2. ASSUME NEW p \in Producers, PushWrites(p) PROVE Channel!Accept
    <3>1. owner = "running" /\ owner' = owner
      BY <2>2 DEF PushWrites, Phases
    <3>2. message[p] \in Message /\ accepted' = Append(accepted, message[p])
      BY <2>2 DEF PushWrites, TypeOK
    <3>. QED
      BY <3>1, <3>2 DEF Phases, Channel!Accept
  <2>3. CASE StopBegins
    BY <2>3 DEF StopBegins, Phases, history, Channel!vars
  <2>4. CASE StopJoins
    <3>1. delivered = accepted
      BY <2>4 DEF StopJoins, Phases, Accounting
    <3>2. owner = "joining" /\ owner' = "joined"
      BY <2>4 DEF StopJoins
    <3>. QED
      BY <2>4, <3>1, <3>2 DEF StopJoins, history, Channel!Next, Channel!Close
  <2>. QED
    BY <2>1, <2>2, <2>3, <2>4
       DEF Next, Push, Worker, ConstructorEnds, Call, PushWaits, SpuriousWakeup,
           WorkerTests, WorkerSwaps, WorkerCallback, WorkerCallbackUnset,
           WorkerEndsTurn, Channel!Next, history, vars
<1>. QED
  BY <1>1, <1>2, TypeCorrect, InvHolds, PTL DEF Spec, Implements, Channel!Spec

===============================================================================
