----------------------------- MODULE AsyncWorker -----------------------------
(***************************************************************************)
(* mylog::AsyncWorker (log_codes/AsyncWorker.hpp) and the pair of          *)
(* mylog::Buffer objects it owns (log_codes/Asyncbuffer.hpp).              *)
(*                                                                         *)
(* Logging threads (Producers) call Push; the thread started by the        *)
(* constructor runs ThreadEntry; the owner's last reference runs the       *)
(* destructor, which calls stop().  One mutex, mtx_, protects the buffers; *)
(* the flag stop_ is atomic and is written without the mutex.              *)
(*                                                                         *)
(* A message is abstracted to its producer, its number and its length;     *)
(* lengths are what Push, WriteableSize and ToBeEnough compute with.       *)
(***************************************************************************)
EXTENDS Integers, Sequences

CONSTANTS
    Producers,      \* the logging threads
    Lens,           \* the lengths of the formatted messages
    MaxPushes,      \* bound: messages each thread logs
    BufferSize,     \* config buffer_size
    Threshold,      \* config threshold
    LinearGrowth    \* config linear_growth

ASSUME LensAssumption == Lens # {} /\ Lens \subseteq Nat \ {0}
ASSUME ConfigAssumption == /\ MaxPushes \in Nat
                           /\ BufferSize \in Nat
                           /\ Threshold \in Nat
                           /\ LinearGrowth \in Nat

AsyncType == {"ASYNC_SAFE", "ASYNC_UNSAFE"}

VARIABLES
    async_type_,        \* the mode the constructor was given
    buffer_productor_,  \* the buffer Push writes
    buffer_consumer_,   \* the buffer the callback reads
    mtx_,               \* "free" or "worker": critical sections of producers are one step
    stop_,
    callback_,          \* TRUE once the constructor has initialised the member
    worker,             \* where ThreadEntry is
    producer,           \* where each logging thread is: "idle", "push" (about to lock
                        \* mtx_ in Push) or "waiting" (on cond_productor_)
    message,            \* the message each thread's Push carries
    owner,              \* "running", then "joining" and "joined" in stop()
    aborted,            \* the process died of undefined behaviour
    accepted,           \* history: messages copied into the buffer, in order
    delivered           \* history: messages handed to the callback, in order

buffers  == <<buffer_productor_, buffer_consumer_>>
history  == <<accepted, delivered>>
vars == <<async_type_, buffer_productor_, buffer_consumer_, mtx_, stop_, callback_,
          worker, producer, message, owner, aborted, accepted, delivered>>

Message == [by : Producers, no : 0..MaxPushes, len : Lens]
Buffer  == [size : Nat, write_pos : Nat, read_pos : Nat, data : Seq(Message)]

-----------------------------------------------------------------------------
(* mylog::Buffer *)

EmptyBuffer == [size |-> BufferSize, write_pos |-> 0, read_pos |-> 0,
                data |-> <<>>]

IsEmpty(b) == b.write_pos = b.read_pos

WriteableSize(b) == b.size - b.write_pos

\* Mutant of SizeAfter: grows by the shortfall, with its operands swapped.
SizeAfterSwapped(b, len) ==
    IF len < WriteableSize(b) THEN b.size ELSE b.size + WriteableSize(b) - len

\* Mutant of SizeAfter: Push does not make room.
SizeKept(b, len) == b.size

\* ToBeEnough: the size after the one growth step a Push may take.  An exact
\* fit (len = WriteableSize) grows the buffer too.
SizeAfter(b, len) ==
    IF len < WriteableSize(b) THEN b.size
    ELSE IF b.size < Threshold THEN 2 * b.size + b.size
    ELSE LinearGrowth + b.size

BufferPush(b, m) == [b EXCEPT !.size = SizeAfter(b, m.len),
                              !.write_pos = @ + m.len,
                              !.data = Append(@, m)]

Reset(b) == [b EXCEPT !.write_pos = 0, !.read_pos = 0, !.data = <<>>]

-----------------------------------------------------------------------------
Init ==
    /\ async_type_ \in AsyncType
    /\ buffer_productor_ = EmptyBuffer
    /\ buffer_consumer_ = EmptyBuffer
    /\ mtx_ = "free"
    /\ stop_ = FALSE
    /\ callback_ = FALSE
    /\ worker = "lock"
    /\ producer = [p \in Producers |-> "idle"]
    /\ message = [p \in Producers |->
                    [by |-> p, no |-> 0, len |-> CHOOSE l \in Lens : TRUE]]
    /\ owner = "running"
    /\ aborted = FALSE
    /\ accepted = <<>>
    /\ delivered = <<>>

\* The constructor initialises members in declaration order: thread_ starts
\* ThreadEntry before callback_ is constructed.
ConstructorEnds ==
    /\ ~aborted /\ ~callback_
    /\ callback_' = TRUE
    /\ UNCHANGED <<async_type_, buffers, mtx_, stop_, worker, producer, message,
                   owner, aborted, history>>

\* AsyncLogger::Flush: a thread that holds the logger calls Push.
Call(p, len) ==
    /\ ~aborted
    /\ callback_ /\ owner = "running"
    /\ producer[p] = "idle"
    /\ message[p].no < MaxPushes
    /\ producer' = [producer EXCEPT ![p] = "push"]
    /\ message' = [message EXCEPT ![p].no = @ + 1, ![p].len = len]
    /\ UNCHANGED <<async_type_, buffers, mtx_, stop_, callback_, worker, owner,
                   aborted, history>>

\* Push, holding mtx_.  In safe mode it first waits on cond_productor_ until
\* the message fits; a woken thread comes back here and tests again.
HasRoom(p) == message[p].len <= WriteableSize(buffer_productor_)

\* Mutant of MustWait: the mode is not looked at.
WaitsInAnyMode(p) == ~HasRoom(p)

MustWait(p) == async_type_ = "ASYNC_SAFE" /\ ~HasRoom(p)

PushWaits(p) ==
    /\ ~aborted
    /\ producer[p] = "push" /\ mtx_ = "free"
    /\ MustWait(p)
    /\ producer' = [producer EXCEPT ![p] = "waiting"]
    /\ UNCHANGED <<async_type_, buffers, mtx_, stop_, callback_, worker,
                   message, owner, aborted, history>>

\* std::copy past the end of the vector is undefined: the process ends there.
\* notify_one on cond_consumer_ finds no waiter: see WorkerTests.
PushWrites(p) ==
    /\ ~aborted
    /\ producer[p] = "push" /\ mtx_ = "free"
    /\ ~MustWait(p)
    /\ buffer_productor_' = BufferPush(buffer_productor_, message[p])
    /\ accepted' = Append(accepted, message[p])
    /\ producer' = [producer EXCEPT ![p] = "idle"]
    /\ aborted' = (buffer_productor_'.write_pos > buffer_productor_'.size)
    /\ UNCHANGED <<async_type_, buffer_consumer_, mtx_, stop_, callback_,
                   worker, message, owner, delivered>>

\* A wait on a condition variable may end without a notification.
SpuriousWakeup(p) ==
    /\ ~aborted
    /\ producer[p] = "waiting"
    /\ producer' = [producer EXCEPT ![p] = "push"]
    /\ UNCHANGED <<async_type_, buffers, mtx_, stop_, callback_, worker,
                   message, owner, aborted, history>>

Push(p) == PushWaits(p) \/ PushWrites(p)

-----------------------------------------------------------------------------
(* ThreadEntry: mtx_ is held from the top of an iteration to its end. *)

\* Mutant of SwapCondition: either of the two is enough.
SwapsOnEither == IsEmpty(buffer_productor_) \/ stop_

\* The branch is entered with stop_ set, so the wait inside it, whose
\* predicate is stop_ || !empty, returns at once: nobody ever waits on
\* cond_consumer_.
SwapCondition == IsEmpty(buffer_productor_) /\ stop_

WorkerTests ==
    /\ ~aborted
    /\ worker = "lock" /\ mtx_ = "free"
    /\ mtx_' = "worker"
    /\ worker' = IF SwapCondition THEN "swap" ELSE "callback"
    /\ UNCHANGED <<async_type_, buffers, stop_, callback_, producer, message,
                   owner, aborted, history>>

\* notify_one on cond_productor_: some waiter, if there is one, goes back to
\* lock mtx_ and test its predicate again.
Waiting == {p \in Producers : producer[p] = "waiting"}

NotifyOne == IF Waiting = {} THEN {producer}
             ELSE {[producer EXCEPT ![p] = "push"] : p \in Waiting}

WorkerSwaps ==
    /\ ~aborted
    /\ worker = "swap"
    /\ buffer_productor_' = buffer_consumer_
    /\ buffer_consumer_' = buffer_productor_
    /\ producer' \in IF async_type_ = "ASYNC_SAFE" THEN NotifyOne ELSE {producer}
    /\ worker' = "callback"
    /\ UNCHANGED <<async_type_, mtx_, stop_, callback_, message, owner, aborted,
                   history>>

\* callback_(buffer_consumer_); buffer_consumer_.Reset()
WorkerCallback ==
    /\ ~aborted
    /\ worker = "callback" /\ callback_
    /\ delivered' = delivered \o buffer_consumer_.data
    /\ buffer_consumer_' = Reset(buffer_consumer_)
    /\ worker' = "test"
    /\ UNCHANGED <<async_type_, buffer_productor_, mtx_, stop_, callback_,
                   producer, message, owner, aborted, accepted>>

\* Calling a std::function that is not constructed yet throws out of the
\* thread or jumps to a stray address: the process ends either way.
WorkerCallbackUnset ==
    /\ ~aborted
    /\ worker = "callback" /\ ~callback_
    /\ aborted' = TRUE
    /\ UNCHANGED <<async_type_, buffers, mtx_, stop_, callback_, worker,
                   producer, message, owner, history>>

WorkerLeaves == stop_ /\ IsEmpty(buffer_productor_)

WorkerEndsTurn ==
    /\ ~aborted
    /\ worker = "test"
    /\ mtx_' = "free"
    /\ worker' = IF WorkerLeaves THEN "returned" ELSE "lock"
    /\ UNCHANGED <<async_type_, buffers, stop_, callback_, producer, message,
                   owner, aborted, history>>

Worker == \/ WorkerTests \/ WorkerSwaps \/ WorkerCallback
          \/ WorkerCallbackUnset \/ WorkerEndsTurn

-----------------------------------------------------------------------------
\* stop(), called by the destructor only: no thread holds the logger any more.
StopBegins ==
    /\ ~aborted
    /\ callback_ /\ owner = "running"
    /\ \A p \in Producers : producer[p] = "idle"
    /\ stop_' = TRUE
    /\ owner' = "joining"
    /\ UNCHANGED <<async_type_, buffers, mtx_, callback_, worker, producer,
                   message, aborted, history>>

\* Mutant of StopJoins: the thread is detached instead of joined.
StopDetaches ==
    /\ ~aborted
    /\ owner = "joining"
    /\ owner' = "joined"
    /\ UNCHANGED <<async_type_, buffers, mtx_, stop_, callback_, worker,
                   producer, message, aborted, history>>

StopJoins ==
    /\ ~aborted
    /\ owner = "joining" /\ worker = "returned"
    /\ owner' = "joined"
    /\ UNCHANGED <<async_type_, buffers, mtx_, stop_, callback_, worker,
                   producer, message, aborted, history>>

Next == \/ ConstructorEnds
        \/ \E p \in Producers : \/ Push(p) \/ SpuriousWakeup(p)
                                \/ \E len \in Lens : Call(p, len)
        \/ Worker
        \/ StopBegins \/ StopJoins

Spec == Init /\ [][Next]_vars

\* Threads that can run do run, and a thread that keeps trying to lock mtx_
\* gets it.  Logging and destruction are the program's choice: no fairness.
Fairness == /\ WF_vars(ConstructorEnds)
            /\ SF_vars(Worker)
            /\ \A p \in Producers : SF_vars(Push(p))
            /\ WF_vars(StopJoins)

FairSpec == Spec /\ Fairness

-----------------------------------------------------------------------------
(* Properties *)

\* Every variable keeps its type.
TypeOK ==
    /\ async_type_ \in AsyncType
    /\ buffer_productor_ \in Buffer
    /\ buffer_consumer_ \in Buffer
    /\ mtx_ \in {"free", "worker"}
    /\ stop_ \in BOOLEAN
    /\ callback_ \in BOOLEAN
    /\ worker \in {"lock", "swap", "callback", "test", "returned"}
    /\ producer \in [Producers -> {"idle", "push", "waiting"}]
    /\ message \in [Producers -> Message]
    /\ owner \in {"running", "joining", "joined"}
    /\ aborted \in BOOLEAN
    /\ accepted \in Seq(Message)
    /\ delivered \in Seq(Message)

\* The lengths and the configuration are such that one growth step of the
\* buffer is always enough for one message.
LengthsFit == \A len \in Lens : len <= 2 * BufferSize /\ len <= LinearGrowth

\* ToBeEnough makes the buffer large enough for the message that Push then
\* copies ("ensure the capacity is enough", Asyncbuffer.hpp:25).
CapacityEnough ==
    /\ buffer_productor_.write_pos <= buffer_productor_.size
    /\ buffer_consumer_.write_pos <= buffer_consumer_.size

\* A logging thread that waits for room in safe mode wakes only by itself, also
\* when another thread's exact fit has grown the buffer: the one notification for
\* it (AsyncWorker.hpp:60) is given after stop_ is set, when no thread is left in
\* Push, although the comment at :59 says that it wakes who was blocked.
WaitersAreNotNotified ==
    [][\A p \in Producers : producer[p] = "waiting" =>
          producer'[p] = "waiting" \/ SpuriousWakeup(p)]_vars

\* No message ever reaches the callback: ThreadEntry swaps the buffers only
\* when the buffer Push writes is empty, although the comment beside the test
\* (AsyncWorker.hpp:54) says it swaps when there is data.
NothingReachesCallback == delivered = <<>>

\* stop() returns only after everything that was accepted has reached the
\* callback (the rule the exit test of ThreadEntry enforces).
StopDrains == owner = "joined" => delivered = accepted

\* Push never blocks for good in unsafe mode ("does not block the producer",
\* AsyncWorker.hpp:20), and the destructor of a worker that never received a
\* message returns.
CallsReturn ==
    /\ \A p \in Producers :
         (producer[p] = "push" /\ async_type_ = "ASYNC_UNSAFE")
             ~> (producer[p] = "idle" \/ aborted)
    /\ (owner = "joining" /\ accepted = <<>>) ~> (owner = "joined" \/ aborted)

\* AsyncWorker.hpp:15: buffered data is written to the target through the
\* callback when the time comes.
BufferedDataReachesCallback ==
    (accepted # <<>>) ~> (delivered # <<>> \/ aborted)

\* What a logger promises: LogChannel, with the same two histories.  As no message
\* ever reaches the callback, what this shows is that messages are accepted one
\* at a time, and that stop() never closes a channel that has accepted one.
Channel == INSTANCE LogChannel WITH closed <- owner = "joined"

Implements == Channel!Spec

=============================================================================
