-------------------------- MODULE AsyncLogger_proofs --------------------------
(***************************************************************************)
(* Proofs about AsyncLogger, for any threads, lengths of messages, sizes   *)
(* of pool and buffer, and any number of calls, crashes and faults.        *)
(***************************************************************************)
EXTENDS AsyncLogger, SequenceTheorems, TLAPS

\* The pool: tasks are started in the order they were accepted, none is accepted
\* twice, and none ends that was not started.
Queued ==
    /\ Len(started) <= Len(accepted)
    /\ \A k \in 1..Len(started) : started[k] = accepted[k]
    /\ \A j, k \in 1..Len(accepted) : accepted[j] = accepted[k] => j = k
    /\ done \subseteq Queue!Elements(started)

\* A pool without threads starts no task and is never destroyed.
NoThreads == thread_count = 0 => ~stop /\ started = <<>>

\* A connection: only a started task has one, the server knows of none that the
\* client has not opened, and what it read is not more than what was sent.
Connected(i) ==
    /\ conn[i].client # "none" => i \in Queue!Elements(started)
    /\ conn[i].client = "none" => conn[i].cnt = 5
    /\ conn[i].client = "connecting" => conn[i].cnt # 0
    /\ conn[i].client \in {"none", "connecting"} => conn[i].server = "none"
    /\ conn[i].server \in {"append", "closed"} => Arrived(i)
    /\ conn[i].server = "append" =>
          conn[i].r_ret \in 1..ReadSize /\ conn[i].r_ret <= conn[i].len

\* A thread that logs has a message until it is pushed, the one it counted last.
Holding == {"enqueue", "wait", "push", "waiting"}

Holds(c) ==
    caller[c] \in Holding =>
        message[c] \in Message /\ message[c].id = <<c, calls[c]>>

TInv == /\ TypeOK
        /\ Queued /\ NoThreads
        /\ \A i \in Id : Connected(i)
        /\ \A c \in Callers : Holds(c)

ThreadsTyped ==
    /\ thread_count \in {0, ThreadCount}
    /\ async_type \in {"ASYNC_SAFE", "ASYNC_UNSAFE"}
    /\ loggers_ \in Callers \cup {NoLogger}
    /\ logger \in [Callers -> Callers \cup {NoLogger}]
    /\ caller \in [Callers -> {"begin", "add", "find", "ready", "enqueue", "wait", "push",
                               "waiting"}]
    /\ message \in [Callers -> Message \cup {NoMessage}]
    /\ calls \in [Callers -> 0..MaxCalls]
    /\ channel \in [Callers -> Seq(Message)]
PoolTyped   == accepted \in Seq(Id) /\ started \in Seq(Id) /\ done \subseteq Id
ServerTyped == /\ server_up \in BOOLEAN /\ logfile \in Seq(Line)
               /\ crashes \in Nat /\ faults \in 0..MaxFaults

\* The parts of the type invariant, none of which looks at the others' variables.
LEMMA TypeParts ==
    TypeOK <=> ThreadsTyped /\ PoolTyped /\ ServerTyped /\ conn \in [Id -> Connection]
BY Zenon DEF TypeOK, ThreadsTyped, PoolTyped, ServerTyped

\* What a step leaves alone keeps its type.
LEMMA Untouched ==
    ASSUME TypeOK
    PROVE  /\ UNCHANGED <<settings, threads>> => ThreadsTyped'
           /\ UNCHANGED pool => PoolTyped'
           /\ UNCHANGED server => ServerTyped'
           /\ UNCHANGED conn => (conn \in [Id -> Connection])'
BY TypeParts DEF ThreadsTyped, PoolTyped, ServerTyped, settings, threads, manager, pool,
                 server

LEMMA ServerFacts ==
    ASSUME TypeOK
    PROVE  crashes \in Nat /\ faults \in 0..MaxFaults /\ logfile \in Seq(Line)
BY TypeParts, Zenon DEF ServerTyped

LEMMA IdFacts ==
    ASSUME TypeOK, NEW c \in Callers
    PROVE  /\ calls[c] \in Nat
           /\ calls[c] # 0 => <<c, calls[c]>> \in Id
           /\ calls[c] < MaxCalls => <<c, calls[c] + 1>> \in Id /\ calls[c] + 1 \in 0..MaxCalls
BY SizesAssumption DEF TypeOK, Id

LEMMA SeqFacts ==
    ASSUME TypeOK
    PROVE  /\ Len(accepted) \in Nat /\ Len(started) \in Nat /\ Len(logfile) \in Nat
           /\ \A k \in 1..Len(accepted) : accepted[k] \in Id
           /\ \A k \in 1..Len(started) : started[k] \in Id
           /\ \A k \in 1..Len(logfile) : logfile[k].id \in Id /\ logfile[k].len \in 1..ReadSize
           /\ Queue!Elements(accepted) = ToSet(accepted)
<1>1. accepted \in Seq(Id) /\ started \in Seq(Id)
  BY DEF TypeOK
<1>2. logfile \in Seq(Line)
  BY DEF TypeOK
<1>3. Queue!Elements(accepted) = ToSet(accepted)
  BY <1>1 DEF Queue!Elements, ToSet
<1>4. /\ Len(logfile) \in Nat
      /\ \A k \in 1..Len(logfile) : logfile[k] \in Line
  BY <1>2
<1>5. /\ Len(accepted) \in Nat /\ Len(started) \in Nat
      /\ \A k \in 1..Len(accepted) : accepted[k] \in Id
      /\ \A k \in 1..Len(started) : started[k] \in Id
  BY <1>1
<1>. QED
  BY <1>3, <1>4, <1>5 DEF Line

\* A started task was accepted, and the next one to start was not started before.
LEMMA StartedFacts ==
    ASSUME TypeOK, Queued
    PROVE  /\ \A i \in Queue!Elements(started) : i \in Queue!Elements(accepted)
           /\ Len(started) < Len(accepted) =>
                 accepted[Len(started) + 1] \notin Queue!Elements(started)
<1>0. Len(accepted) \in Nat /\ Len(started) \in Nat
  BY SeqFacts
<1>1. ASSUME NEW k \in 1..Len(started)
      PROVE  k \in 1..Len(accepted) /\ started[k] = accepted[k]
  BY <1>0, <1>1 DEF Queued
<1>2. ASSUME NEW i \in Queue!Elements(started) PROVE i \in Queue!Elements(accepted)
  <2>1. PICK k \in 1..Len(started) : i = started[k]
    BY <1>2, Zenon DEF Queue!Elements
  <2>. QED
    BY <1>1, <2>1, Zenon DEF Queue!Elements
<1>3. ASSUME Len(started) < Len(accepted),
             accepted[Len(started) + 1] \in Queue!Elements(started)
      PROVE  FALSE
  <2>1. PICK k \in 1..Len(started) : accepted[Len(started) + 1] = started[k]
    BY <1>3, Zenon DEF Queue!Elements
  <2>2. accepted[Len(started) + 1] = accepted[k]
    BY <1>1, <2>1, Zenon
  <2>. QED
    BY <1>0, <1>1, <1>3, <2>2 DEF Queued
<1>. QED
  BY <1>2, <1>3

LEMMA AppendFacts ==
    ASSUME NEW S, NEW s \in Seq(S), NEW x \in S
    PROVE  /\ Append(s, x) \in Seq(S)
           /\ Len(Append(s, x)) = Len(s) + 1 /\ Len(s) \in Nat
           /\ \A k \in 1..Len(s) : k \in 1..Len(Append(s, x)) /\ Append(s, x)[k] = s[k]
           /\ Append(s, x)[Len(s) + 1] = x
           /\ \A k \in 1..Len(Append(s, x)) : k \in 1..Len(s) \/ k = Len(s) + 1
           /\ Last(Append(s, x)) = x
           /\ Queue!Elements(Append(s, x)) = Queue!Elements(s) \cup {x}
<1>1. /\ Append(s, x) \in Seq(S)
      /\ Len(Append(s, x)) = Len(s) + 1 /\ Len(s) \in Nat
      /\ \A k \in 1..Len(s) : Append(s, x)[k] = s[k]
      /\ Append(s, x)[Len(s) + 1] = x
  BY AppendProperties
<1>2. Last(Append(s, x)) = x
  BY <1>1 DEF Last
<1>3. Queue!Elements(Append(s, x)) = Queue!Elements(s) \cup {x}
  BY <1>1 DEF Queue!Elements
<1>. QED
  BY <1>1, <1>2, <1>3

-----------------------------------------------------------------------------
(* Type correctness, with what it needs of the pool and of connections. *)

\* A step on one connection, by what it makes of the record.
LEMMA ConnFacts ==
    ASSUME TypeOK, NEW i \in Id
    PROVE  /\ conn[i] \in Connection
           /\ conn[i].client \in {"none", "connecting", "open", "sent", "failed", "closed"}
           /\ conn[i].server \in {"none", "backlog", "service", "append", "closed",
                               "unread", "reset"}
           /\ conn[i].cnt \in 0..5 /\ conn[i].len \in Lens \cup {0}
           /\ conn[i].r_ret \in 0..ReadSize /\ 0 \in 0..ReadSize
BY SizesAssumption DEF TypeOK, Connection

\* A step on one connection.
LEMMA OneConnection ==
    ASSUME TypeOK, NEW i \in Id, NEW k \in Connection, conn' = [conn EXCEPT ![i] = k]
    PROVE  (conn \in [Id -> Connection])'
BY TypeParts

\* Killing the server resets the connections it had.
LEMMA DiedFacts ==
    ASSUME TypeOK, Died
    PROVE  /\ conn' \in [Id -> Connection]
           /\ \A i \in Id :
                /\ conn'[i].client = conn[i].client /\ conn'[i].cnt = conn[i].cnt
                /\ conn'[i].len = conn[i].len
                /\ \/ conn'[i] = conn[i] /\ conn[i].server # "append"
                   \/ conn'[i].server = "reset"
                      /\ conn[i].server \in {"backlog", "service", "append"}
<1>1. ASSUME NEW i \in Id
      PROVE  /\ conn'[i] \in Connection
             /\ conn'[i].client = conn[i].client /\ conn'[i].cnt = conn[i].cnt
             /\ conn'[i].len = conn[i].len
             /\ \/ conn'[i] = conn[i] /\ conn[i].server # "append"
                \/ conn'[i].server = "reset"
                   /\ conn[i].server \in {"backlog", "service", "append"}
  <2>1. conn'[i] = IF conn[i].server \in {"backlog", "service", "append"}
                   THEN [conn[i] EXCEPT !.server = "reset", !.r_ret = 0]
                   ELSE conn[i]
    BY DEF Died
  <2>. QED
    BY <2>1, ConnFacts DEF Connection
<1>2. conn' = [i \in Id |-> conn'[i]]
  BY DEF Died
<1>. QED
  BY <1>1, <1>2

LEMMA InitTyped == Init => TInv
<1>. SUFFICES ASSUME Init PROVE TInv
  OBVIOUS
<1>1. /\ <<>> \in Seq(Id) /\ <<>> \in Seq(Message)
      /\ <<>> \in Seq(Line)
  BY EmptySeq
<1>2. NoConnection \in Connection
  BY SizesAssumption DEF NoConnection, Connection
<1>3. TypeOK
  BY <1>1, <1>2, SizesAssumption DEF Init, TypeOK, Queue!Init
<1>4. Queued /\ NoThreads
  BY DEF Init, Queue!Init, Queued, NoThreads, Queue!Elements
<1>5. \A i \in Id : Connected(i)
  BY DEF Init, NoConnection, Connected
<1>6. \A c \in Callers : Holds(c)
  BY DEF Init, Holds, Holding
<1>. QED
  BY <1>3, <1>4, <1>5, <1>6 DEF TInv

\* Every step keeps the types.
LEMMA StepTyped ==
    ASSUME TInv, [Next]_vars PROVE TypeOK'
<1>. USE DEF TInv
<1>t. ThreadsTyped' /\ PoolTyped' /\ ServerTyped' /\ (conn \in [Id -> Connection])' => TypeOK'
  BY TypeParts, PTL
<1>1. ASSUME NEW c \in Callers,
             LoggerExist(c) \/ AddLogger(c) \/ GetLogger(c)
      PROVE  TypeOK'
  <2>1. ThreadsTyped'
    BY <1>1, TypeParts
       DEF LoggerExist, AddLogger, GetLogger, Goto, ThreadsTyped, settings, manager
  <2>. QED
    BY <1>1, <1>t, <2>1, Untouched DEF LoggerExist, AddLogger, GetLogger
<1>2. ASSUME NEW c \in Callers, NEW level \in {"INFO", "ERROR"}, NEW len \in Lens,
             Logs(c, level, len)
      PROVE  TypeOK'
  <2>1. <<c, calls'[c]>> \in Id /\ calls' \in [Callers -> 0..MaxCalls]
    BY <1>2, IdFacts, TypeParts DEF Logs, ThreadsTyped
  <2>2. message' \in [Callers -> Message \cup {NoMessage}]
    BY <1>2, <2>1, TypeParts DEF Logs, ThreadsTyped, Message
  <2>3. ThreadsTyped'
    BY <1>2, <2>1, <2>2, TypeParts DEF Logs, Goto, ThreadsTyped, settings, manager
  <2>. QED
    BY <1>2, <1>t, <2>3, Untouched DEF Logs
<1>3. ASSUME NEW c \in Callers, Enqueues(c) PROVE TypeOK'
  <2>1. message[c].id \in Id /\ message[c].len \in Lens
    BY <1>3 DEF Enqueues, Holds, Holding, Message
  <2>2. PoolTyped'
    BY <1>3, <2>1, AppendFacts, TypeParts DEF Enqueues, Queue!Accept, PoolTyped
  <2>3. (conn \in [Id -> Connection])'
    BY <1>3, <2>1, TypeParts DEF Enqueues, Connection
  <2>4. ThreadsTyped'
    BY <1>3, TypeParts DEF Enqueues, Goto, ThreadsTyped, settings, manager
  <2>. QED
    BY <1>3, <1>t, <2>2, <2>3, <2>4, Untouched DEF Enqueues
<1>4. ASSUME NEW c \in Callers, EnqueueThrows(c) \/ GetReturns(c) PROVE TypeOK'
  <2>1. ThreadsTyped'
    BY <1>4, TypeParts DEF EnqueueThrows, GetReturns, Goto, ThreadsTyped, settings, manager
  <2>. QED
    BY <1>4, <1>t, <2>1, Untouched DEF EnqueueThrows, GetReturns
<1>p. ASSUME NEW c \in Callers, PushWaits(c) \/ PushWakes(c) PROVE TypeOK'
  <2>1. ThreadsTyped'
    BY <1>p, TypeParts DEF PushWaits, PushWakes, Goto, ThreadsTyped, settings, manager
  <2>. QED
    BY <1>p, <1>t, <2>1, Untouched DEF PushWaits, PushWakes
<1>5. ASSUME NEW c \in Callers, Pushes(c) PROVE TypeOK'
  <2>1. message[c] \in Message
    BY <1>5 DEF Pushes, Holds, Holding
  <2>2. channel' \in [Callers -> Seq(Message)]
    BY <1>5, <2>1, AppendProperties, TypeParts DEF Pushes, ThreadsTyped
  <2>3. ThreadsTyped'
    BY <1>5, <2>2, TypeParts DEF Pushes, Goto, ThreadsTyped, settings, manager
  <2>. QED
    BY <1>5, <1>t, <2>3, Untouched DEF Pushes
<1>6. CASE BackupStarts
  <2>. DEFINE t == accepted[Len(started) + 1]
  <2>1. t \in Id /\ started' = Append(started, t)
    BY <1>6, SeqFacts DEF BackupStarts, Queue!Start
  <2>2. Append(started, t) \in Seq(Id) /\ Last(started') = t
    BY <2>1, AppendFacts, TypeParts DEF PoolTyped
  <2>3. conn' = [conn EXCEPT ![t].client = "connecting"]
    BY <1>6, <2>2 DEF BackupStarts
  <2>4. (conn \in [Id -> Connection])'
    <3>. DEFINE k == [conn[t] EXCEPT !.client = "connecting"]
    <3>1. k \in Connection
      BY <2>1, ConnFacts DEF Connection
    <3>2. conn' = [conn EXCEPT ![t] = k]
      BY <2>3
    <3>. HIDE DEF k, t
    <3>. QED
      BY <2>1, <3>1, <3>2, OneConnection
  <2>5. PoolTyped'
    BY <1>6, <2>1, <2>2, TypeParts DEF BackupStarts, Queue!Start, PoolTyped
  <2>. QED
    BY <1>6, <1>t, <2>4, <2>5, Untouched DEF BackupStarts
<1>7. ASSUME NEW i \in Id, Backup(i) PROVE TypeOK'
  <2>1. CASE Connects(i)
    <3>1. (conn \in [Id -> Connection])'
      <4>. DEFINE k == [conn[i] EXCEPT !.client = "open", !.server = "backlog"]
      <4>1. k \in Connection
        BY ConnFacts DEF Connection
      <4>2. conn' = [conn EXCEPT ![i] = k]
        BY <2>1 DEF Connects
      <4>. QED
        BY <4>1, <4>2, OneConnection
    <3>. QED
      BY <2>1, <1>t, <3>1, Untouched DEF Connects
  <2>2. CASE ConnectFails(i)
    <3>1. conn[i].cnt \in 1..5 /\ conn[i].cnt - 1 \in 0..5
      BY <2>2, ConnFacts DEF ConnectFails, Connected
    <3>2. (conn \in [Id -> Connection])'
      <4>. DEFINE client == IF conn[i].cnt - 1 <= 0 THEN "failed" ELSE "connecting"
      <4>. DEFINE k == [conn[i] EXCEPT !.cnt = conn[i].cnt - 1, !.client = client]
      <4>1. conn' = [conn EXCEPT ![i] = k]
        BY <2>2, Zenon DEF ConnectFails
      <4>2. client \in {"failed", "connecting"}
        OBVIOUS
      <4>. HIDE DEF client
      <4>3. k \in Connection
        BY <3>1, <4>2, ConnFacts DEF Connection
      <4>. HIDE DEF k
      <4>. QED
        BY <4>1, <4>3, OneConnection
    <3>3. ServerTyped'
      BY <2>2, SizesAssumption, TypeParts DEF ConnectFails, Fault, NoFault, ServerTyped
    <3>. QED
      BY <2>2, <1>t, <3>2, <3>3, Untouched DEF ConnectFails
  <2>3. CASE Sends(i)
    <3>1. PICK len \in Lens \cup {0} :
             conn' = [conn EXCEPT ![i] = [@ EXCEPT !.client = "sent", !.len = len]]
      <4>1. CASE conn' = [conn EXCEPT ![i].client = "sent"]
        BY <4>1, ConnFacts DEF Connection
      <4>2. CASE conn' = [conn EXCEPT ![i] = [@ EXCEPT !.client = "sent", !.len = 0]]
        BY <4>2
      <4>. QED
        BY <2>3, <4>1, <4>2 DEF Sends
    <3>2. (conn \in [Id -> Connection])'
      <4>. DEFINE k == [conn[i] EXCEPT !.client = "sent", !.len = len]
      <4>1. k \in Connection
        BY ConnFacts DEF Connection
      <4>. QED
        BY <3>1, <4>1, OneConnection
    <3>3. ServerTyped'
      BY <2>3, SizesAssumption, TypeParts DEF Sends, Fault, NoFault, ServerTyped
    <3>. QED
      BY <2>3, <1>t, <3>2, <3>3, Untouched DEF Sends
  <2>4. CASE BackupEnds(i)
    <3>1. (conn \in [Id -> Connection])'
      <4>. DEFINE k == [conn[i] EXCEPT !.client = "closed", !.cnt = 5]
      <4>1. k \in Connection
        <5>1. 5 \in 0..5
          OBVIOUS
        <5>. QED
          BY <5>1, ConnFacts DEF Connection
      <4>2. conn' = [conn EXCEPT ![i] = k]
        BY <2>4 DEF BackupEnds
      <4>. QED
        BY <4>1, <4>2, OneConnection
    <3>2. PoolTyped'
      BY <2>4, TypeParts DEF BackupEnds, Queue!Finish, PoolTyped
    <3>. QED
      BY <2>4, <1>t, <3>1, <3>2, Untouched DEF BackupEnds
  <2>. QED
    BY <1>7, <2>1, <2>2, <2>3, <2>4 DEF Backup
<1>8. CASE PoolEnds
  <2>1. PoolTyped'
    BY <1>8, TypeParts DEF PoolEnds, Queue!Stop, Queue!Close, PoolTyped
  <2>. QED
    BY <1>8, <1>t, <2>1, Untouched DEF PoolEnds
<1>9. ASSUME NEW i \in Id, Serve(i) PROVE TypeOK'
  <2>1. CASE Accepts(i)
    <3>1. (conn \in [Id -> Connection])'
      BY <2>1, TypeParts DEF Accepts, Connection
    <3>. QED
      BY <2>1, <1>t, <3>1, Untouched DEF Accepts
  <2>2. CASE Reads(i)
    <3>1. PICK n \in 1..ReadSize :
             conn' = [conn EXCEPT ![i] = [@ EXCEPT !.r_ret = n, !.server = "append"]]
      BY <2>2 DEF Reads
    <3>2. (conn \in [Id -> Connection])'
      <4>1. n \in 0..ReadSize
        BY SizesAssumption
      <4>2. [conn[i] EXCEPT !.r_ret = n, !.server = "append"] \in Connection
        BY <4>1, ConnFacts DEF Connection
      <4>. QED
        BY <3>1, <4>2, OneConnection
    <3>. QED
      BY <2>2, <1>t, <3>2, Untouched DEF Reads
  <2>n. CASE ReadsNothing(i)
    <3>1. (conn \in [Id -> Connection])'
      BY <2>n, TypeParts DEF ReadsNothing, Connection
    <3>2. ServerTyped'
      BY <2>n, SizesAssumption, TypeParts DEF ReadsNothing, Fault, NoFault, ServerTyped
    <3>. QED
      BY <2>n, <1>t, <3>1, <3>2, Untouched DEF ReadsNothing
  <2>3. CASE ReadOverflows(i) \/ AppendFails(i)
    <3>1. (conn \in [Id -> Connection])'
      BY <2>3, DiedFacts DEF ReadOverflows, AppendFails
    <3>2. ServerTyped'
      <4>1. crashes' \in Nat /\ faults' \in 0..MaxFaults /\ logfile' \in Seq(Line)
        <5>1. /\ crashes' = crashes + 1 /\ logfile' = logfile
              /\ faults' = faults \/ Fault
          BY <2>3, Zenon DEF ReadOverflows, AppendFails, Died
        <5>. QED
          BY <5>1, SizesAssumption, ServerFacts DEF Fault
      <4>2. server_up' = FALSE
        BY <2>3 DEF ReadOverflows, AppendFails, Died
      <4>. QED
        BY <4>1, <4>2 DEF ServerTyped
    <3>. QED
      BY <2>3, <1>t, <3>1, <3>2, Untouched DEF ReadOverflows, AppendFails
  <2>4. CASE Appends(i)
    <3>1. (conn \in [Id -> Connection])'
      <4>. DEFINE k == [conn[i] EXCEPT !.server = "closed", !.r_ret = 0]
      <4>1. k \in Connection
        BY ConnFacts DEF Connection
      <4>2. conn' = [conn EXCEPT ![i] = k]
        BY <2>4 DEF Appends
      <4>. QED
        BY <4>1, <4>2, OneConnection
    <3>2. [id |-> i, len |-> conn[i].r_ret] \in Line
      BY <2>4 DEF Appends, Connected, Line
    <3>3. ServerTyped'
      BY <2>4, <3>2, AppendFacts, TypeParts DEF Appends, ServerTyped
    <3>. QED
      BY <2>4, <1>t, <3>1, <3>3, Untouched DEF Appends
  <2>. QED
    BY <1>9, <2>1, <2>2, <2>n, <2>3, <2>4 DEF Serve
<1>10. CASE ServerCrash
  <2>1. (conn \in [Id -> Connection])'
    BY <1>10, DiedFacts DEF ServerCrash
  <2>2. ServerTyped'
    <3>1. crashes' \in Nat /\ faults' \in 0..MaxFaults /\ logfile' \in Seq(Line)
      <4>1. crashes' = crashes + 1 /\ UNCHANGED <<logfile, faults>>
        BY <1>10, Zenon DEF ServerCrash, Died
      <4>. QED
        BY <4>1, ServerFacts
    <3>2. server_up' = FALSE
      BY <1>10 DEF ServerCrash, Died
    <3>. QED
      BY <3>1, <3>2 DEF ServerTyped
  <2>. QED
    BY <1>10, <1>t, <2>1, <2>2, Untouched DEF ServerCrash
<1>11. CASE ServerStarts
  <2>1. ServerTyped'
    <3>1. crashes' \in Nat /\ faults' \in 0..MaxFaults /\ logfile' \in Seq(Line)
      BY <1>11, SizesAssumption, ServerFacts DEF ServerStarts, Fault, NoFault
    <3>2. server_up' \in BOOLEAN
      BY <1>11, Zenon DEF ServerStarts
    <3>. QED
      BY <3>1, <3>2 DEF ServerTyped
  <2>. QED
    BY <1>11, <1>t, <2>1, Untouched DEF ServerStarts
<1>12. CASE UNCHANGED vars
  BY <1>12, <1>t, Untouched DEF vars
<1>. QED
  BY <1>1, <1>2, <1>3, <1>4, <1>p, <1>5, <1>6, <1>7, <1>8, <1>9, <1>10, <1>11, <1>12
     DEF Next, Serialize

\* The steps that touch the pool, and those that touch a connection.
LEMMA PoolSteps ==
    ASSUME [Next]_vars
    PROVE  \/ UNCHANGED pool
           \/ \E c \in Callers : Enqueues(c)
           \/ BackupStarts
           \/ \E i \in Id : BackupEnds(i)
           \/ PoolEnds
<1>1. ASSUME NEW c \in Callers, NEW level \in {"INFO", "ERROR"}, NEW len \in Lens,
             Logs(c, level, len)
      PROVE  UNCHANGED pool
  BY <1>1 DEF Logs
<1>2. ASSUME NEW c \in Callers,
             LoggerExist(c) \/ AddLogger(c) \/ GetLogger(c) \/ EnqueueThrows(c)
             \/ GetReturns(c) \/ PushWaits(c) \/ PushWakes(c) \/ Pushes(c)
      PROVE  UNCHANGED pool
  BY <1>2 DEF LoggerExist, AddLogger, GetLogger, EnqueueThrows, GetReturns, PushWaits,
              PushWakes, Pushes
<1>3. ASSUME NEW i \in Id, Connects(i) \/ ConnectFails(i) \/ Sends(i) \/ Serve(i)
      PROVE  UNCHANGED pool
  BY <1>3 DEF Connects, ConnectFails, Sends, Serve, Accepts, Reads, ReadsNothing,
              ReadOverflows, Appends, AppendFails
<1>4. CASE ServerCrash \/ ServerStarts \/ UNCHANGED vars
  BY <1>4 DEF ServerCrash, ServerStarts, vars
<1>. QED
  BY <1>1, <1>2, <1>3, <1>4 DEF Next, Serialize, Backup

LEMMA ConnSteps ==
    ASSUME [Next]_vars
    PROVE  \/ UNCHANGED conn
           \/ \E c \in Callers : Enqueues(c)
           \/ BackupStarts
           \/ \E i \in Id : Backup(i) \/ Serve(i)
           \/ ServerCrash
<1>1. ASSUME NEW c \in Callers, NEW level \in {"INFO", "ERROR"}, NEW len \in Lens,
             Logs(c, level, len)
      PROVE  UNCHANGED conn
  BY <1>1 DEF Logs
<1>2. ASSUME NEW c \in Callers,
             LoggerExist(c) \/ AddLogger(c) \/ GetLogger(c) \/ EnqueueThrows(c)
             \/ GetReturns(c) \/ PushWaits(c) \/ PushWakes(c) \/ Pushes(c)
      PROVE  UNCHANGED conn
  BY <1>2 DEF LoggerExist, AddLogger, GetLogger, EnqueueThrows, GetReturns, PushWaits,
              PushWakes, Pushes
<1>3. CASE PoolEnds \/ ServerStarts \/ UNCHANGED vars
  BY <1>3 DEF PoolEnds, ServerStarts, vars
<1>. QED
  BY <1>1, <1>2, <1>3 DEF Next, Serialize

LEMMA StepQueued ==
    ASSUME TInv, TypeOK', [Next]_vars PROVE Queued'
<1>. USE DEF TInv
<1>1. CASE UNCHANGED <<accepted, started, done>>
  BY <1>1 DEF Queued, Queue!Elements
<1>2. ASSUME NEW c \in Callers, Enqueues(c) PROVE Queued'
  <2>. DEFINE i == message[c].id
  <2>1. /\ i \in Id /\ i \notin Queue!Elements(accepted)
        /\ accepted' = Append(accepted, i) /\ UNCHANGED <<started, done>>
    BY <1>2 DEF Enqueues, Queue!Accept, Holds, Holding, Message
  <2>. HIDE DEF i
  <2>2. accepted \in Seq(Id)
    BY TypeParts DEF PoolTyped
  <2>3. \A k \in 1..Len(accepted) : accepted[k] # i
    BY <2>1 DEF Queue!Elements
  <2>. QED
    BY <2>1, <2>2, <2>3, SeqFacts, AppendFacts DEF Queued, Queue!Elements
<1>3. CASE BackupStarts
  <2>. DEFINE t == accepted[Len(started) + 1]
  <2>1. /\ Len(started) < Len(accepted) /\ t \in Id
        /\ started' = Append(started, t) /\ UNCHANGED <<accepted, done>>
    BY <1>3, SeqFacts DEF BackupStarts, Queue!Start
  <2>. HIDE DEF t
  <2>2. started \in Seq(Id)
    BY TypeParts DEF PoolTyped
  <2>. QED
    BY <2>1, <2>2, SeqFacts, AppendFacts DEF Queued, t
<1>4. ASSUME NEW i \in Id, BackupEnds(i) PROVE Queued'
  BY <1>4 DEF BackupEnds, Queue!Finish, Queued, Queue!Elements
<1>5. CASE PoolEnds
  <2>1. UNCHANGED <<accepted, started, done>>
    BY <1>5 DEF PoolEnds, Queue!Stop, Queue!Close
  <2>. QED
    BY <1>1, <2>1
<1>. QED
  BY <1>1, <1>2, <1>3, <1>4, <1>5, PoolSteps DEF pool

\* The configuration is read once.
LEMMA StepThreads == [Next]_vars => thread_count' = thread_count
<1>. SUFFICES ASSUME [Next]_vars PROVE thread_count' = thread_count
  OBVIOUS
<1>1. ASSUME NEW c \in Callers, NEW level \in {"INFO", "ERROR"}, NEW len \in Lens,
             Logs(c, level, len)
      PROVE  thread_count' = thread_count
  BY <1>1 DEF Logs, settings
<1>2. ASSUME NEW c \in Callers,
             LoggerExist(c) \/ AddLogger(c) \/ GetLogger(c) \/ Serialize(c)
      PROVE  thread_count' = thread_count
  BY <1>2 DEF LoggerExist, AddLogger, GetLogger, Serialize, Enqueues, EnqueueThrows,
              GetReturns, PushWaits, PushWakes, Pushes, settings
<1>3. ASSUME NEW i \in Id, Backup(i) \/ Serve(i) PROVE thread_count' = thread_count
  BY <1>3 DEF Backup, Connects, ConnectFails, Sends, BackupEnds, Serve, Accepts, Reads,
              ReadsNothing, ReadOverflows, Appends, AppendFails, settings
<1>4. CASE BackupStarts \/ PoolEnds \/ ServerCrash \/ ServerStarts \/ UNCHANGED vars
  BY <1>4 DEF BackupStarts, PoolEnds, ServerCrash, ServerStarts, vars, settings
<1>. QED
  BY <1>1, <1>2, <1>3, <1>4 DEF Next

LEMMA StepNoThreads ==
    ASSUME TInv, [Next]_vars PROVE NoThreads'
<1>. USE DEF TInv
<1>0. thread_count' = thread_count
  BY StepThreads
<1>1. CASE UNCHANGED <<started, stop>>
  BY <1>0, <1>1 DEF NoThreads
<1>2. CASE BackupStarts \/ PoolEnds
  BY <1>0, <1>2 DEF BackupStarts, PoolEnds, NoThreads
<1>3. ASSUME NEW c \in Callers, Enqueues(c) PROVE UNCHANGED <<started, stop>>
  BY <1>3 DEF Enqueues, Queue!Accept
<1>4. ASSUME NEW i \in Id, BackupEnds(i) PROVE UNCHANGED <<started, stop>>
  BY <1>4 DEF BackupEnds, Queue!Finish
<1>. QED
  BY <1>1, <1>2, <1>3, <1>4, PoolSteps DEF pool

LEMMA StepConnected ==
    ASSUME TInv, TypeOK', [Next]_vars PROVE \A i \in Id : Connected(i)'
<1>. USE DEF TInv
<1>. SUFFICES ASSUME NEW j \in Id PROVE Connected(j)'
  OBVIOUS
<1>s. Queue!Elements(started) \subseteq Queue!Elements(started)'
  <2>1. CASE started' = started
    BY <2>1 DEF Queue!Elements
  <2>2. CASE BackupStarts
    <3>. DEFINE t == accepted[Len(started) + 1]
    <3>1. t \in Id /\ started' = Append(started, t)
      BY <2>2, SeqFacts DEF BackupStarts, Queue!Start
    <3>. QED
      BY <3>1, SeqFacts, TypeParts, AppendFacts DEF PoolTyped, Queue!Elements
  <2>3. ASSUME NEW c \in Callers, Enqueues(c) PROVE started' = started
    BY <2>3 DEF Enqueues, Queue!Accept
  <2>4. ASSUME NEW i \in Id, BackupEnds(i) PROVE started' = started
    BY <2>4 DEF BackupEnds, Queue!Finish
  <2>5. PoolEnds => started' = started
    BY DEF PoolEnds, Queue!Stop, Queue!Close
  <2>. QED
    BY <2>1, <2>2, <2>3, <2>4, <2>5, PoolSteps DEF pool
<1>1. CASE conn'[j] = conn[j]
  BY <1>1, <1>s DEF Connected, Arrived
<1>2. ASSUME NEW c \in Callers, Enqueues(c) PROVE Connected(j)'
  <2>1. /\ message[c].id \in Id /\ message[c].id \notin Queue!Elements(accepted)
        /\ conn' = [conn EXCEPT ![message[c].id].len = message[c].len]
        /\ UNCHANGED started
    BY <1>2 DEF Enqueues, Queue!Accept, Holds, Holding, Message
  <2>2. Queue!Elements(started) \subseteq Queue!Elements(accepted)
    BY SeqFacts DEF Queued, Queue!Elements
  <2>3. CASE j = message[c].id
    BY <2>1, <2>2, <2>3, <1>s, ConnFacts, TypeParts DEF Connected, Arrived, Connection
  <2>4. CASE j # message[c].id
    BY <1>1, <2>1, <2>4, TypeParts
  <2>. QED
    BY <2>3, <2>4
<1>3. CASE BackupStarts
  <2>. DEFINE t == accepted[Len(started) + 1]
  <2>1. /\ Len(started) < Len(accepted) /\ t \in Id
        /\ started' = Append(started, t)
    BY <1>3, SeqFacts DEF BackupStarts, Queue!Start
  <2>2. started \in Seq(Id) /\ Last(started') = t /\ t \in Queue!Elements(started')
    BY <2>1, AppendFacts, TypeParts DEF PoolTyped
  <2>3. conn' = [conn EXCEPT ![t].client = "connecting"]
    BY <1>3, <2>2 DEF BackupStarts
  <2>4. t \notin Queue!Elements(started)
    BY <2>1, StartedFacts
  <2>. HIDE DEF t
  <2>5. CASE j = t
    BY <2>1, <2>2, <2>3, <2>4, <2>5, ConnFacts, TypeParts
       DEF Connected, Arrived, Connection, Queue!Elements
  <2>6. CASE j # t
    BY <1>1, <2>1, <2>3, <2>6, TypeParts
  <2>. QED
    BY <2>5, <2>6
<1>4. ASSUME NEW i \in Id, Backup(i) \/ Serve(i) PROVE Connected(j)'
  <2>1. CASE ReadOverflows(i) \/ AppendFails(i)
    <3>1. Died
      BY <2>1 DEF ReadOverflows, AppendFails
    <3>. QED
      BY <3>1, <1>1, <1>s, DiedFacts DEF Connected, Arrived
  <2>2. CASE conn'[j] # conn[j] /\ ~(ReadOverflows(i) \/ AppendFails(i))
    <3>1. CASE Connects(i)
      BY <2>2, <3>1, <1>s, ConnFacts, TypeParts DEF Connects, Connected, Arrived, Connection
    <3>2. CASE ConnectFails(i)
      <4>1. conn[i].client = "connecting"
        BY <3>2, Zenon DEF ConnectFails
      <4>. DEFINE cnt == conn[i].cnt - 1
      <4>2. conn' = [conn EXCEPT ![i] = [@ EXCEPT
                  !.cnt = cnt, !.client = IF cnt <= 0 THEN "failed" ELSE "connecting"]]
        BY <3>2, Zenon DEF ConnectFails
      <4>3. j = i /\ conn'[j].client = (IF cnt <= 0 THEN "failed" ELSE "connecting")
            /\ conn'[j].cnt = cnt /\ conn'[j].server = conn[j].server
        BY <2>2, <4>2, ConnFacts, TypeParts DEF Connection
      <4>. QED
        BY <4>1, <4>3, <1>s, ConnFacts DEF Connected, Arrived
    <3>3. CASE Sends(i)
      <4>1. conn[i].client = "open" /\ conn[i].server \notin {"append", "closed"}
        BY <3>3 DEF Sends, Connected, Arrived
      <4>2. /\ j = i /\ conn'[j].client = "sent" /\ conn'[j].cnt = conn[j].cnt
            /\ conn'[j].server = conn[j].server
        <5>1. CASE conn' = [conn EXCEPT ![i].client = "sent"]
          BY <2>2, <5>1, TypeParts DEF Connection
        <5>2. CASE conn' = [conn EXCEPT ![i] = [@ EXCEPT !.client = "sent", !.len = 0]]
          BY <2>2, <5>2, TypeParts DEF Connection
        <5>. QED
          BY <3>3, <5>1, <5>2 DEF Sends
      <4>. QED
        BY <4>1, <4>2, <1>s DEF Connected
    <3>4. CASE BackupEnds(i)
      BY <2>2, <3>4, <1>s, ConnFacts, TypeParts
         DEF BackupEnds, Connected, Arrived, Connection
    <3>5. CASE Accepts(i)
      BY <2>2, <3>5, <1>s, ConnFacts, TypeParts DEF Accepts, Connected, Arrived, Connection
    <3>6. CASE Reads(i)
      BY <2>2, <3>6, <1>s, ConnFacts, TypeParts DEF Reads, Connected, Arrived, Connection
    <3>8. CASE ReadsNothing(i)
      BY <2>2, <3>8, <1>s, ConnFacts, TypeParts
         DEF ReadsNothing, Connected, Arrived, Connection
    <3>7. CASE Appends(i)
      BY <2>2, <3>7, <1>s, ConnFacts, TypeParts DEF Appends, Connected, Arrived, Connection
    <3>. QED
      BY <1>4, <2>2, <3>1, <3>2, <3>3, <3>4, <3>5, <3>6, <3>7, <3>8 DEF Backup, Serve
  <2>. QED
    BY <1>1, <2>1, <2>2
<1>5. CASE ServerCrash
  <2>1. Died
    BY <1>5 DEF ServerCrash
  <2>. QED
    BY <1>1, <2>1, <1>s, DiedFacts DEF Connected, Arrived
<1>. QED
  BY <1>1, <1>2, <1>3, <1>4, <1>5, ConnSteps

LEMMA StepHolds ==
    ASSUME TInv, TypeOK', [Next]_vars PROVE \A c \in Callers : Holds(c)'
<1>. USE DEF TInv
<1>1. CASE UNCHANGED <<caller, message, calls>>
  BY <1>1 DEF Holds
<1>2. ASSUME NEW d \in Callers, NEW level \in {"INFO", "ERROR"}, NEW len \in Lens,
             Logs(d, level, len)
      PROVE  \A c \in Callers : Holds(c)'
  <2>1. <<d, calls'[d]>> \in Id
    BY <1>2, IdFacts, TypeParts DEF Logs, ThreadsTyped
  <2>2. Holds(d)'
    BY <1>2, <2>1, TypeParts DEF Logs, ThreadsTyped, Holds, Message
  <2>3. ASSUME NEW c \in Callers, c # d PROVE Holds(c)'
    BY <1>2, <2>3, TypeParts DEF Logs, Goto, ThreadsTyped, Holds
  <2>. QED
    BY <2>2, <2>3
<1>3. ASSUME NEW d \in Callers, Serialize(d) PROVE \A c \in Callers : Holds(c)'
  BY <1>3, TypeParts DEF Serialize, Enqueues, EnqueueThrows, GetReturns, PushWaits,
                         PushWakes, Pushes, Goto, ThreadsTyped, Holds, Holding
<1>4. ASSUME NEW d \in Callers, LoggerExist(d) \/ AddLogger(d) \/ GetLogger(d)
      PROVE  \A c \in Callers : Holds(c)'
  BY <1>4, TypeParts DEF LoggerExist, AddLogger, GetLogger, Goto, ThreadsTyped, Holds,
                         Holding
<1>5. ASSUME NEW i \in Id, Backup(i) \/ Serve(i)
      PROVE  UNCHANGED <<caller, message, calls>>
  BY <1>5 DEF Backup, Connects, ConnectFails, Sends, BackupEnds, Serve, Accepts, Reads,
              ReadsNothing, ReadOverflows, Appends, AppendFails, threads
<1>6. CASE BackupStarts \/ PoolEnds \/ ServerCrash \/ ServerStarts \/ UNCHANGED vars
  BY <1>1, <1>6 DEF BackupStarts, PoolEnds, ServerCrash, ServerStarts, vars, threads
<1>. QED
  BY <1>1, <1>2, <1>3, <1>4, <1>5, <1>6 DEF Next

LEMMA Typed == Spec => []TInv
<1>1. TInv /\ [Next]_vars => TInv'
  BY StepTyped, StepQueued, StepNoThreads, StepConnected, StepHolds DEF TInv
<1>. QED
  BY <1>1, InitTyped, PTL DEF Spec

\* Every variable keeps its type.
THEOREM TypeCorrect == Spec => []TypeOK
<1>1. TInv => TypeOK
  BY DEF TInv
<1>. QED
  BY <1>1, Typed, PTL

-----------------------------------------------------------------------------
(* One logger per name. *)

\* A thread that has looked or added finds a logger in the table, gets that one,
\* and only that one has a channel with something in it.
Handed ==
    /\ \A c \in Callers : caller[c] \notin {"begin", "add"} => loggers_ # NoLogger
    /\ \A c \in Callers : caller[c] \in {"ready"} \cup Holding => logger[c] = loggers_
    /\ OneLoggerPerName

LEMMA StepHanded == ASSUME TInv, Handed, [Next]_vars PROVE Handed'
<1>. USE TypeParts DEF TInv, ThreadsTyped, Goto
<1>1. CASE UNCHANGED <<caller, loggers_, logger, channel>>
  BY <1>1 DEF Handed, OneLoggerPerName
<1>2. ASSUME NEW c \in Callers, LoggerExist(c) PROVE Handed'
  BY <1>2 DEF LoggerExist, Handed, OneLoggerPerName, Holding, manager
<1>3. ASSUME NEW c \in Callers, AddLogger(c) PROVE Handed'
  BY <1>3, CallersAssumption DEF AddLogger, Handed, OneLoggerPerName, Holding
<1>4. ASSUME NEW c \in Callers, GetLogger(c) PROVE Handed'
  BY <1>4 DEF GetLogger, Handed, OneLoggerPerName, Holding
<1>5. ASSUME NEW c \in Callers, NEW level \in {"INFO", "ERROR"}, NEW len \in Lens,
             Logs(c, level, len)
      PROVE  Handed'
  BY <1>5 DEF Logs, Handed, OneLoggerPerName, Holding, manager
<1>6. ASSUME NEW c \in Callers,
             Enqueues(c) \/ EnqueueThrows(c) \/ GetReturns(c)
             \/ PushWaits(c) \/ PushWakes(c)
      PROVE  Handed'
  BY <1>6 DEF Enqueues, EnqueueThrows, GetReturns, PushWaits, PushWakes, Handed,
              OneLoggerPerName, Holding, manager
<1>7. ASSUME NEW c \in Callers, Pushes(c) PROVE Handed'
  <2>1. /\ logger[c] = loggers_
        /\ \A d \in Callers \ {loggers_} : channel'[d] = channel[d]
    BY <1>7 DEF Pushes, Handed, Holding
  <2>. QED
    BY <1>7, <2>1 DEF Pushes, Handed, OneLoggerPerName, Holding, manager
<1>8. ASSUME NEW i \in Id, Backup(i) \/ Serve(i)
      PROVE  UNCHANGED <<caller, loggers_, logger, channel>>
  BY <1>8 DEF Backup, Connects, ConnectFails, Sends, BackupEnds, Serve, Accepts, Reads,
              ReadsNothing, ReadOverflows, Appends, AppendFails, threads, manager
<1>9. CASE BackupStarts \/ PoolEnds \/ ServerCrash \/ ServerStarts \/ UNCHANGED vars
  BY <1>1, <1>9
     DEF BackupStarts, PoolEnds, ServerCrash, ServerStarts, vars, threads, manager
<1>. QED
  BY <1>1, <1>2, <1>3, <1>4, <1>5, <1>6, <1>7, <1>8, <1>9 DEF Next, Serialize

\* All threads that log under one name log to one and the same logger.
THEOREM OneLoggerPerNameHolds == Spec => []OneLoggerPerName
<1>1. Init => Handed
  BY DEF Init, Handed, OneLoggerPerName, Holding
<1>2. TInv /\ Handed /\ [Next]_vars => Handed'
  BY StepHanded
<1>3. Handed => OneLoggerPerName
  BY DEF Handed
<1>. QED
  BY <1>1, <1>2, <1>3, Typed, PTL DEF Spec

-----------------------------------------------------------------------------
(* The backup comes first. *)

BackedUp(i) == thread_count # 0 /\ (i \in done \/ (stop /\ i \notin Queue!Elements(accepted)))

\* A message that may enter the channel.
Settled(m) == IF m.level = "ERROR" THEN BackedUp(m.id)
              ELSE m.id \notin Queue!Elements(accepted)

\* The call that logs message i has returned.
Ended(i) == \/ i[2] < calls[i[1]]
            \/ i[2] = calls[i[1]] /\ caller[i[1]] \notin Holding

\* Where a thread is tells how far the backup of its message is.
WellPlaced(c) ==
    /\ caller[c] \in {"enqueue", "wait"} => message[c].level = "ERROR"
    /\ caller[c] = "enqueue" => message[c].id \notin Queue!Elements(accepted)
    /\ caller[c] \in {"push", "waiting"} => Settled(message[c])

\* No task is named for a call to come, what is in a channel has been settled and
\* no later call has its name.
Backups ==
    /\ \A i \in Queue!Elements(accepted) : i[2] <= calls[i[1]]
    /\ \A c \in Callers : WellPlaced(c)
    /\ \A m \in Pushed : m \in Message /\ Ended(m.id) /\ Settled(m)

\* What is settled stays so, unless a thread has a message backed up under the
\* name of one that needs no backup.
LEMMA SettledStays ==
    ASSUME TInv, [Next]_vars, NEW m \in Message, Settled(m),
           \A c \in Callers : Enqueues(c) => message[c].id # m.id \/ m.level = "ERROR"
    PROVE  Settled(m)'
<1>. USE DEF TInv
<1>0. thread_count' = thread_count
  BY StepThreads
<1>1. CASE UNCHANGED pool
  BY <1>0, <1>1 DEF Settled, BackedUp, pool, Queue!Elements
<1>2. ASSUME NEW c \in Callers, Enqueues(c) PROVE Settled(m)'
  <2>1. /\ ~stop /\ done' = done /\ message[c].id \in Id
        /\ accepted' = Append(accepted, message[c].id)
    BY <1>2 DEF Enqueues, Queue!Accept, Holds, Holding, Message
  <2>2. Queue!Elements(accepted)' = Queue!Elements(accepted) \cup {message[c].id}
    BY <2>1, AppendFacts, TypeParts DEF PoolTyped, Queue!Elements
  <2>. QED
    BY <1>0, <1>2, <2>1, <2>2 DEF Settled, BackedUp
<1>3. CASE BackupStarts
  BY <1>0, <1>3 DEF BackupStarts, Queue!Start, Settled, BackedUp, Queue!Elements
<1>4. ASSUME NEW i \in Id, BackupEnds(i) PROVE Settled(m)'
  BY <1>0, <1>4 DEF BackupEnds, Queue!Finish, Settled, BackedUp, Queue!Elements
<1>5. CASE PoolEnds
  <2>1. accepted' = accepted /\ done' = done
    BY <1>5 DEF PoolEnds, Queue!Stop, Queue!Close
  <2>2. stop' = TRUE \/ stop' = stop
    BY <1>5 DEF PoolEnds, Queue!Stop, Queue!Close
  <2>3. Queue!Elements(accepted)' = Queue!Elements(accepted)
    BY <2>1 DEF Queue!Elements
  <2>4. CASE m.level = "ERROR"
    <3>1. BackedUp(m.id)
      BY <2>4 DEF Settled
    <3>2. BackedUp(m.id)'
      BY <3>1, <1>0, <2>1, <2>2, <2>3, Zenon DEF BackedUp
    <3>. QED
      BY <2>4, <3>2 DEF Settled
  <2>5. CASE m.level # "ERROR"
    BY <2>3, <2>5 DEF Settled
  <2>. QED
    BY <2>4, <2>5
<1>. QED
  BY <1>1, <1>2, <1>3, <1>4, <1>5, PoolSteps

\* What a step makes of the tasks: at most the message of one thread is added.
LEMMA AcceptedGrows ==
    ASSUME TInv, [Next]_vars
    PROVE  \/ Queue!Elements(accepted)' = Queue!Elements(accepted)
           \/ \E c \in Callers :
                /\ Enqueues(c) /\ message[c].id = <<c, calls[c]>>
                /\ Queue!Elements(accepted)' = Queue!Elements(accepted) \cup {<<c, calls[c]>>}
<1>. USE DEF TInv
<1>1. ASSUME NEW c \in Callers, Enqueues(c)
      PROVE  /\ message[c].id = <<c, calls[c]>>
             /\ Queue!Elements(accepted)' = Queue!Elements(accepted) \cup {<<c, calls[c]>>}
  <2>1. /\ message[c].id \in Id /\ message[c].id = <<c, calls[c]>>
        /\ accepted' = Append(accepted, message[c].id)
    BY <1>1 DEF Enqueues, Queue!Accept, Holds, Holding, Message
  <2>. QED
    BY <2>1, AppendFacts, TypeParts DEF PoolTyped, Queue!Elements
<1>2. CASE accepted' = accepted
  BY <1>2 DEF Queue!Elements
<1>3. BackupStarts \/ PoolEnds \/ (\E i \in Id : BackupEnds(i)) => accepted' = accepted
  BY DEF BackupStarts, Queue!Start, PoolEnds, Queue!Stop, Queue!Close, BackupEnds,
         Queue!Finish
<1>. QED
  BY <1>1, <1>2, <1>3, PoolSteps DEF pool

\* The steps that touch a thread.
LEMMA ThreadSteps ==
    ASSUME [Next]_vars
    PROVE  \/ UNCHANGED <<caller, message, calls, channel>>
           \/ \E c \in Callers : LoggerExist(c) \/ AddLogger(c) \/ GetLogger(c)
           \/ \E c \in Callers, level \in {"INFO", "ERROR"}, len \in Lens :
                 Logs(c, level, len)
           \/ \E c \in Callers : Serialize(c)
<1>1. ASSUME NEW i \in Id, Backup(i) \/ Serve(i)
      PROVE  UNCHANGED <<caller, message, calls, channel>>
  BY <1>1 DEF Backup, Connects, ConnectFails, Sends, BackupEnds, Serve, Accepts, Reads,
              ReadsNothing, ReadOverflows, Appends, AppendFails, threads
<1>2. CASE BackupStarts \/ PoolEnds \/ ServerCrash \/ ServerStarts \/ UNCHANGED vars
  BY <1>2 DEF BackupStarts, PoolEnds, ServerCrash, ServerStarts, vars, threads
<1>. QED
  BY <1>1, <1>2 DEF Next

\* A thread counts its calls upwards, and what is over stays over.
LEMMA CallsGrow ==
    ASSUME TInv, [Next]_vars, NEW i \in Id
    PROVE  /\ calls'[i[1]] \in Nat /\ calls[i[1]] \in Nat /\ i[2] \in Nat
           /\ calls[i[1]] <= calls'[i[1]]
           /\ Ended(i) => Ended(i)'
<1>. USE TypeParts DEF TInv, ThreadsTyped, Goto
<1>0. i[1] \in Callers /\ i[2] \in Nat /\ calls[i[1]] \in Nat
  BY IdFacts DEF Id
<1>1. CASE UNCHANGED <<caller, message, calls, channel>>
  BY <1>0, <1>1 DEF Ended
<1>2. ASSUME NEW c \in Callers, LoggerExist(c) \/ AddLogger(c) \/ GetLogger(c)
      PROVE  calls' = calls /\ (Ended(i) => Ended(i)')
  BY <1>0, <1>2 DEF LoggerExist, AddLogger, GetLogger, Ended, Holding
<1>3. ASSUME NEW c \in Callers, NEW level \in {"INFO", "ERROR"}, NEW len \in Lens,
             Logs(c, level, len)
      PROVE  /\ calls'[i[1]] \in Nat /\ calls[i[1]] <= calls'[i[1]]
             /\ Ended(i) => Ended(i)'
  BY <1>0, <1>3, IdFacts DEF Logs, Ended
<1>4. ASSUME NEW c \in Callers, Serialize(c)
      PROVE  calls' = calls /\ (Ended(i) => Ended(i)')
  BY <1>0, <1>4 DEF Serialize, Enqueues, EnqueueThrows, GetReturns, PushWaits, PushWakes,
                    Pushes, Ended, Holding
<1>. QED
  BY <1>0, <1>1, <1>2, <1>3, <1>4, ThreadSteps

\* A thread that takes no step stays where it is, whatever the others do.
LEMMA WellPlacedStays ==
    ASSUME TInv, [Next]_vars, NEW d \in Callers, WellPlaced(d),
           caller'[d] = caller[d], message'[d] = message[d]
    PROVE  WellPlaced(d)'
<1>. USE DEF TInv
<1>1. ASSUME NEW c \in Callers, Enqueues(c) PROVE c # d
  BY <1>1, TypeParts DEF Enqueues, Goto, ThreadsTyped
<1>2. CASE caller[d] \in {"enqueue", "wait"}
  <2>1. message[d].id = <<d, calls[d]>>
    BY <1>2 DEF Holds, Holding
  <2>. QED
    BY <1>1, <1>2, <2>1, AcceptedGrows DEF WellPlaced
<1>3. CASE caller[d] \in {"push", "waiting"}
  <2>1. message[d] \in Message /\ message[d].id = <<d, calls[d]>>
    BY <1>3 DEF Holds, Holding
  <2>2. ASSUME NEW c \in Callers, Enqueues(c) PROVE message[c].id # message[d].id
    <3>1. caller[c] = "enqueue" /\ c # d
      BY <1>1, <2>2 DEF Enqueues
    <3>2. message[c].id = <<c, calls[c]>>
      BY <3>1 DEF Holds, Holding
    <3>. QED
      BY <2>1, <3>1, <3>2
  <2>3. Settled(message[d])
    BY <1>3 DEF WellPlaced
  <2>4. PICK m : m = message[d]
    OBVIOUS
  <2>5. m \in Message /\ Settled(m) /\ \A c \in Callers : Enqueues(c) => message[c].id # m.id
    BY <2>1, <2>2, <2>3, <2>4
  <2>6. Settled(m)'
    BY <2>5, SettledStays
  <2>7. message'[d] = m
    BY <2>4
  <2>8. Settled(message[d])'
    BY <2>6, <2>7 DEF Settled, BackedUp
  <2>. QED
    BY <1>3, <2>8 DEF WellPlaced
<1>. QED
  BY <1>2, <1>3 DEF WellPlaced

\* What a step makes of the channels.
LEMMA PushedGrows ==
    ASSUME TInv, [Next]_vars
    PROVE  \A m \in Pushed' : m \in Pushed \/ \E c \in Callers : Pushes(c) /\ m = message[c]
<1>. USE DEF TInv
<1>1. CASE UNCHANGED channel
  BY <1>1 DEF Pushed
<1>2. ASSUME NEW c \in Callers, Pushes(c), NEW m, m \in Pushed'
      PROVE  m \in Pushed \/ m = message[c]
  <2>1. channel' = [channel EXCEPT ![logger[c]] = Append(@, message[c])]
    BY <1>2 DEF Pushes
  <2>2. message[c] \in Message
    BY <1>2 DEF Pushes, Holds, Holding
  <2>3. PICK d \in Callers : m \in ToSet(channel'[d])
    BY <1>2 DEF Pushed
  <2>4. channel[d] \in Seq(Message)
    BY TypeParts DEF ThreadsTyped
  <2>5. CASE channel'[d] = channel[d]
    BY <2>3, <2>5 DEF Pushed
  <2>6. CASE channel'[d] = Append(channel[d], message[c])
    <3>1. ToSet(channel'[d]) = ToSet(channel[d]) \cup {message[c]}
      BY <2>2, <2>4, <2>6, AppendFacts DEF ToSet
    <3>. QED
      BY <2>3, <3>1 DEF Pushed
  <2>. QED
    BY <2>1, <2>5, <2>6, TypeParts DEF ThreadsTyped
<1>3. ASSUME NEW c \in Callers,
             LoggerExist(c) \/ AddLogger(c) \/ GetLogger(c) \/ Enqueues(c)
             \/ EnqueueThrows(c) \/ GetReturns(c) \/ PushWaits(c)
             \/ PushWakes(c)
      PROVE  UNCHANGED channel
  BY <1>3 DEF LoggerExist, AddLogger, GetLogger, Enqueues, EnqueueThrows, GetReturns,
              PushWaits, PushWakes
<1>4. ASSUME NEW c \in Callers, NEW level \in {"INFO", "ERROR"}, NEW len \in Lens,
             Logs(c, level, len)
      PROVE  UNCHANGED channel
  BY <1>4 DEF Logs
<1>. QED
  BY <1>1, <1>2, <1>3, <1>4, ThreadSteps DEF Serialize

LEMMA StepBackups == ASSUME TInv, Backups, TInv', [Next]_vars PROVE Backups'
<1>. USE DEF TInv
<1>1. \A i \in Queue!Elements(accepted)' : i[2] <= calls'[i[1]]
  <2>1. Queue!Elements(accepted) \subseteq Id
    BY SeqFacts DEF Queue!Elements
  <2>2. ASSUME NEW c \in Callers, Enqueues(c) PROVE calls' = calls /\ calls[c] \in Nat
    BY <2>2, IdFacts DEF Enqueues
  <2>3. \A i \in Queue!Elements(accepted) : i[2] <= calls'[i[1]]
    BY <2>1, CallsGrow DEF Backups
  <2>. QED
    BY <2>2, <2>3, AcceptedGrows
<1>2. ASSUME NEW c \in Callers, NEW level \in {"INFO", "ERROR"}, NEW len \in Lens,
             Logs(c, level, len)
      PROVE  WellPlaced(c)'
  <2>1. /\ message'[c] = [id |-> <<c, calls[c] + 1>>, level |-> level, len |-> len]
        /\ caller'[c] = IF level = "ERROR" THEN "enqueue" ELSE "push"
        /\ calls[c] \in Nat /\ UNCHANGED accepted
    BY <1>2, IdFacts, TypeParts DEF Logs, Goto, NeedsBackup, ThreadsTyped, pool
  <2>2. Queue!Elements(accepted)' = Queue!Elements(accepted)
    BY <2>1 DEF Queue!Elements
  <2>3. <<c, calls[c] + 1>> \notin Queue!Elements(accepted)
    BY <2>1 DEF Backups
  <2>. QED
    BY <2>1, <2>2, <2>3 DEF WellPlaced, Settled
<1>3. ASSUME NEW c \in Callers, Serialize(c) PROVE WellPlaced(c)'
  <2>1. CASE Enqueues(c) \/ Pushes(c)
    BY <2>1, TypeParts
       DEF Enqueues, Pushes, Goto, ThreadsTyped, WellPlaced, Backups
  <2>2. CASE EnqueueThrows(c)
    <3>1. /\ caller[c] = "enqueue" /\ message[c].level = "ERROR"
          /\ message[c].id \notin Queue!Elements(accepted)
      BY <2>2 DEF EnqueueThrows, Backups, WellPlaced
    <3>2. thread_count # 0 /\ stop
      BY <2>2, Zenon DEF EnqueueThrows, NoThreads
    <3>3. Settled(message[c])
      BY <3>1, <3>2 DEF Settled, BackedUp
    <3>4. caller'[c] = "push" /\ message' = message /\ UNCHANGED <<settings, pool>>
      BY <2>2, TypeParts DEF EnqueueThrows, Goto, ThreadsTyped
    <3>. QED
      BY <3>3, <3>4 DEF WellPlaced, Settled, BackedUp, pool, settings, Queue!Elements
  <2>3. CASE GetReturns(c)
    <3>1. /\ message[c].level = "ERROR" /\ message[c].id \in done
      BY <2>3 DEF GetReturns, Backups, WellPlaced
    <3>2. thread_count # 0
      BY <3>1 DEF Queued, NoThreads, Queue!Elements
    <3>3. Settled(message[c])
      BY <3>1, <3>2 DEF Settled, BackedUp
    <3>4. caller'[c] = "push" /\ message' = message /\ UNCHANGED <<settings, pool>>
      BY <2>3, TypeParts DEF GetReturns, Goto, ThreadsTyped
    <3>. QED
      BY <3>3, <3>4 DEF WellPlaced, Settled, BackedUp, pool, settings, Queue!Elements
  <2>4. CASE PushWaits(c) \/ PushWakes(c)
    <3>1. caller[c] \in {"push", "waiting"} /\ caller'[c] \in {"push", "waiting"}
      BY <2>4, TypeParts DEF PushWaits, PushWakes, Goto, ThreadsTyped
    <3>2. Settled(message[c])
      BY <3>1 DEF Backups, WellPlaced
    <3>3. message' = message /\ UNCHANGED <<settings, pool>>
      BY <2>4 DEF PushWaits, PushWakes
    <3>. QED
      BY <3>1, <3>2, <3>3
         DEF WellPlaced, Settled, BackedUp, pool, settings, Queue!Elements
  <2>. QED
    BY <1>3, <2>1, <2>2, <2>3, <2>4 DEF Serialize
<1>4. ASSUME NEW c \in Callers, LoggerExist(c) \/ AddLogger(c) \/ GetLogger(c)
      PROVE  WellPlaced(c)'
  BY <1>4, TypeParts DEF LoggerExist, AddLogger, GetLogger, Goto, ThreadsTyped, WellPlaced
<1>5. \A d \in Callers : WellPlaced(d)'
  <2>1. SUFFICES ASSUME NEW d \in Callers PROVE WellPlaced(d)'
    OBVIOUS
  <2>2. CASE caller'[d] = caller[d] /\ message'[d] = message[d]
    BY <2>2, WellPlacedStays DEF Backups
  <2>3. CASE caller'[d] # caller[d] \/ message'[d] # message[d]
    <3>1. ASSUME NEW c \in Callers, NEW level \in {"INFO", "ERROR"}, NEW len \in Lens,
                 Logs(c, level, len)
          PROVE  c = d
      BY <2>3, <3>1, TypeParts DEF Logs, Goto, ThreadsTyped
    <3>2. ASSUME NEW c \in Callers,
                 Serialize(c) \/ LoggerExist(c) \/ AddLogger(c) \/ GetLogger(c)
          PROVE  c = d
      BY <2>3, <3>2, TypeParts
         DEF Serialize, Enqueues, EnqueueThrows, GetReturns, PushWaits, PushWakes,
             Pushes, LoggerExist, AddLogger, GetLogger, Goto, ThreadsTyped
    <3>. QED
      BY <2>3, <3>1, <3>2, <1>2, <1>3, <1>4, ThreadSteps
  <2>. QED
    BY <2>2, <2>3
<1>6. ASSUME NEW m \in Pushed PROVE m \in Message /\ Ended(m.id)' /\ Settled(m)'
  <2>1. m \in Message /\ m.id \in Id /\ Ended(m.id) /\ Settled(m)
    BY DEF Backups, Message
  <2>2. ASSUME NEW c \in Callers, Enqueues(c) PROVE message[c].id # m.id
    <3>1. caller[c] = "enqueue" /\ calls[c] \in Nat
      BY <2>2, IdFacts DEF Enqueues
    <3>2. message[c].id = <<c, calls[c]>>
      BY <3>1 DEF Holds, Holding
    <3>. QED
      BY <2>1, <3>1, <3>2 DEF Ended, Holding
  <2>. QED
    BY <2>1, <2>2, CallsGrow, SettledStays
<1>7. ASSUME NEW c \in Callers, Pushes(c), NEW m, m = message[c]
      PROVE  m \in Message /\ Settled(m) /\ Ended(m.id)'
  <2>1. caller[c] = "push" /\ m \in Message /\ m.id = <<c, calls[c]>>
    BY <1>7 DEF Pushes, Holds, Holding
  <2>2. caller'[c] = "ready" /\ calls' = calls
    BY <1>7, TypeParts DEF Pushes, Goto, ThreadsTyped
  <2>. QED
    BY <1>7, <2>1, <2>2 DEF Backups, WellPlaced, Ended, Holding
<1>8. ASSUME NEW m, m \in Pushed' PROVE m \in Message /\ Ended(m.id)' /\ Settled(m)'
  <2>1. CASE m \in Pushed
    BY <1>6, <2>1
  <2>2. CASE m \notin Pushed
    <3>1. PICK c \in Callers : Pushes(c) /\ m = message[c]
      BY <1>8, <2>2, PushedGrows
    <3>2. m \in Message /\ Settled(m) /\ Ended(m.id)'
      BY <1>7, <3>1
    <3>3. UNCHANGED <<settings, pool>>
      BY <3>1 DEF Pushes
    <3>. QED
      BY <3>2, <3>3 DEF Settled, BackedUp, pool, settings, Queue!Elements
  <2>. QED
    BY <2>1, <2>2
<1>. QED
  BY <1>1, <1>5, <1>8 DEF Backups

-----------------------------------------------------------------------------
(* One line per message. *)

\* A line of the backup file belongs to a connection that was served to its end.
Written ==
    /\ \A n \in 1..Len(logfile) : conn[logfile[n].id].server = "closed"
    /\ BackedUpOnce

\* Nothing moves a connection that was served to its end.
LEMMA ClosedStays ==
    ASSUME TInv, [Next]_vars, NEW j \in Id, conn[j].server = "closed"
    PROVE  conn'[j].server = "closed" /\ conn'[j].len = conn[j].len
<1>. USE DEF TInv
<1>0. j \in Queue!Elements(started) /\ j \in Queue!Elements(accepted)
      /\ conn[j].client \notin {"none", "connecting", "open"}
  BY StartedFacts DEF Connected, Arrived
<1>1. ASSUME NEW c \in Callers, Enqueues(c)
      PROVE  conn'[j].server = "closed" /\ conn'[j].len = conn[j].len
  BY <1>0, <1>1, TypeParts DEF Enqueues, Queue!Accept
<1>2. CASE BackupStarts
  <2>. DEFINE t == accepted[Len(started) + 1]
  <2>1. /\ Len(started) < Len(accepted) /\ t \in Id
        /\ started' = Append(started, t)
    BY <1>2, SeqFacts DEF BackupStarts, Queue!Start
  <2>2. Last(started') = t
    BY <2>1, AppendFacts, TypeParts DEF PoolTyped
  <2>3. conn' = [conn EXCEPT ![t].client = "connecting"]
    BY <1>2, <2>2 DEF BackupStarts
  <2>4. t \notin Queue!Elements(started)
    BY <2>1, StartedFacts
  <2>. HIDE DEF t
  <2>. QED
    BY <1>0, <2>1, <2>3, <2>4, TypeParts
<1>3. ASSUME NEW i \in Id, Backup(i) \/ Serve(i)
      PROVE  conn'[j].server = "closed" /\ conn'[j].len = conn[j].len
  <2>1. CASE ReadOverflows(i) \/ AppendFails(i)
    <3>1. Died
      BY <2>1 DEF ReadOverflows, AppendFails
    <3>. QED
      BY <3>1, DiedFacts
  <2>2. CASE ConnectFails(i)
    <3>1. conn[i].client = "connecting"
      BY <2>2, Zenon DEF ConnectFails
    <3>. DEFINE cnt == conn[i].cnt - 1
                k == [conn[i] EXCEPT !.cnt = cnt,
                          !.client = IF cnt <= 0 THEN "failed" ELSE "connecting"]
    <3>2. conn' = [conn EXCEPT ![i] = k]
      BY <2>2, Zenon DEF ConnectFails
    <3>. HIDE DEF k
    <3>. QED
      BY <1>0, <3>1, <3>2, TypeParts
  <2>3. CASE Connects(i)
    BY <1>0, <2>3, TypeParts DEF Connects
  <2>4. CASE Sends(i)
    BY <1>0, <2>4, TypeParts DEF Sends, Connection
  <2>5. CASE BackupEnds(i)
    <3>1. conn' = [conn EXCEPT ![i] = [@ EXCEPT !.client = "closed", !.cnt = 5]]
      BY <2>5 DEF BackupEnds
    <3>. QED
      BY <3>1, ConnFacts, TypeParts DEF Connection
  <2>6. CASE Accepts(i) \/ Reads(i) \/ ReadsNothing(i) \/ Appends(i)
    BY <2>6, TypeParts DEF Accepts, Reads, ReadsNothing, Appends
  <2>. QED
    BY <1>3, <2>1, <2>2, <2>3, <2>4, <2>5, <2>6 DEF Backup, Serve
<1>4. CASE ServerCrash
  <2>1. Died
    BY <1>4 DEF ServerCrash
  <2>. QED
    BY <2>1, DiedFacts
<1>. QED
  BY <1>1, <1>2, <1>3, <1>4, ConnSteps

LEMMA StepWritten == ASSUME TInv, Written, [Next]_vars PROVE Written'
<1>. USE DEF TInv
<1>1. CASE UNCHANGED logfile
  BY <1>1, SeqFacts, ClosedStays DEF Written, BackedUpOnce
<1>2. ASSUME NEW i \in Id, Appends(i) PROVE Written'
  <2>. DEFINE line == [id |-> i, len |-> conn[i].r_ret]
  <2>1. /\ conn[i].server = "append" /\ logfile' = Append(logfile, line)
        /\ conn' = [conn EXCEPT ![i] = [@ EXCEPT !.server = "closed", !.r_ret = 0]]
    BY <1>2 DEF Appends
  <2>2. /\ conn'[i].server = "closed" /\ conn'[i].len = conn[i].len
        /\ conn[i].r_ret \in 1..ReadSize /\ conn[i].r_ret <= conn[i].len
    BY <2>1, ConnFacts, TypeParts DEF Connected, Connection
  <2>3. line \in Line
    BY <2>2 DEF Line
  <2>4. line.id = i /\ line.len = conn[i].r_ret
    OBVIOUS
  <2>. HIDE DEF line
  <2>5. \A n \in 1..Len(logfile) : logfile[n].id # i
    BY <2>1 DEF Written
  <2>6. /\ Len(logfile') = Len(logfile) + 1
        /\ \A n \in 1..Len(logfile') :
              \/ n \in 1..Len(logfile) /\ logfile'[n] = logfile[n]
              \/ n = Len(logfile) + 1 /\ logfile'[n] = line
    BY <2>1, <2>3, AppendFacts, ServerFacts
  <2>7. \A n \in 1..Len(logfile) :
            /\ conn'[logfile[n].id].server = "closed"
            /\ logfile[n].len <= conn'[logfile[n].id].len
    BY SeqFacts, ClosedStays DEF Written, BackedUpOnce
  <2>8. \A n \in 1..Len(logfile') :
            /\ conn'[logfile'[n].id].server = "closed"
            /\ logfile'[n].len <= conn'[logfile'[n].id].len
    BY <2>2, <2>4, <2>6, <2>7
  <2>9. \A m, n \in 1..Len(logfile') : logfile'[m].id = logfile'[n].id => m = n
    BY <2>4, <2>5, <2>6 DEF Written, BackedUpOnce
  <2>. QED
    BY <2>8, <2>9 DEF Written, BackedUpOnce
<1>3. ASSUME NEW c \in Callers, NEW level \in {"INFO", "ERROR"}, NEW len \in Lens,
             Logs(c, level, len)
      PROVE  UNCHANGED logfile
  BY <1>3 DEF Logs, server
<1>4. ASSUME NEW c \in Callers,
             LoggerExist(c) \/ AddLogger(c) \/ GetLogger(c) \/ Serialize(c)
      PROVE  UNCHANGED logfile
  BY <1>4 DEF LoggerExist, AddLogger, GetLogger, Serialize, Enqueues, EnqueueThrows,
              GetReturns, PushWaits, PushWakes, Pushes, server
<1>5. ASSUME NEW i \in Id, Backup(i) \/ Accepts(i) \/ Reads(i) \/ ReadsNothing(i)
                           \/ ReadOverflows(i)
                           \/ AppendFails(i)
      PROVE  UNCHANGED logfile
  BY <1>5 DEF Backup, Connects, ConnectFails, Sends, BackupEnds, Accepts, Reads,
              ReadsNothing, ReadOverflows, AppendFails, server
<1>6. CASE BackupStarts \/ PoolEnds \/ ServerCrash \/ ServerStarts \/ UNCHANGED vars
  BY <1>1, <1>6 DEF BackupStarts, PoolEnds, ServerCrash, ServerStarts, vars, server
<1>. QED
  BY <1>1, <1>2, <1>3, <1>4, <1>5, <1>6 DEF Next, Serve

LEMMA WrittenHolds == Spec => []Written
<1>1. Init => Written
  BY DEF Init, Written, BackedUpOnce
<1>2. TInv /\ Written /\ [Next]_vars => Written'
  BY StepWritten
<1>. QED
  BY <1>1, <1>2, Typed, PTL DEF Spec

\* A message has at most one line in the backup file, and never more than was
\* sent, whatever the server's crashes and the client's retries.
THEOREM BackedUpOnceHolds == Spec => []BackedUpOnce
<1>1. Written => BackedUpOnce
  BY DEF Written
<1>. QED
  BY <1>1, WrittenHolds, PTL

\* The backup of an ERROR message has ended before the message enters the
\* channel, or the pool refused it, and nothing else is backed up.
THEOREM BackedUpFirstHolds == Spec => []BackedUpFirst
<1>1. Init => Backups
  BY DEF Init, Queue!Init, Queue!Elements, Backups, WellPlaced, Pushed, ToSet
<1>2. TInv /\ Backups /\ TInv' /\ [Next]_vars => Backups'
  BY StepBackups
<1>3. TInv /\ Backups /\ Written => BackedUpFirst
  <2>. SUFFICES ASSUME TInv, Backups, Written PROVE BackedUpFirst
    OBVIOUS
  <2>. USE DEF TInv
  <2>1. ASSUME NEW m \in Message, InLogfile(m.id) PROVE m.id \in Queue!Elements(accepted)
    <3>1. m.id \in Id /\ conn[m.id].server = "closed"
      BY <2>1 DEF InLogfile, Written, Message
    <3>2. m.id \in Queue!Elements(started)
      BY <3>1 DEF Connected
    <3>. QED
      BY <3>2, StartedFacts
  <2>2. Queue!Elements(accepted) = ToSet(accepted)
    BY SeqFacts
  <2>. QED
    BY <2>1, <2>2 DEF Backups, Settled, BackedUp, BackedUpFirst
<1>. QED
  BY <1>1, <1>2, <1>3, Typed, WrittenHolds, PTL DEF Spec

===============================================================================
