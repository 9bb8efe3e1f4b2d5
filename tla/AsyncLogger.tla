----------------------------- MODULE AsyncLogger -----------------------------
(***************************************************************************)
(* The life of a log message: a thread adds a logger to the LoggerManager  *)
(* (log_codes/Manager.hpp), gets it by name and logs with it; serialize    *)
(* (AsyncLogger.hpp) has an ERROR or FATAL message backed up by a task of  *)
(* the thread pool before it is pushed to the logger's worker; the task is *)
(* start_backup (backlog/clientBackupLog.hpp), which sends it over TCP to  *)
(* the backup server (backlog/serverBackupLog.hpp, .cpp).                  *)
(*                                                                         *)
(* The pool is TaskQueue, which ThreadPool implements; a worker is the     *)
(* accepting side of LogChannel, which AsyncWorker implements: it gives    *)
(* nothing away and notifies no Push that waits for room, as that module   *)
(* shows of the code.                                                      *)
(***************************************************************************)
EXTENDS Integers, Sequences, SequencesExt

CONSTANTS
    Callers,        \* threads; each has built a logger of one and the same name
    ThreadCount,    \* thread_count as config.conf has it
    Lens,           \* lengths of messages
    ReadSize,       \* size of the server's buffer
    MaxCalls,       \* bound: messages of one thread
    MaxCrashes,     \* bound: times the server is killed
    MaxFaults       \* bound: failing system calls

VARIABLES
    thread_count,   \* threads of the pool: 0 when config.conf was not found
    async_type,     \* what the loggers were built with
    loggers_,       \* the logger in the manager's table, by who built it
    logger,         \* the logger each thread has got
    caller, message, calls,     \* of each thread: where it is, what it logs
    channel,        \* for each logger: what was pushed to its worker
    accepted, started, done,    \* the pool: tasks, each named for its message
    stop, closed,   \* the pool is being destroyed, has been
    conn,           \* for each task: its connection
    server_up, logfile,     \* the backup server: does it run; logfile.log
    crashes, faults         \* times the server died; system calls that failed

settings == <<thread_count, async_type>>
pool == <<accepted, started, done, stop, closed>>
manager == <<loggers_, logger>>
threads == <<manager, caller, message, calls, channel>>
server  == <<server_up, logfile, crashes, faults>>
vars == <<settings, threads, pool, conn, server>>

NoLogger == "none"

ASSUME CallersAssumption == NoLogger \notin Callers
ASSUME SizesAssumption ==
    /\ ThreadCount \in Nat
    /\ Lens \subseteq Nat \ {0} /\ ReadSize \in Nat \ {0}
    /\ MaxCalls \in Nat /\ MaxCrashes \in Nat /\ MaxFaults \in Nat

Id       == Callers \X (1..MaxCalls)
Message  == [id : Id, level : {"INFO", "ERROR"}, len : Lens]
NoMessage == [id |-> <<>>, level |-> "none", len |-> 0]

Line     == [id : Id, len : 1..ReadSize]

\* start_backup's end of a connection with what is left of its counter, and the
\* server's end of it.
Connection == [client : {"none", "connecting", "open", "sent", "failed", "closed"},
               cnt : 0..5,
               server : {"none", "backlog", "service", "append", "closed",
                         "unread", "reset"},
               len : Lens \cup {0}, r_ret : 0..ReadSize]
NoConnection == [client |-> "none", cnt |-> 5, server |-> "none", len |-> 0, r_ret |-> 0]

Queue == INSTANCE TaskQueue WITH Task <- Id, Width <- ThreadCount,
                                 stopping <- stop

\* JsonData reads config.conf, and takes 0 for every number when it cannot.
Init ==
    /\ thread_count \in {0, ThreadCount}
    /\ async_type \in {"ASYNC_SAFE", "ASYNC_UNSAFE"}
    /\ loggers_ = NoLogger
    /\ logger = [c \in Callers |-> NoLogger]
    /\ caller = [c \in Callers |-> "begin"]
    /\ message = [c \in Callers |-> NoMessage]
    /\ calls = [c \in Callers |-> 0]
    /\ channel = [c \in Callers |-> <<>>]
    /\ Queue!Init
    /\ conn = [i \in Id |-> NoConnection]
    /\ server_up = TRUE
    /\ logfile = <<>>
    /\ crashes = 0 /\ faults = 0

Fault   == faults < MaxFaults /\ faults' = faults + 1
NoFault == faults' = faults

Goto(c, label) == caller' = [caller EXCEPT ![c] = label]

-----------------------------------------------------------------------------
(* LoggerManager.  Each of its functions holds mtx_ from begin to end, but    *)
(* AddLogger takes it twice.                                                  *)

LoggerExist(c) ==
    /\ caller[c] = "begin"
    /\ Goto(c, IF loggers_ = NoLogger THEN "add" ELSE "find")
    /\ UNCHANGED <<settings, manager, message, calls, channel, pool, conn, server>>

\* Mutant of AddLogger: assigns instead of inserting.
ReplacesLogger(c) ==
    /\ caller[c] = "add"
    /\ loggers_' = c
    /\ Goto(c, "find")
    /\ UNCHANGED <<settings, logger, message, calls, channel, pool, conn, server>>

\* emplace leaves a logger that came in between where it is; the new one goes.
AddLogger(c) ==
    /\ caller[c] = "add"
    /\ loggers_' = IF loggers_ = NoLogger THEN c ELSE loggers_
    /\ Goto(c, "find")
    /\ UNCHANGED <<settings, logger, message, calls, channel, pool, conn, server>>

GetLogger(c) ==
    /\ caller[c] = "find"
    /\ logger' = [logger EXCEPT ![c] = loggers_]
    /\ Goto(c, "ready")
    /\ UNCHANGED <<settings, loggers_, message, calls, channel, pool, conn, server>>

-----------------------------------------------------------------------------
(* AsyncLogger::serialize *)

NeedsBackup(level) == level = "ERROR"

\* ERROR stands for FATAL too, and INFO for the levels below.
Logs(c, level, len) ==
    /\ caller[c] = "ready"
    /\ calls[c] < MaxCalls
    /\ calls' = [calls EXCEPT ![c] = @ + 1]
    /\ message' = [message EXCEPT ![c] =
                    [id |-> <<c, calls'[c]>>, level |-> level, len |-> len]]
    /\ Goto(c, IF NeedsBackup(level) THEN "enqueue" ELSE "push")
    /\ UNCHANGED <<settings, manager, channel, pool, conn, server>>

\* Mutant of Enqueues: goes on without the future.
EnqueuesOnly(c) ==
    /\ caller[c] = "enqueue"
    /\ Queue!Accept(message[c].id)
    /\ conn' = [conn EXCEPT ![message[c].id].len = message[c].len]
    /\ Goto(c, "push")
    /\ UNCHANGED <<settings, manager, message, calls, channel, server>>

Enqueues(c) ==
    /\ caller[c] = "enqueue"
    /\ Queue!Accept(message[c].id)
    /\ conn' = [conn EXCEPT ![message[c].id].len = message[c].len]
    /\ Goto(c, "wait")
    /\ UNCHANGED <<settings, manager, message, calls, channel, server>>

\* enqueue throws when the pool is being destroyed; the message goes on.
EnqueueThrows(c) ==
    /\ caller[c] = "enqueue"
    /\ stop
    /\ Goto(c, "push")
    /\ UNCHANGED <<settings, manager, message, calls, channel, pool, conn, server>>

GetReturns(c) ==
    /\ caller[c] = "wait"
    /\ message[c].id \in done
    /\ Goto(c, "push")
    /\ UNCHANGED <<settings, manager, message, calls, channel, pool, conn, server>>

\* Flush: in safe mode a message that does not fit waits for room.  Whether it fits
\* depends on all that was ever pushed to the worker, and on how its buffer has grown,
\* which is left open here.
PushWaits(c) ==
    /\ caller[c] = "push"
    /\ async_type = "ASYNC_SAFE"
    /\ Goto(c, "waiting")
    /\ UNCHANGED <<settings, manager, message, calls, channel, pool, conn, server>>

\* No worker notifies a Push that waits: it tests again if it wakes by itself.
PushWakes(c) ==
    /\ caller[c] = "waiting"
    /\ Goto(c, "push")
    /\ UNCHANGED <<settings, manager, message, calls, channel, pool, conn, server>>

\* Flush gives the message to the worker.
Pushes(c) ==
    /\ caller[c] = "push"
    /\ channel' = [channel EXCEPT ![logger[c]] = Append(@, message[c])]
    /\ message' = [message EXCEPT ![c] = NoMessage]
    /\ Goto(c, "ready")
    /\ UNCHANGED <<settings, manager, calls, pool, conn, server>>

-----------------------------------------------------------------------------
(* start_backup, run by a thread of the pool *)

BackupStarts ==
    /\ thread_count # 0 /\ Queue!Start
    /\ conn' = [conn EXCEPT ![Last(started')].client = "connecting"]
    /\ UNCHANGED <<settings, threads, server>>

\* The kernel of the server completes a connection before accept takes it.
Connects(i) ==
    /\ conn[i].client = "connecting"
    /\ server_up
    /\ conn' = [conn EXCEPT ![i] = [@ EXCEPT !.client = "open", !.server = "backlog"]]
    /\ UNCHANGED <<settings, threads, pool, server>>

\* Mutant of ConnectFails: tries as long as it takes.
TriesForEver(i) ==
    /\ conn[i].client = "connecting"
    /\ (~server_up /\ NoFault) \/ Fault
    /\ UNCHANGED <<settings, threads, pool, conn, server_up, logfile, crashes>>

\* Mutant of ConnectFails: gives up one try later.
FailsBelowZero(i) ==
    /\ conn[i].client = "connecting"
    /\ (~server_up /\ NoFault) \/ Fault
    /\ LET cnt == conn[i].cnt - 1
       IN  conn' = [conn EXCEPT ![i] = [@ EXCEPT
                        !.cnt = cnt, !.client = IF cnt < 0 THEN "failed" ELSE "connecting"]]
    /\ UNCHANGED <<settings, threads, pool, server_up, logfile, crashes>>

ConnectFails(i) ==
    /\ conn[i].client = "connecting"
    /\ (~server_up /\ NoFault) \/ Fault
    /\ LET cnt == conn[i].cnt - 1
       IN  conn' = [conn EXCEPT ![i] = [@ EXCEPT
                        !.cnt = cnt, !.client = IF cnt <= 0 THEN "failed" ELSE "connecting"]]
    /\ UNCHANGED <<settings, threads, pool, server_up, logfile, crashes>>

\* One write; when it fails nothing is sent, which is only logged.
Sends(i) ==
    /\ conn[i].client = "open"
    /\ \/ NoFault /\ conn' = [conn EXCEPT ![i].client = "sent"]
       \/ Fault /\ conn' = [conn EXCEPT ![i] = [@ EXCEPT !.client = "sent", !.len = 0]]
    /\ UNCHANGED <<settings, threads, pool, server_up, logfile, crashes>>

\* start_backup closes the socket and returns, which makes the future ready.
BackupEnds(i) ==
    /\ conn[i].client \in {"sent", "failed"}
    /\ conn' = [conn EXCEPT ![i] = [@ EXCEPT !.client = "closed", !.cnt = 5]]
    /\ Queue!Finish(i)
    /\ UNCHANGED <<settings, threads, server>>

\* The program that owns the pool destroys it.
PoolEnds ==
    /\ thread_count # 0
    /\ Queue!Stop \/ Queue!Close
    /\ UNCHANGED <<settings, threads, conn, server>>

Backup(i) == Connects(i) \/ ConnectFails(i) \/ Sends(i) \/ BackupEnds(i)

-----------------------------------------------------------------------------
(* TcpServer *)

\* start_service accepts and starts a thread.
Accepts(i) ==
    /\ conn[i].server = "backlog"
    /\ conn' = [conn EXCEPT ![i].server = "service"]
    /\ UNCHANGED <<settings, threads, pool, server>>

\* Mutant of Arrived: what a client sent is gone when it closes.
ArrivedWhileOpen(i) == conn[i].client = "sent"

Arrived(i) == conn[i].client \in {"sent", "closed"}

\* service reads once: what has arrived by then, up to the size of the buffer.
Reads(i) ==
    /\ conn[i].server = "service" /\ Arrived(i)
    /\ \E n \in 1..ReadSize :
         /\ n <= conn[i].len
         /\ conn' = [conn EXCEPT ![i] = [@ EXCEPT !.r_ret = n, !.server = "append"]]
    /\ UNCHANGED <<settings, threads, pool, server>>

\* The client has closed and sent nothing, or the read fails, which is only logged.
ReadsNothing(i) ==
    /\ conn[i].server = "service"
    /\ (conn[i].client = "closed" /\ conn[i].len = 0 /\ NoFault) \/ Fault
    /\ conn' = [conn EXCEPT ![i].server = "unread"]
    /\ UNCHANGED <<settings, threads, pool, server_up, logfile, crashes>>

Died == /\ server_up' = FALSE
        /\ crashes' = crashes + 1
        /\ conn' = [i \in Id |-> IF conn[i].server \in {"backlog", "service", "append"}
                                 THEN [conn[i] EXCEPT !.server = "reset", !.r_ret = 0]
                                 ELSE conn[i]]

\* The byte behind a full buffer is overwritten, which may end the server.
ReadOverflows(i) ==
    /\ conn[i].server = "append" /\ conn[i].r_ret = ReadSize
    /\ Died
    /\ UNCHANGED <<settings, threads, pool, logfile, faults>>

\* Mutant of Appends: the connection is served once more.
AppendsAndReads(i) ==
    /\ conn[i].server = "append"
    /\ logfile' = Append(logfile, [id |-> i, len |-> conn[i].r_ret])
    /\ conn' = [conn EXCEPT ![i].server = "service"]
    /\ Len(logfile) < 8
    /\ UNCHANGED <<settings, threads, pool, server_up, crashes, faults>>

\* backup_log opens the file for appending, writes once and closes it.
Appends(i) ==
    /\ conn[i].server = "append"
    /\ logfile' = Append(logfile, [id |-> i, len |-> conn[i].r_ret])
    /\ conn' = [conn EXCEPT ![i] = [@ EXCEPT !.server = "closed", !.r_ret = 0]]
    /\ UNCHANGED <<settings, threads, pool, server_up, crashes, faults>>

\* When the file cannot be opened or written an assertion ends the server.
AppendFails(i) ==
    /\ conn[i].server = "append"
    /\ Fault
    /\ Died
    /\ UNCHANGED <<settings, threads, pool, logfile>>

Serve(i) == \/ Accepts(i) \/ Reads(i) \/ ReadsNothing(i) \/ ReadOverflows(i)
            \/ Appends(i) \/ AppendFails(i)

ServerCrash ==
    /\ server_up /\ crashes < MaxCrashes
    /\ Died
    /\ UNCHANGED <<settings, threads, pool, logfile, faults>>

\* When bind fails the server goes on without its port and nobody reaches it.
ServerStarts ==
    /\ ~server_up
    /\ (NoFault /\ server_up' = TRUE) \/ (Fault /\ server_up' = FALSE)
    /\ UNCHANGED <<settings, threads, pool, conn, logfile, crashes>>

-----------------------------------------------------------------------------
Serialize(c) == \/ Enqueues(c) \/ EnqueueThrows(c) \/ GetReturns(c)
                \/ PushWaits(c) \/ PushWakes(c) \/ Pushes(c)

Next ==
    \/ \E c \in Callers : \/ LoggerExist(c) \/ AddLogger(c) \/ GetLogger(c)
                          \/ \E level \in {"INFO", "ERROR"}, len \in Lens :
                               Logs(c, level, len)
                          \/ Serialize(c)
    \/ BackupStarts \/ PoolEnds
    \/ \E i \in Id : Backup(i) \/ Serve(i)
    \/ ServerCrash \/ ServerStarts

Spec == Init /\ [][Next]_vars

\* Threads that can go on do, without waiting for a call to fail; nobody has to
\* log or wakes by itself, and the server need not be started again.
FairSpec ==
    /\ Spec
    /\ \A c \in Callers : WF_vars(Serialize(c) /\ caller[c] # "waiting")
    /\ WF_vars(BackupStarts)
    /\ \A i \in Id : WF_vars(Backup(i) /\ NoFault) /\ WF_vars(Serve(i) /\ NoFault)

-----------------------------------------------------------------------------
(* Properties *)

\* Every variable keeps its type.
TypeOK ==
    /\ thread_count \in {0, ThreadCount}
    /\ async_type \in {"ASYNC_SAFE", "ASYNC_UNSAFE"}
    /\ loggers_ \in Callers \cup {NoLogger}
    /\ logger \in [Callers -> Callers \cup {NoLogger}]
    /\ caller \in [Callers -> {"begin", "add", "find", "ready", "enqueue", "wait", "push",
                               "waiting"}]
    /\ message \in [Callers -> Message \cup {NoMessage}]
    /\ calls \in [Callers -> 0..MaxCalls]
    /\ channel \in [Callers -> Seq(Message)]
    /\ accepted \in Seq(Id) /\ started \in Seq(Id) /\ done \subseteq Id
    /\ conn \in [Id -> Connection]
    /\ server_up \in BOOLEAN
    /\ logfile \in Seq(Line)
    /\ crashes \in Nat /\ faults \in 0..MaxFaults

\* All threads that log under one name log to one and the same logger, although
\* AddLogger looks and inserts in two critical sections: a logger that was
\* handed out is never replaced, and one that came second gets no message.
OneLoggerPerName ==
    /\ \A c \in Callers : logger[c] \in {NoLogger, loggers_}
    /\ \A c \in Callers \ {loggers_} : channel[c] = <<>>

Pushed == UNION {ToSet(channel[c]) : c \in Callers}
InLogfile(i) == \E n \in 1..Len(logfile) : logfile[n].id = i

\* The backup of an ERROR message has ended, well or not, before the message
\* enters the channel, or the pool refused it because it is being destroyed;
\* with a pool of no threads it never enters.  Nothing else is backed up.
BackedUpFirst ==
    \A m \in Pushed :
        IF m.level = "ERROR"
        THEN thread_count # 0 /\ (m.id \in done \/ (stop /\ m.id \notin ToSet(accepted)))
        ELSE ~InLogfile(m.id) /\ m.id \notin ToSet(accepted)

\* A message has at most one line in the backup file, whatever the server's
\* crashes and the client's retries, and never more than was sent.
BackedUpOnce ==
    /\ \A m, n \in 1..Len(logfile) : logfile[m].id = logfile[n].id => m = n
    /\ \A n \in 1..Len(logfile) : logfile[n].len <= conn[logfile[n].id].len

\* A thread that logs an ERROR gets its future if the pool has a thread, wherever
\* the server dies and whether it ever comes back.  Its call then returns, or, for a
\* logger in safe mode and for no other, waits for room in the worker's buffer.
CallsReturn ==
    \A c \in Callers :
        caller[c] = "enqueue" /\ thread_count # 0
        ~> caller[c] = "ready" \/ (caller[c] = "waiting" /\ async_type = "ASYNC_SAFE")

\* As long as no system call fails and the server lives, whatever was logged as
\* an ERROR reaches the backup file.
BackupArrives ==
    \A i \in Id : i \in done ~> InLogfile(i) \/ crashes + faults > 0

=============================================================================
