------------------------------ MODULE SyncClient ------------------------------
(***************************************************************************)
(* The client that keeps the server's files in step with two directories   *)
(* (src/client/Storage.hpp, DataManage.hpp, Util.hpp): one loop that scans  *)
(* the directories, decides for each file whether to upload it, uploads it  *)
(* and records its identifier in a table kept in storage.dat.              *)
(*                                                                         *)
(* The user edits and deletes files at any time, the server takes, refuses *)
(* or loses an upload, the client is killed and started again between any  *)
(* two steps.  The client knows a version of a file by its size and the    *)
(* second of its last modification; each edit stamps the current second.   *)
(*                                                                         *)
(* The client sends the plain name of the file, the server decodes it from *)
(* base64 (Service.hpp:149) before it makes a path of it.  A name with a   *)
(* '.' or any other character that base64 does not use ends the server,    *)
(* and different names may lead to one path.                               *)
(***************************************************************************)
EXTENDS Integers, FiniteSets

CONSTANTS
    Low, Deep,      \* the files of the two directories
    NoFile,         \* not a file
    Places,         \* the paths at which the server stores files
    Undecodable,    \* what the server makes of a name that is not base64
    Unwritable,     \* what it makes of a name that leads to no directory
    Namings,        \* how the files may be named: see place and word
    Contents,       \* what a file may hold; of one size, the hard case
    Empty,          \* the content of size 0
    Settle,         \* seconds a file must have been left alone: 5 in the code
    MaxClock,       \* bound: seconds that pass
    MaxEdits,       \* bound: edits and deletions
    MaxLost,        \* bound: uploads refused by a failing server, or not answered
    MaxFaults,      \* bound: writes of storage.dat that fail
    MaxCrashes      \* bound: times the client is killed

Files == Low \cup Deep

ASSUME SyncAssumption == /\ Low \cap Deep = {}
                         /\ NoFile \notin Files
                         /\ {Undecodable, Unwritable} \cap Places = {}
                         /\ Namings \subseteq
                              [place : [Files -> Places \cup {Undecodable, Unwritable}],
                               word  : [Files -> Files \cup {NoFile}]]
                         /\ Empty \notin Contents
                         /\ Settle \in Nat \ {0}

ASSUME BoundsAssumption ==
    /\ {MaxClock, MaxEdits, MaxLost, MaxFaults, MaxCrashes} \subseteq Nat
    /\ Settle <= MaxClock

VARIABLES
    clock,                  \* the second it is
    file,                   \* each file: content and time of last modification
    place,                  \* what the server makes of each file's name
    word,                   \* the file whose path is the first word of this one's:
                            \* the file itself, if its path has no space
    server, up,             \* what the server holds at each place; whether it runs
    table_, disk,           \* DataManager's table, a version per file; storage.dat
    torn,                   \* storage.dat ends in a line without its space
    if_upload_success,      \* the global flag
    pc,                     \* where the client is
    arry,                   \* the files the scan found and the loop has yet to see
    current, body,          \* the file of this iteration; the version it has read
    edits, lost, faults, crashes,   \* counters of the bounds
    answered,               \* history: this upload was answered 200
    doubtful,               \* history: files whose last upload was disturbed, or
                            \* written over by another file's
    acked                   \* history: the version last answered 200, if recorded
                            \* and not changed since

user    == <<clock, file, edits>>
names   == <<place, word>>
remote  == <<names, server, up>>
store   == <<table_, disk, torn>>
iterate == <<arry, current, body>>
bounds  == <<lost, faults, crashes>>
history == <<answered, doubtful, acked>>
vars == <<user, remote, store, if_upload_success, pc, iterate, bounds, history>>

\* A file that is gone has no content; stat fails and gives -1 for its times.
Gone      == [content |-> Empty, mtime |-> -1]
NoVersion == [content |-> Empty, mtime |-> -2]

\* Mutant of Size: a signed size.
SignedSize(v) == IF v = Gone THEN -1 ELSE IF v.content = Empty THEN 0 ELSE 1

\* FileSize is size_t: the -1 of a failing stat is larger than any size.
Size(v) == IF v = Gone THEN 2 ELSE IF v.content = Empty THEN 0 ELSE 1

\* GetFileIdentifier: name, size, last modification.  The name is the file's
\* own in every comparison the code makes.
Identifier(v) == [size |-> Size(v), mtime |-> v.mtime]
None          == [size |-> 0, mtime |-> -2]

\* A word of a path, or what a pointer past a vector leads to, in the place of an
\* identifier.
Junk == [size |-> 0, mtime |-> -3]

Init ==
    /\ clock = Settle
    /\ file \in [Files -> {Gone} \cup [content : Contents, mtime : 0..clock]]
    /\ \E n \in Namings : place = n.place /\ word = n.word
    /\ server = [p \in Places |-> Empty] /\ up = TRUE
    /\ table_ = [f \in Files |-> None] /\ disk = table_ /\ torn = FALSE
    /\ if_upload_success = FALSE
    /\ pc = "scan_low"
    /\ arry = {} /\ current = NoFile /\ body = Gone
    /\ edits = 0 /\ lost = 0 /\ faults = 0 /\ crashes = 0
    /\ answered = FALSE /\ doubtful = {}
    /\ acked = [f \in Files |-> NoVersion]

-----------------------------------------------------------------------------
(* The loop: RunModule and IfNeedUpload *)

Existing(fs) == {f \in fs : file[f] # Gone}

ScanLow ==
    /\ pc = "scan_low"
    /\ arry' = Existing(Low)
    /\ pc' = "scan_deep"
    /\ UNCHANGED <<user, remote, store, if_upload_success, current, body, bounds,
                   history>>

\* Mutant of ScanDeep: the second directory's files replace the first's.
ScanDeepReplaces ==
    /\ pc = "scan_deep"
    /\ arry' = Existing(Deep)
    /\ pc' = "loop"
    /\ UNCHANGED <<user, remote, store, if_upload_success, current, body, bounds,
                   history>>

ScanDeep ==
    /\ pc = "scan_deep"
    /\ arry' = arry \cup Existing(Deep)
    /\ pc' = "loop"
    /\ UNCHANGED <<user, remote, store, if_upload_success, current, body, bounds,
                   history>>

\* The low files come first; within a directory the order is not specified.
Comes(f) == f \in arry /\ (f \in Deep => arry \cap Low = {})

\* Mutants of IfNeedUpload: the table is not consulted; files are not given
\* time to settle.
NeedsAlways(f)      == clock - file[f].mtime >= Settle
NeedsImmediately(f) == table_[f] # Identifier(file[f])

IfNeedUpload(f) == /\ table_[f] # Identifier(file[f])
                   /\ clock - file[f].mtime >= Settle

Skips(f) ==
    /\ pc = "loop" /\ Comes(f)
    /\ ~IfNeedUpload(f)
    /\ arry' = arry \ {f}
    /\ UNCHANGED <<user, remote, store, if_upload_success, pc, current, body,
                   bounds, history>>

Spaced == {f \in Files : word[f] # f}

\* What a restart can make of f's line in storage.dat: the lines are split at
\* spaces, and a path with a space is no key any more.
Survives(f) == IF f \in Spaced THEN None ELSE disk[f]

\* What is recorded of f, in the table and in storage.dat, is not the identifier
\* of f, and of an earlier second, so that no later edit gets it either.
Outdated(f) == \A id \in {table_[f], Survives(f)} :
                   id # Identifier(file[f]) /\ id.mtime < clock

\* The upload ends what was in doubt about f, unless a wrong record could still
\* be taken for the right one later.
Begins(f) ==
    /\ pc = "loop" /\ Comes(f)
    /\ IfNeedUpload(f)
    /\ arry' = arry \ {f}
    /\ current' = f
    /\ doubtful' = IF Outdated(f) THEN doubtful \ {f} ELSE doubtful
    /\ pc' = "upload"
    /\ UNCHANGED <<user, remote, store, if_upload_success, body, bounds, answered,
                   acked>>

\* The iteration is over; Sleep and scan again.
Sleeps ==
    /\ pc = "loop" /\ arry = {}
    /\ pc' = "scan_low"
    /\ UNCHANGED <<user, remote, store, if_upload_success, iterate, bounds, history>>

-----------------------------------------------------------------------------
(* Upload and upload_callback *)

\* GetContent: the version the body is read from; a file that is gone gives
\* an empty body.
GetContent(f) == file[f]

\* The request with its headers and its body.
Sends ==
    /\ pc = "upload"
    /\ body' = GetContent(current)
    /\ answered' = FALSE
    /\ pc' = "sent"
    /\ UNCHANGED <<user, remote, store, if_upload_success, arry, current, bounds,
                   doubtful, acked>>

\* The other files that the server stores at the place of the current one.
Sharing == {g \in Files \ {current} : place[g] = place[current]}

\* The server takes a body that is not empty and decodes the name: the body goes
\* where it leads, over what another file may have left there.
ServerTakes ==
    /\ pc = "sent" /\ up /\ body.content # Empty
    /\ place[current] \in Places
    /\ server' = [server EXCEPT ![place[current]] = body.content]
    /\ doubtful' = doubtful \cup Sharing
    /\ pc' = "taken"
    /\ UNCHANGED <<user, names, up, store, if_upload_success, iterate, bounds, answered,
                   acked>>

\* The decoder throws, nobody catches it and the server ends: the connection
\* breaks, and the callback has no request.
ServerEnds ==
    /\ pc = "sent" /\ up /\ body.content # Empty
    /\ place[current] = Undecodable
    /\ up' = FALSE
    /\ doubtful' = doubtful \cup {current}
    /\ pc' = "decide"
    /\ UNCHANGED <<user, names, server, store, if_upload_success, iterate, bounds,
                   answered, acked>>

\* The callback, with 200.
Succeeds ==
    /\ pc = "taken"
    /\ if_upload_success' = TRUE
    /\ answered' = TRUE
    /\ acked' = [acked EXCEPT ![current] = body]
    /\ pc' = "decide"
    /\ UNCHANGED <<user, remote, store, iterate, bounds, doubtful>>

\* Whatever the server does, it answers no 200: there is none, the body is empty,
\* or there is no directory to write to.
MustRefuse == ~up \/ body.content = Empty \/ place[current] = Unwritable

\* The callback with another code, which any upload may have when the server fails.
Refused ==
    /\ pc = "sent"
    /\ IF MustRefuse THEN lost' = lost
       ELSE lost < MaxLost /\ lost' = lost + 1
    /\ if_upload_success' = FALSE
    /\ pc' = "decide"
    /\ UNCHANGED <<user, remote, store, iterate, faults, crashes, history>>

\* It fails when it has opened the file, which empties it.
RefusedHalfway ==
    /\ pc = "sent" /\ ~MustRefuse /\ place[current] \in Places
    /\ lost < MaxLost /\ lost' = lost + 1
    /\ server' = [server EXCEPT ![place[current]] = Empty]
    /\ doubtful' = doubtful \cup Sharing \cup {current}
    /\ if_upload_success' = FALSE
    /\ pc' = "decide"
    /\ UNCHANGED <<user, names, up, store, iterate, faults, crashes, answered, acked>>

\* The connection breaks or times out: the callback has no request and returns
\* before it sets the flag.
NoResponse ==
    /\ pc \in {"sent", "taken"}
    /\ lost < MaxLost /\ lost' = lost + 1
    /\ doubtful' = doubtful \cup {current}
    /\ pc' = "decide"
    /\ UNCHANGED <<user, remote, store, if_upload_success, iterate, faults, crashes,
                   answered, acked>>

-----------------------------------------------------------------------------
(* DataManager::Insert and Storage *)

EndIteration == /\ pc' = "loop"
                /\ current' = NoFile /\ body' = Gone /\ arry' = arry
                /\ answered' = FALSE

Fails ==
    /\ pc = "decide" /\ ~if_upload_success
    /\ EndIteration
    /\ UNCHANGED <<user, remote, store, if_upload_success, bounds, doubtful, acked>>

\* The identifier is taken of the file as it is now.
Inserts ==
    /\ pc = "decide" /\ if_upload_success
    /\ table_' = [table_ EXCEPT ![current] = Identifier(file[current])]
    /\ pc' = "store"
    /\ UNCHANGED <<user, remote, disk, torn, if_upload_success, iterate, bounds, history>>

\* SetContent opens storage.dat, which empties it, and writes the whole table.
Empties ==
    /\ pc = "store"
    /\ disk' = [f \in Files |-> None] /\ torn' = FALSE
    /\ pc' = "write"
    /\ UNCHANGED <<user, remote, table_, if_upload_success, iterate, bounds, history>>

\* Mutant of Writes: only the new line is written.
WritesOneLine ==
    /\ pc = "write"
    /\ disk' = [disk EXCEPT ![current] = table_[current]]
    /\ EndIteration
    /\ UNCHANGED <<user, remote, table_, torn, if_upload_success, bounds, doubtful, acked>>

Writes ==
    /\ pc = "write"
    /\ disk' = table_
    /\ EndIteration
    /\ UNCHANGED <<user, remote, table_, torn, if_upload_success, bounds, doubtful, acked>>

\* The file cannot be opened; nobody looks at the result.
OpenFails ==
    /\ pc = "store"
    /\ faults < MaxFaults /\ faults' = faults + 1
    /\ EndIteration
    /\ UNCHANGED <<user, remote, store, if_upload_success, lost, crashes, doubtful, acked>>

\* The write ends before the last line, for want of room or because the client is
\* killed in the middle of it (a Crash that follows).  The line at which it ends
\* may lack its space; one cut later, in its identifier, is as good as missing,
\* since no version of the file has what is left.
WriteFails ==
    /\ pc = "write"
    /\ faults < MaxFaults /\ faults' = faults + 1
    /\ \E kept \in SUBSET Files :
          disk' = [f \in Files |-> IF f \in kept THEN table_[f] ELSE None]
    /\ torn' \in BOOLEAN
    /\ EndIteration
    /\ UNCHANGED <<user, remote, table_, if_upload_success, lost, crashes, doubtful,
                   acked>>

\* The files whose line may be replaced as it is loaded: the first word of a path
\* with a space is taken for a key and the next word for its value; so is what is
\* left of a torn line, with what lies past the end of the vector.  (The order
\* of the lines, which decides between two of one key, is not specified.)
Damaged == {f \in Files \ Spaced :
                torn \/ \E g \in Spaced : word[g] = f /\ disk[g] # None}

\* InitLoad: storage.dat is only read.
Loaded(bad) == [f \in Files |-> IF f \in bad THEN Junk ELSE Survives(f)]

\* The client is killed between two steps and started again; what it had sent the
\* server has taken before, or never takes.  Reading past the end of a vector may
\* end it at once.
Crash ==
    /\ crashes < MaxCrashes /\ crashes' = crashes + 1
    /\ \E bad \in SUBSET Damaged : table_' = Loaded(bad)
    /\ pc' \in {"scan_low"} \cup IF torn THEN {"ended"} ELSE {}
    /\ if_upload_success' = FALSE
    /\ arry' = {} /\ current' = NoFile /\ body' = Gone
    /\ answered' = FALSE
    /\ acked' = [f \in Files |-> IF table_'[f] = Identifier(acked[f])
                                 THEN acked[f] ELSE NoVersion]
    /\ UNCHANGED <<user, remote, disk, torn, lost, faults, doubtful>>

-----------------------------------------------------------------------------
(* The user and time *)

Uploading == pc \in {"upload", "sent", "taken", "decide"}

\* The user saves or removes a file.
Change(f, v) ==
    /\ edits < MaxEdits /\ edits' = edits + 1
    /\ file[f] # v
    /\ file' = [file EXCEPT ![f] = v]
    /\ doubtful' = IF Uploading /\ current = f THEN doubtful \cup {f} ELSE doubtful
    /\ acked' = [acked EXCEPT ![f] = NoVersion]
    /\ UNCHANGED <<clock, remote, store, if_upload_success, pc, iterate, bounds,
                   answered>>

Saves(f, c) == /\ clock + Settle <= MaxClock
               /\ Change(f, [content |-> c, mtime |-> clock])

Tick == /\ clock < MaxClock
        /\ clock' = clock + 1
        /\ UNCHANGED <<file, edits, remote, store, if_upload_success, pc, iterate,
                       bounds, history>>

Client == \/ ScanLow \/ ScanDeep \/ (\E f \in Files : Skips(f) \/ Begins(f)) \/ Sleeps
          \/ Sends \/ Fails \/ Inserts \/ Empties \/ Writes

Server == \/ ServerTakes \/ ServerEnds \/ Succeeds \/ Refused \/ RefusedHalfway
          \/ NoResponse

User == \E f \in Files : Change(f, Gone) \/ \E c \in Contents \cup {Empty} : Saves(f, c)

Next == Client \/ Server \/ OpenFails \/ WriteFails \/ Crash \/ User \/ Tick

Spec == Init /\ [][Next]_vars

\* The loop never blocks for good, an upload ends in one way or another (the
\* connection has a timeout), and time passes.
FairSpec == Spec /\ WF_vars(Client) /\ WF_vars(Server) /\ WF_vars(Tick)

-----------------------------------------------------------------------------
(* Properties *)

Version    == {Gone} \cup [content : Contents \cup {Empty}, mtime : 0..MaxClock]
Identifiers == [size : 0..2, mtime : -3..MaxClock]

\* Every variable keeps its type, and the client works on files it knows.
TypeOK ==
    /\ clock \in 0..MaxClock
    /\ file \in [Files -> Version]
    /\ [place |-> place, word |-> word] \in Namings
    /\ server \in [Places -> Contents \cup {Empty}] /\ up \in BOOLEAN
    /\ table_ \in [Files -> Identifiers] /\ disk \in [Files -> Identifiers]
    /\ torn \in BOOLEAN
    /\ if_upload_success \in BOOLEAN
    /\ pc \in {"scan_low", "scan_deep", "loop", "upload", "sent", "taken", "decide",
               "store", "write", "ended"}
    /\ arry \subseteq Files /\ current \in Files \cup {NoFile} /\ body \in Version
    /\ edits \in 0..MaxEdits /\ lost \in 0..MaxLost
    /\ faults \in 0..MaxFaults /\ crashes \in 0..MaxCrashes
    /\ answered \in BOOLEAN
    /\ doubtful \subseteq Files
    /\ acked \in [Files -> Version \cup {NoVersion}]

Holds(f) == place[f] \in Places /\ server[place[f]] = file[f].content

\* A file the client will skip has a name the server can decode, and the server
\* holds its content at the place the name leads to: when the table has the
\* identifier of the file as it is now, although two contents may have one size,
\* the time counts whole seconds and another name may lead to the same place.
\* Doubtful files are the exception: those that changed while they were uploaded,
\* whose upload was not answered, or whose place another upload took since.
MarkedIsStored ==
    \A f \in Existing(Files) \ doubtful :
        table_[f] = Identifier(file[f]) => Holds(f)

\* What the server has confirmed is not sent again until it changes; after a
\* restart neither, if storage.dat has its line and no other line spoils it.
ConfirmedIsNotSentAgain ==
    [][pc = "upload" /\ pc' = "sent" => file[current] # acked[current]]_vars

\* The files whose line in storage.dat means what it was written for: their path
\* has no space and is not the first word of one that has.
Plain == {f \in Files \ Spaced : \A g \in Spaced : word[g] # f}

\* A client killed at any point but while it rewrites storage.dat has the records
\* of all plain files again when it is back, unless a write has failed; spoiled
\* lines of other files, which it writes back, change nothing of that.
RestartForgetsNothing ==
    [][Crash /\ faults = 0 /\ pc \notin {"store", "write"} =>
          \A f \in Plain : table_'[f] = table_[f]]_vars

\* When the user stops, the server, unless a name has ended it or storage.dat the
\* client, comes to hold every file that is left and not empty, whatever was
\* refused, lost or forgotten before; doubtful files are the exception.
ServerCatchesUp ==
    <>[](up /\ pc # "ended" =>
            \A f \in Files \ doubtful :
                file[f].content # Empty /\ place[f] # Unwritable => Holds(f))

\* Storage.hpp:19: the flag says whether the upload succeeded; a file is recorded
\* as uploaded only after the server has answered 200.
RecordedWasAnswered == [][Inserts => answered]_vars

=============================================================================
