---------------------------- MODULE StorageService ----------------------------
(***************************************************************************)
(* The storage server: storage::Service (src/server/Service.hpp) with its  *)
(* storage::DataManager (DataManager.hpp) and the files they keep.         *)
(*                                                                         *)
(* One event loop thread runs the handlers one after another, each to its  *)
(* end.  The steps of a handler are separate here because the process can  *)
(* die between any two of them; the files survive, table_ does not.        *)
(*                                                                         *)
(* A file is known by its name: the URL under which it is listed is the    *)
(* download prefix and the name, whichever directory holds the file.       *)
(***************************************************************************)
EXTENDS Naturals, Sequences, FiniteSets

CONSTANTS
    Names,          \* file names
    Contents,       \* what a client can upload
    MaxRequests,    \* bound: requests handled
    MaxCrashes,     \* bound: times the process is killed
    MaxFaults,      \* bound: file operations that fail
    MaxClock        \* bound: seconds that pass

CONSTANT Size(_)    \* the stored size of a content

ASSUME BoundsAssumption ==
    {MaxRequests, MaxCrashes, MaxFaults, MaxClock} \subseteq Nat

ASSUME SizeAssumption == \A c \in Contents : Size(c) \in Nat

\* The names of the model's own values are not names of files or contents.
ASSUME NamesAssumption ==
    /\ {"none", "missing", "empty"} \cap Names = {}
    /\ {"none", "empty", "torn", "linked"} \cap Contents = {}

VARIABLES
    low, deep,      \* the two storage directories: name -> file
    disk,           \* what InitLoad would read from storage.data: nothing when the
                    \* file is missing or was emptied and not yet written
    table,          \* table_: URL -> StorageInfo
    up,             \* the process is running
    pc,             \* where the handler is; "idle" between requests
    req,            \* the request being handled
    replies,        \* what evhttp_send_reply was given for it, in order
    clock,
    requests, crashes, faults,  \* counters of the bounds
    acked,          \* history: the content of the last upload answered 200, until
                    \* a request begins to change the file again
    gone,           \* history: names whose deletion was answered 200
    etags,          \* history: the ETags sent, with what they were sent for
    wire            \* one download that the event loop is still sending

files    == <<low, deep, wire>>
bounds   == <<requests, crashes, faults>>
history  == <<acked, gone, etags>>
vars == <<files, disk, table, up, pc, req, replies, clock, bounds, history>>

NoFile == [content |-> "none"]
Torn   == "torn"        \* cut short: the file was opened for writing and not filled
File   == [content : Contents \cup {Torn}, atime : 0..MaxClock, mtime : 0..MaxClock]

NoInfo == [type |-> "none"]
Info   == [type : {"low", "deep"}, fsize : Nat, mtime_ : 0..MaxClock,
           atime_ : 0..MaxClock]
Table  == [Names -> Info \cup {NoInfo}]
EmptyTable == [n \in Names |-> NoInfo]

\* A request; a header that was not sent is "missing", and so is a file name that
\* base64_decode throws on.  The headers of an upload are not looked at when its
\* body is empty, and its type not when its name is missing.
Upload   == [op : {"upload"}, name : Names, body : Contents,
             type : {"low", "deep", "other", "missing"}]
            \cup [op : {"upload"}, name : {"missing"}, body : Contents \cup {"empty"},
                  type : {"other"}]
Delete   == [op : {"delete"}, name : Names \cup {"missing", "empty"}]
\* ifRange is an ETag an earlier download returned, <<>> without the header.
Download == [op : {"download"}, name : Names,
             ifRange : {e.etag : e \in etags} \cup {<<>>}]
\* The page of all files, and a path no handler is known for.
Plain    == [op : {"list", "other"}]
Request == Upload \cup Delete \cup Download \cup Plain
NoRequest == [op |-> "none"]

\* The directory a storage type names, as a function of the files.
Dir(type) == IF type = "low" THEN low ELSE deep

Known(n)   == table[n] # NoInfo
Stored(n)  == Dir(table[n].type)[n]

\* A file handed to evbuffer_add_file is read when its turn to be sent comes,
\* after the handler has returned, through a descriptor that goes on denoting
\* the file (inode) it was opened on: the one in the low directory until that
\* is removed ("linked"), then one nobody can change.  One download is followed
\* at a time; the others are sent in the same way.
Transfer == [name : Names, packed : BOOLEAN, promised : Contents \cup {Torn},
             inode : Contents \cup {Torn, "linked"}, overtaken : BOOLEAN]
NoTransfer == [name |-> "none"]

OnWire == IF wire.inode = "linked" THEN low[wire.name].content ELSE wire.inode

Unlinked(n) == IF wire.name = n THEN [wire EXCEPT !.inode = OnWire] ELSE wire

Reply(code) == [code |-> code, body |-> "none"]
Send(code)  == replies' = Append(replies, Reply(code))

Init ==
    /\ low = [n \in Names |-> NoFile]
    /\ deep = [n \in Names |-> NoFile]
    /\ disk = EmptyTable
    /\ table = EmptyTable
    /\ up = TRUE
    /\ pc = "idle"
    /\ req = NoRequest
    /\ replies = <<>>
    /\ clock = 0
    /\ requests = 0 /\ crashes = 0 /\ faults = 0
    /\ acked = [n \in Names |-> "none"]
    /\ gone = {}
    /\ etags = {}
    /\ wire = NoTransfer

\* A file operation fails, if the bound allows one more.
Fault == faults < MaxFaults /\ faults' = faults + 1
NoFault == faults' = faults

Goto(label) == pc' = label

-----------------------------------------------------------------------------
(* GenHandler *)

Receive(r) ==
    /\ up /\ pc = "idle"
    /\ requests < MaxRequests
    /\ requests' = requests + 1
    /\ req' = r
    /\ replies' = <<>>
    /\ Goto(r.op)
    /\ gone' = IF r.op = "upload" THEN gone \ {r.name} ELSE gone
    /\ wire' = IF r.op = "upload" /\ r.name = wire.name
                  THEN [wire EXCEPT !.overtaken = TRUE] ELSE wire
    /\ UNCHANGED <<low, deep, disk, table, up, clock, crashes, faults, acked, etags>>

\* Building a std::string from a header that was not sent throws, nobody
\* catches it and the process ends.  An empty body is refused before that.
HeaderMissing ==
    \/ pc = "upload" /\ req.body # "empty" /\ "missing" \in {req.name, req.type}
    \/ pc = "delete" /\ req.name = "missing"

Stops == /\ up' = FALSE
         /\ table' = EmptyTable
         /\ wire' = NoTransfer
         /\ Goto("idle")

HandlerThrows ==
    /\ up /\ HeaderMissing
    /\ Stops
    /\ UNCHANGED <<low, deep, disk, req, replies, clock, bounds, history>>

Finish(code) == /\ Send(code)
                /\ Goto("idle")

NotFound ==
    /\ up /\ pc = "other"
    /\ Finish("404")
    /\ UNCHANGED <<files, disk, table, up, req, clock, bounds, history>>

\* The page shows the table as GetAll copies it.
ListShow ==
    /\ up /\ pc = "list"
    /\ replies' = Append(replies, [code |-> "200", body |-> "page"])
    /\ Goto("idle")
    /\ UNCHANGED <<files, disk, table, up, req, clock, bounds, history>>

-----------------------------------------------------------------------------
(* Upload *)

UploadRefused ==
    /\ up /\ pc = "upload"
    /\ \/ req.body = "empty"
       \/ req.name # "missing" /\ req.type = "other"
    /\ Finish("400")
    /\ UNCHANGED <<files, disk, table, up, req, clock, bounds, history>>

\* SetContent opens the file for writing, which creates it or empties it.  A
\* file that exists keeps its access time.
OpenedForWriting(file) ==
    [content |-> Torn, mtime |-> clock,
     atime |-> IF file = NoFile THEN clock ELSE file.atime]

WriteTo(type, n, file) ==
    /\ IF type = "low" THEN low' = [low EXCEPT ![n] = file] /\ deep' = deep
                       ELSE deep' = [deep EXCEPT ![n] = file] /\ low' = low
    /\ wire' = IF type = "low" /\ file = NoFile THEN Unlinked(n) ELSE wire

\* Mutant of UploadOpens: any storage type other than "low" means deep.
UploadOpensAnyType ==
    /\ up /\ pc = "upload" /\ ~HeaderMissing
    /\ req.body # "empty"
    /\ WriteTo(req.type, req.name, OpenedForWriting(Dir(req.type)[req.name]))
    /\ acked' = [acked EXCEPT ![req.name] = "none"]
    /\ Goto("write") /\ NoFault
    /\ UNCHANGED <<disk, table, up, req, replies, clock, requests, crashes, gone, etags>>

UploadOpens ==
    /\ up /\ pc = "upload" /\ ~HeaderMissing
    /\ req.body # "empty" /\ req.type # "other"
    /\ WriteTo(req.type, req.name, OpenedForWriting(Dir(req.type)[req.name]))
    /\ acked' = [acked EXCEPT ![req.name] = "none"]
    /\ Goto("write") /\ NoFault
    /\ UNCHANGED <<disk, table, up, req, replies, clock, requests, crashes, gone, etags>>

\* Mutant of UploadCannotOpen: returns without a reply.
UploadFailsSilently ==
    /\ up /\ pc = "upload" /\ ~HeaderMissing
    /\ req.body # "empty" /\ req.type # "other"
    /\ Fault
    /\ Goto("idle")
    /\ UNCHANGED <<files, disk, table, up, req, replies, clock, requests, crashes,
                   history>>

\* The body cannot be copied out of the buffer, whatever the headers are, or the
\* file not be opened.
UploadCannotOpen ==
    /\ up /\ pc = "upload"
    /\ req.body # "empty"
    /\ Fault
    /\ Finish("500")
    /\ UNCHANGED <<files, disk, table, up, req, clock, requests, crashes, history>>

\* A write that fails is logged; SetContent still returns true.
UploadWrites ==
    /\ up /\ pc = "write"
    /\ LET file == Dir(req.type)[req.name] IN
       \/ NoFault /\ WriteTo(req.type, req.name, [file EXCEPT !.content = req.body,
                                                              !.mtime = clock])
       \/ Fault /\ UNCHANGED files
    /\ Goto("insert")
    /\ UNCHANGED <<disk, table, up, req, replies, clock, requests, crashes, history>>

FileSize(file) == IF file.content = Torn THEN 0 ELSE Size(file.content)

\* NewStorageInfo: mtime_ gets the access time and atime_ the modification time.
NewStorageInfo(type, file) ==
    [type |-> type, fsize |-> FileSize(file),
     mtime_ |-> file.atime, atime_ |-> file.mtime]

UploadInserts ==
    /\ up /\ pc = "insert"
    /\ table' = [table EXCEPT ![req.name] =
                    NewStorageInfo(req.type, Dir(req.type)[req.name])]
    /\ Goto("persist")
    /\ UNCHANGED <<files, disk, up, req, replies, clock, bounds, history>>

-----------------------------------------------------------------------------
(* DataManager::Storage, called by Insert and by Delete *)

\* SetContent on storage.data: its failure is logged and Storage returns true.
PersistOpens ==
    /\ up /\ pc = "persist"
    /\ \/ NoFault /\ disk' = EmptyTable /\ Goto("persist_write")
       \/ Fault /\ disk' = disk /\ Goto("answer")
    /\ UNCHANGED <<files, table, up, req, replies, clock, requests, crashes, history>>

\* Mutant of PersistWrites: only the record that changed is written.
PersistsOneRecord ==
    /\ up /\ pc = "persist_write"
    /\ NoFault
    /\ disk' = [disk EXCEPT ![req.name] = table[req.name]]
    /\ Goto("answer")
    /\ UNCHANGED <<files, table, up, req, replies, clock, requests, crashes, history>>

PersistWrites ==
    /\ up /\ pc = "persist_write"
    /\ \/ NoFault /\ disk' = table
       \/ Fault /\ disk' = disk
    /\ Goto("answer")
    /\ UNCHANGED <<files, table, up, req, replies, clock, requests, crashes, history>>

\* The end of Upload and of Delete.
Answer ==
    /\ up /\ pc = "answer"
    /\ Finish("200")
    /\ acked' = [acked EXCEPT ![req.name] =
                    IF req.op = "upload" THEN req.body ELSE "none"]
    /\ gone' = IF req.op = "delete" THEN gone \cup {req.name} ELSE gone
    /\ UNCHANGED <<files, disk, table, up, req, clock, bounds, etags>>

-----------------------------------------------------------------------------
(* Delete *)

DeleteRefused ==
    /\ up /\ pc = "delete"
    /\ req.name = "empty"
    /\ Finish("400")
    /\ UNCHANGED <<files, disk, table, up, req, clock, bounds, history>>

DeleteUnknown ==
    /\ up /\ pc = "delete" /\ req.name \in Names
    /\ ~Known(req.name)
    /\ Finish("404")
    /\ UNCHANGED <<files, disk, table, up, req, clock, bounds, history>>

DeleteRemoves ==
    /\ up /\ pc = "delete" /\ req.name \in Names
    /\ Known(req.name)
    /\ WriteTo(table[req.name].type, req.name, NoFile)
    /\ acked' = [acked EXCEPT ![req.name] = "none"]
    /\ Goto("erase") /\ NoFault
    /\ UNCHANGED <<disk, table, up, req, replies, clock, requests, crashes, gone, etags>>

\* Mutant of DeleteCannotRemove: the record is erased before the file.
DeleteErasesFirst ==
    /\ up /\ pc = "delete" /\ req.name \in Names
    /\ Known(req.name) /\ Stored(req.name) # NoFile
    /\ Fault
    /\ table' = [table EXCEPT ![req.name] = NoInfo]
    /\ Finish("500")
    /\ UNCHANGED <<files, disk, up, req, clock, requests, crashes, history>>

DeleteCannotRemove ==
    /\ up /\ pc = "delete" /\ req.name \in Names
    /\ Known(req.name) /\ Stored(req.name) # NoFile
    /\ Fault
    /\ Finish("500")
    /\ UNCHANGED <<files, disk, table, up, req, clock, requests, crashes, history>>

DeleteErases ==
    /\ up /\ pc = "erase"
    /\ table' = [table EXCEPT ![req.name] = NoInfo]
    /\ Goto("persist")
    /\ UNCHANGED <<files, disk, up, req, replies, clock, bounds, history>>

-----------------------------------------------------------------------------
(* Download *)

Packed(n) == Known(n) /\ table[n].type = "deep"

\* Mutant of DownloadUnpacks: a file of that name is taken for the copy.
UnpacksIfAbsent ==
    /\ up /\ pc = "download"
    /\ Packed(req.name) /\ deep[req.name] # NoFile
    /\ NoFault
    /\ IF low[req.name] # NoFile THEN low' = low /\ Goto("send")
       ELSE /\ low' = [low EXCEPT ![req.name] = OpenedForWriting(NoFile)]
            /\ Goto("unpack")
    /\ UNCHANGED <<deep, wire, disk, table, up, req, replies, clock, requests, crashes,
                   history>>

\* A deep file is unpacked into the low directory under its own name, whatever
\* that directory has there; whether it can be read and unpacked is not looked at.
DownloadUnpacks ==
    /\ up /\ pc = "download"
    /\ Packed(req.name) /\ deep[req.name] # NoFile
    /\ \/ /\ NoFault
          /\ low' = [low EXCEPT ![req.name] = OpenedForWriting(@)]
          /\ Goto("unpack")
       \/ Fault /\ low' = low /\ Goto("send")
    /\ UNCHANGED <<deep, wire, disk, table, up, req, replies, clock, requests, crashes,
                   history>>

\* UnCompress writes the copy, or fails to.
UnCompress ==
    /\ up /\ pc = "unpack"
    /\ \/ NoFault /\ low' = [low EXCEPT ![req.name].content = deep[req.name].content,
                                       ![req.name].mtime = clock]
       \/ Fault /\ low' = low
    /\ Goto("send")
    /\ UNCHANGED <<deep, wire, disk, table, up, req, replies, clock, requests, crashes,
                   history>>

DownloadFinds ==
    /\ up /\ pc = "download"
    /\ ~Packed(req.name) \/ deep[req.name] = NoFile
    /\ Goto("send")
    /\ UNCHANGED <<files, disk, table, up, req, replies, clock, bounds, history>>

ETag(n) == <<n, table[n].fsize, table[n].mtime_>>

\* For a name that is not in the table the path is the low directory itself,
\* which exists: it is opened and sent.  rmdir on it afterwards has no effect
\* that the next request does not undo.
SendUnknown ==
    /\ up /\ pc = "send" /\ ~Known(req.name)
    /\ replies' = Append(replies, [code |-> "200", body |-> "directory"])
    /\ Goto("idle")
    /\ UNCHANGED <<files, disk, table, up, req, clock, bounds, history>>

\* No file to send: 404, for a deep file after a 500 that did not return.
SendMissing ==
    /\ up /\ pc = "send" /\ Known(req.name)
    /\ low[req.name] = NoFile
    /\ replies' = replies \o (IF Packed(req.name) THEN <<Reply("500")>> ELSE <<>>)
                          \o <<Reply("404")>>
    /\ Goto("idle")
    /\ UNCHANGED <<files, disk, table, up, req, clock, bounds, history>>

SendCannotOpen ==
    /\ up /\ pc = "send" /\ Known(req.name)
    /\ low[req.name] # NoFile
    /\ Fault
    /\ Finish("500")
    /\ UNCHANGED <<files, disk, table, up, req, clock, requests, crashes, history>>

\* Mutant of SendFile: the file sent is always taken for a temporary copy.
SendFileCleansAlways ==
    /\ up /\ pc = "send" /\ Known(req.name)
    /\ low[req.name] # NoFile
    /\ replies' = Append(replies, [code |-> "200", body |-> low[req.name].content])
    /\ Goto("cleanup")
    /\ UNCHANGED <<files, disk, table, up, req, clock, bounds, history>>

\* Reading a file may move its access time (it depends on the mount).
SendFile ==
    /\ up /\ pc = "send" /\ Known(req.name)
    /\ low[req.name] # NoFile
    /\ replies' = Append(replies,
            [code |-> IF req.ifRange = ETag(req.name) THEN "206" ELSE "200",
             body |-> low[req.name].content])
    /\ \E t \in {low[req.name].atime, clock} :
         low' = [low EXCEPT ![req.name].atime = t]
    /\ etags' = etags \cup {[etag |-> ETag(req.name), modified |-> table[req.name].atime_]}
    /\ wire' \in {wire} \cup
         IF wire # NoTransfer THEN {}
         ELSE {[name |-> req.name, packed |-> Packed(req.name), inode |-> "linked",
                promised |-> low[req.name].content, overtaken |-> FALSE]}
    /\ Goto(IF Packed(req.name) THEN "cleanup" ELSE "idle")
    /\ UNCHANGED <<deep, disk, table, up, req, clock, bounds, acked, gone>>

\* The file cannot be added to the answer, which is sent all the same, without it.
SendNothing ==
    /\ up /\ pc = "send" /\ Known(req.name)
    /\ low[req.name] # NoFile
    /\ Fault
    /\ Send(IF req.ifRange = ETag(req.name) THEN "206" ELSE "200")
    /\ etags' = etags \cup {[etag |-> ETag(req.name), modified |-> table[req.name].atime_]}
    /\ Goto(IF Packed(req.name) THEN "cleanup" ELSE "idle")
    /\ UNCHANGED <<files, disk, table, up, req, clock, requests, crashes, acked, gone>>

\* Mutant of DownloadCleans: the copy is left where it is.
LeavesCopy ==
    /\ up /\ pc = "cleanup"
    /\ Goto("idle") /\ NoFault
    /\ UNCHANGED <<files, disk, table, up, req, replies, clock, requests, crashes,
                   history>>

\* The result of remove is not looked at.
DownloadCleans ==
    /\ up /\ pc = "cleanup"
    /\ \/ NoFault /\ WriteTo("low", req.name, NoFile)
       \/ Fault /\ UNCHANGED files
    /\ Goto("idle")
    /\ UNCHANGED <<disk, table, up, req, replies, clock, requests, crashes, history>>

\* The event loop, between two handlers, has sent the rest of the file.
TransferEnds ==
    /\ up /\ pc = "idle"
    /\ wire # NoTransfer
    /\ wire' = NoTransfer
    /\ UNCHANGED <<low, deep, disk, table, up, pc, req, replies, clock, bounds, history>>

-----------------------------------------------------------------------------
(* The process and the clock *)

Crash ==
    /\ up /\ crashes < MaxCrashes
    /\ crashes' = crashes + 1
    /\ Stops
    /\ UNCHANGED <<low, deep, disk, req, replies, clock, requests, faults, history>>

\* InitLoad reads storage.data; when that fails nobody looks at the false it
\* returns and the server runs with an empty table.
ReadTable == \/ NoFault /\ table' = disk
             \/ Fault /\ table' = EmptyTable

Restart ==
    /\ ~up
    /\ up' = TRUE
    /\ ReadTable
    /\ req' = NoRequest
    /\ replies' = <<>>
    /\ UNCHANGED <<files, disk, pc, clock, requests, crashes, history>>

Tick ==
    /\ clock < MaxClock
    /\ clock' = clock + 1
    /\ UNCHANGED <<files, disk, table, up, pc, req, replies, bounds, history>>

Handler ==
    \/ HandlerThrows \/ NotFound \/ ListShow
    \/ UploadRefused \/ UploadOpens \/ UploadCannotOpen \/ UploadWrites
    \/ UploadInserts
    \/ PersistOpens \/ PersistWrites \/ Answer
    \/ DeleteRefused \/ DeleteUnknown \/ DeleteRemoves \/ DeleteCannotRemove \/ DeleteErases
    \/ DownloadUnpacks \/ UnCompress \/ DownloadFinds
    \/ SendUnknown \/ SendMissing \/ SendCannotOpen \/ SendFile \/ SendNothing
    \/ DownloadCleans

Next == \/ \E r \in Request : Receive(r)
        \/ Handler
        \/ TransferEnds
        \/ Crash \/ Restart \/ Tick

Spec == Init /\ [][Next]_vars

-----------------------------------------------------------------------------
(* Properties *)

\* Every variable keeps its type.
TypeOK ==
    /\ low \in [Names -> File \cup {NoFile}]
    /\ deep \in [Names -> File \cup {NoFile}]
    /\ disk \in Table
    /\ table \in Table
    /\ up \in BOOLEAN
    /\ pc \in {"idle", "upload", "write", "insert", "persist", "persist_write",
              "answer", "delete", "erase", "download", "unpack", "send", "cleanup",
              "list", "other"}
    /\ req \in Request \cup {NoRequest}
    /\ clock \in 0..MaxClock
    /\ requests \in 0..MaxRequests
    /\ crashes \in 0..MaxCrashes
    /\ faults \in 0..MaxFaults
    /\ acked \in [Names -> Contents \cup {"none"}]
    /\ gone \subseteq Names
    /\ wire \in Transfer \cup {NoTransfer}

Idle == up /\ pc = "idle"

Codes == {replies[i].code : i \in 1..Len(replies)}

\* No crash and no failed file operation so far.
Undisturbed == crashes = 0 /\ faults = 0

\* Whatever crashes or fails, a request whose handler has ended was answered
\* (unless the handler threw), and twice only if it is the download of a deep
\* file that could not be unpacked and has no namesake in the low directory:
\* 500, then 404.
OneReply ==
    /\ Idle /\ req # NoRequest => replies # <<>>
    /\ up /\ Len(replies) > 1 =>
         /\ ~Undisturbed
         /\ req.op = "download" /\ Packed(req.name) /\ low[req.name] = NoFile
         /\ replies = <<Reply("500"), Reply("404")>>

\* While nothing crashes and no file operation fails, a download of a listed
\* file carries what the last acknowledged upload stored, also when files of
\* one name come and go in both directories and temporary copies with them.
DownloadReturnsLatest ==
    Undisturbed => \A i \in 1..Len(replies) :
        req.op = "download" /\ acked[req.name] # "none" =>
            /\ replies[i].code \in {"200", "206"}
            /\ replies[i].body = acked[req.name]

\* An upload or a deletion of n is between its first change and its answer.
Busy(n) ==
    /\ pc \in {"write", "insert", "persist", "persist_write", "answer", "erase"}
    /\ req.name = n

\* The record that is, or will be after a restart, in the table.
Record(n) == IF up THEN table[n] ELSE disk[n]

\* What is stored under n: what is being uploaded, nothing when it is being
\* deleted, and otherwise the file that is listed.
Holds(n) ==
    IF Busy(n) THEN IF req.op = "upload" THEN req.body ELSE "none"
    ELSE IF Record(n) = NoInfo THEN "none" ELSE Dir(Record(n).type)[n].content

\* How far the request has come: it is answered before a copy is cleaned away.
Stage == IF pc \in {"idle", "cleanup"} THEN "none"
         ELSE IF pc \in {"upload", "delete", "download", "unpack", "send", "list", "other"}
           THEN "taken"
         ELSE "applied"

\* What the server promises its clients: ObjectStore, over the table and the two
\* directories.  A server that is down has answered nothing.
Store == INSTANCE ObjectStore
             WITH store <- [n \in Names |-> Holds(n)], stage <- Stage,
                  request <- IF Stage = "none" THEN NoRequest ELSE req,
                  replies <- IF up THEN replies ELSE <<>>

\* While nothing crashes and no file operation fails, the handlers do what an
\* ObjectStore does: an upload or a deletion takes effect as a whole, a download
\* carries what is stored, and copies, transfers and persisting are not seen.
ImplementsStore ==
    Store!Init /\ [][Undisturbed' => [Store!Next]_(Store!vars)]_vars

\* While nothing crashes and no file operation fails, the files listed between
\* requests are those whose upload was acknowledged and that were not deleted
\* since, and each exists with the size that is listed.
ListedFilesExist ==
    Undisturbed /\ Idle => \A n \in Names :
        /\ Known(n) <=> acked[n] # "none"
        /\ Known(n) => /\ Stored(n) # NoFile
                       /\ FileSize(Stored(n)) = table[n].fsize

\* While no file operation fails, what a restart would load is the whole table,
\* nothing, or the table without the effect of the request in progress, never a
\* mixture; between requests it is exactly the table, whatever crashed before.
RestartIsAtomic ==
    /\ faults = 0 /\ up => \/ disk \in {EmptyTable, table}
                          \/ disk = [table EXCEPT ![req.name] = disk[req.name]]
    /\ faults = 0 /\ Idle => disk = table

\* While no file operation fails, a file whose deletion was acknowledged stays
\* unlisted, across crashes, until somebody uploads it again.  Whatever fails, a
\* deletion answered 500 has changed nothing, and one answered 200 or 404 leaves
\* the name unlisted.
DeletionsHold ==
    /\ faults = 0 => \A n \in gone : ~Known(n) /\ disk[n] = NoInfo
    /\ Idle /\ req.op = "delete" =>
         /\ "500" \in Codes => Known(req.name) /\ Stored(req.name) # NoFile
         /\ Codes \cap {"200", "404"} # {} => ~Known(req.name)

\* While no file operation fails, what the event loop still has to send is what
\* the download found, whatever is uploaded, deleted, listed or downloaded
\* meanwhile; only a file that was not packed may change under the transfer, and
\* only after an upload of its name.
TransfersWhole ==
    faults = 0 /\ Idle /\ wire # NoTransfer =>
        OnWire = wire.promised \/ (wire.overtaken /\ ~wire.packed)

\* DataManager.hpp:94: every change is persisted; a file whose upload was
\* acknowledged, and which no request has begun to change since, is listed between
\* any two requests, before and after a restart.
AckedStaysListed == Idle => \A n \in Names : acked[n] # "none" => Known(n)

\* Service.hpp:359: the ETag is made of the name, the size and the modification
\* time: two versions modified at different times have different ETags.
ETagTracksModification ==
    \A d, e \in etags : d.etag = e.etag => d.modified = e.modified

=============================================================================
