------------------------- MODULE StorageService_proofs -------------------------
(***************************************************************************)
(* Proofs about StorageService, for any names and contents and any number  *)
(* of requests, crashes, failing file operations and seconds.              *)
(***************************************************************************)
EXTENDS StorageService, SequenceTheorems, TLAPS

\* What a handler has established where it is, and what an open transfer and a
\* stopped process are like.
Phases ==
    /\ pc = "upload" => req \in Upload
    /\ pc \in {"write", "insert"} =>
         /\ req.op = "upload" /\ req.name \in Names /\ req.body \in Contents
         /\ req.type \in {"low", "deep"}
         /\ Dir(req.type)[req.name] \in File
    /\ pc \in {"persist", "persist_write", "answer"} =>
         /\ req.name \in Names
         /\ (req.op = "upload" /\ req.body \in Contents) \/ req.op = "delete"
    /\ pc = "delete" => req \in Delete
    /\ pc = "erase" => req.op = "delete" /\ req.name \in Names
    /\ pc \in {"download", "unpack", "send", "cleanup"} =>
         req.op = "download" /\ req.name \in Names
    /\ pc = "unpack" =>
         Packed(req.name) /\ low[req.name] \in File /\ deep[req.name] \in File
    /\ pc = "cleanup" => Packed(req.name)
    /\ pc \in {"list", "other"} => req.op = pc
    /\ ~up => pc = "idle" /\ table = EmptyTable /\ wire = NoTransfer
    /\ wire # NoTransfer /\ wire.inode = "linked" => low[wire.name] \in File

TInv == TypeOK /\ Phases

\* A file opened for writing, in either directory, is a file.
LEMMA OpenedIsFile ==
    ASSUME clock \in 0..MaxClock, NEW file \in File \cup {NoFile}
    PROVE  OpenedForWriting(file) \in File
BY DEF OpenedForWriting, File, NoFile

\* Writing a file, or removing one, keeps the types of the directories and of
\* the transfer that is going on.
LEMMA WriteToTyped ==
    ASSUME TypeOK, Phases,
           NEW type, NEW n \in Names, NEW file \in File \cup {NoFile},
           WriteTo(type, n, file)
    PROVE  /\ low' \in [Names -> File \cup {NoFile}]
           /\ deep' \in [Names -> File \cup {NoFile}]
           /\ wire' \in Transfer \cup {NoTransfer}
           /\ wire' # NoTransfer /\ wire'.inode = "linked" => low'[wire'.name] \in File
           /\ Dir(type)'[n] = file
           /\ wire = NoTransfer => wire' = NoTransfer
<1>1. /\ low' \in [Names -> File \cup {NoFile}]
      /\ deep' \in [Names -> File \cup {NoFile}]
      /\ Dir(type)'[n] = file
  BY DEF WriteTo, TypeOK, Dir
<1>2. CASE wire = NoTransfer
  <2>1. wire' = NoTransfer
    BY <1>2, NamesAssumption DEF WriteTo, Unlinked, NoTransfer
  <2>. QED
    BY <1>1, <2>1
<1>3. CASE wire # NoTransfer
  <2>1. wire \in Transfer
    BY <1>3 DEF TypeOK
  <2>2. CASE type = "low" /\ file = NoFile /\ wire.name = n
    <3>1. wire' = [wire EXCEPT !.inode = OnWire]
      BY <2>2 DEF WriteTo, Unlinked
    <3>2. OnWire \in Contents \cup {Torn}
      <4>1. CASE wire.inode = "linked"
        BY <4>1, <1>3 DEF OnWire, Phases, File
      <4>2. CASE wire.inode # "linked"
        BY <4>2, <2>1 DEF OnWire, Transfer
      <4>. QED
        BY <4>1, <4>2
    <3>3. wire' \in Transfer /\ wire'.inode = OnWire
      BY <2>1, <3>1, <3>2 DEF Transfer
    <3>4. OnWire # "linked"
      BY <3>2, NamesAssumption DEF Torn
    <3>. QED
      BY <1>1, <1>3, <3>3, <3>4
  <2>3. CASE type = "low" /\ file # NoFile
    <3>1. wire' = wire /\ low' = [low EXCEPT ![n] = file] /\ file \in File
      BY <2>3 DEF WriteTo
    <3>. QED
      BY <1>1, <1>3, <2>1, <3>1 DEF Phases, TypeOK
  <2>4. CASE type = "low" /\ file = NoFile /\ wire.name # n
    <3>1. wire' = wire /\ low' = [low EXCEPT ![n] = file]
      BY <2>4 DEF WriteTo, Unlinked
    <3>. QED
      BY <1>1, <1>3, <2>1, <2>4, <3>1 DEF Phases, TypeOK, Transfer
  <2>5. CASE type # "low"
    <3>1. wire' = wire /\ low' = low
      BY <2>5 DEF WriteTo
    <3>. QED
      BY <1>1, <1>3, <2>1, <3>1 DEF Phases
  <2>. QED
    BY <2>2, <2>3, <2>4, <2>5
<1>. QED
  BY <1>2, <1>3

\* Requests stay requests when more ETags have been sent.
LEMMA RequestsGrow ==
    ASSUME etags \subseteq etags' PROVE Request \subseteq Request'
BY DEF Request, Upload, Delete, Download, Plain

LEMMA RequestKept ==
    ASSUME TypeOK, req' = req, etags \subseteq etags'
    PROVE  req' \in Request' \cup {NoRequest}
BY RequestsGrow DEF TypeOK

\* A failing operation stays within the bound.
LEMMA FaultTyped == ASSUME TypeOK, Fault \/ NoFault PROVE faults' \in 0..MaxFaults
BY BoundsAssumption DEF TypeOK, Fault, NoFault

LEMMA InitTyped == Init => TInv
<1>. SUFFICES ASSUME Init PROVE TInv
  OBVIOUS
<1>1. 0 \in 0..MaxClock /\ 0 \in 0..MaxRequests /\ 0 \in 0..MaxCrashes /\ 0 \in 0..MaxFaults
  BY BoundsAssumption
<1>2. TypeOK
  BY <1>1 DEF Init, TypeOK, Table, EmptyTable
<1>3. Phases
  BY DEF Init, Phases
<1>. QED
  BY <1>2, <1>3 DEF TInv

LEMMA StepTyped == TInv /\ [Next]_vars => TInv'
<1>. SUFFICES ASSUME TInv, [Next]_vars PROVE TInv'
  OBVIOUS
<1>. USE DEF TInv
<1>1. ASSUME NEW r \in Request, Receive(r) PROVE TInv'
  <2>1. requests' \in 0..MaxRequests
    BY <1>1, BoundsAssumption DEF Receive, TypeOK
  <2>2. req' \in Request'
    BY <1>1, RequestsGrow DEF Receive
  <2>3. gone' \subseteq Names
    BY <1>1 DEF Receive, TypeOK
  <2>4. /\ wire' \in Transfer \cup {NoTransfer}
        /\ wire' # NoTransfer /\ wire'.inode = "linked" =>
             wire # NoTransfer /\ wire.inode = "linked" /\ wire'.name = wire.name
    <3>1. CASE wire = NoTransfer
      BY <1>1, <3>1, NamesAssumption DEF Receive, NoTransfer
    <3>2. CASE wire # NoTransfer
      BY <1>1, <3>2 DEF Receive, TypeOK, Transfer
    <3>. QED
      BY <3>1, <3>2
  <2>5. /\ pc' = r.op
        /\ r.op \in {"upload", "delete", "download", "list", "other"}
        /\ r.op = "upload" => r \in Upload
        /\ r.op = "delete" => r \in Delete
        /\ r.op = "download" => r.name \in Names
    BY <1>1 DEF Receive, Goto, Request, Upload, Delete, Download, Plain
  <2>6. TypeOK'
    BY <1>1, <2>1, <2>2, <2>3, <2>4, <2>5 DEF Receive, TypeOK
  <2>7. Phases'
    BY <1>1, <2>4, <2>5 DEF Receive, Phases, Upload, Delete
  <2>. QED
    BY <2>6, <2>7
<1>2. CASE HandlerThrows
  <2>1. req' \in Request' \cup {NoRequest}
    BY <1>2, RequestKept DEF HandlerThrows, history
  <2>. QED
    BY <1>2, <2>1
    DEF HandlerThrows, Stops, Goto, TypeOK, Phases, Table, EmptyTable, history, bounds
<1>3. CASE NotFound \/ ListShow \/ UploadRefused \/ UploadCannotOpen \/ DeleteRefused
           \/ DeleteUnknown \/ DeleteCannotRemove \/ SendUnknown \/ SendMissing
           \/ SendCannotOpen
  <2>1. req' \in Request' \cup {NoRequest}
    BY <1>3, RequestKept
    DEF NotFound, ListShow, UploadRefused, UploadCannotOpen, DeleteRefused, DeleteUnknown,
        DeleteCannotRemove, SendUnknown, SendMissing, SendCannotOpen, history
  <2>2. faults' \in 0..MaxFaults
    BY <1>3, FaultTyped
    DEF NotFound, ListShow, UploadRefused, UploadCannotOpen, DeleteRefused, DeleteUnknown,
        DeleteCannotRemove, SendUnknown, SendMissing, SendCannotOpen, bounds, NoFault
  <2>3. /\ up /\ pc' = "idle"
        /\ UNCHANGED <<low, deep, wire, disk, table, up, clock, requests, crashes, acked, gone>>
    BY <1>3
    DEF NotFound, ListShow, UploadRefused, UploadCannotOpen, DeleteRefused, DeleteUnknown,
        DeleteCannotRemove, SendUnknown, SendMissing, SendCannotOpen, bounds, history,
        files, Finish, Goto
  <2>. QED
    BY <2>1, <2>2, <2>3 DEF TypeOK, Phases
<1>4. CASE UploadOpens
  <2>1. /\ req \in Upload /\ req.body # "empty" /\ req.type # "other" /\ up
        /\ pc = "upload" /\ ~HeaderMissing
        /\ WriteTo(req.type, req.name, OpenedForWriting(Dir(req.type)[req.name]))
        /\ acked' = [acked EXCEPT ![req.name] = "none"]
        /\ pc' = "write" /\ NoFault
        /\ UNCHANGED <<disk, table, up, req, clock, requests, crashes, gone, etags>>
    BY <1>4 DEF UploadOpens, Phases, Goto
  <2>2. /\ req.op = "upload" /\ req.name \in Names /\ req.body \in Contents
        /\ req.type \in {"low", "deep"}
    BY <2>1 DEF Upload, HeaderMissing
  <2>3. OpenedForWriting(Dir(req.type)[req.name]) \in File
    BY <2>2, OpenedIsFile DEF TypeOK, Dir
  <2>4. /\ low' \in [Names -> File \cup {NoFile}]
        /\ deep' \in [Names -> File \cup {NoFile}]
        /\ wire' \in Transfer \cup {NoTransfer}
        /\ wire' # NoTransfer /\ wire'.inode = "linked" => low'[wire'.name] \in File
        /\ Dir(req.type)'[req.name] \in File
    <3>. DEFINE opened == OpenedForWriting(Dir(req.type)[req.name])
    <3>1. WriteTo(req.type, req.name, opened) /\ opened \in File /\ req' = req
      BY <2>1, <2>3
    <3>. HIDE DEF opened
    <3>2. /\ low' \in [Names -> File \cup {NoFile}]
          /\ deep' \in [Names -> File \cup {NoFile}]
          /\ wire' \in Transfer \cup {NoTransfer}
          /\ wire' # NoTransfer /\ wire'.inode = "linked" => low'[wire'.name] \in File
          /\ Dir(req.type)'[req.name] = opened
      BY <2>2, <3>1, WriteToTyped
    <3>. QED
      BY <3>1, <3>2
  <2>5. req' \in Request' \cup {NoRequest} /\ faults' \in 0..MaxFaults
    BY <2>1, RequestKept, FaultTyped
  <2>. QED
    BY <2>1, <2>2, <2>4, <2>5 DEF TypeOK, Phases, Dir
<1>5. CASE UploadWrites
  <2>1. /\ pc = "write" /\ pc' = "insert" /\ up
        /\ UNCHANGED <<disk, table, up, req, clock, requests, crashes, history>>
    BY <1>5 DEF UploadWrites, Goto
  <2>2. /\ req.op = "upload" /\ req.name \in Names /\ req.body \in Contents
        /\ req.type \in {"low", "deep"} /\ Dir(req.type)[req.name] \in File
    BY <2>1 DEF Phases
  <2>3. req' \in Request' \cup {NoRequest} /\ faults' \in 0..MaxFaults
    BY <1>5, <2>1, RequestKept, FaultTyped DEF history, UploadWrites
  <2>4. CASE UNCHANGED files
    BY <2>1, <2>2, <2>3, <2>4 DEF TypeOK, Phases, history, Dir, files
  <2>5. CASE ~UNCHANGED files
    <3>. DEFINE new == [Dir(req.type)[req.name] EXCEPT !.content = req.body,
                                                       !.mtime = clock]
    <3>1. WriteTo(req.type, req.name, new)
      BY <1>5, <2>5 DEF UploadWrites
    <3>2. new \in File
      BY <2>2 DEF File, TypeOK
    <3>. HIDE DEF new
    <3>3. /\ low' \in [Names -> File \cup {NoFile}]
          /\ deep' \in [Names -> File \cup {NoFile}]
          /\ wire' \in Transfer \cup {NoTransfer}
          /\ wire' # NoTransfer /\ wire'.inode = "linked" => low'[wire'.name] \in File
          /\ Dir(req.type)'[req.name] \in File
      BY <2>1, <2>2, <3>1, <3>2, WriteToTyped
    <3>. QED
      BY <2>1, <2>2, <2>3, <3>3 DEF TypeOK, Phases, history, Dir
  <2>. QED
    BY <2>4, <2>5
<1>6. CASE UploadInserts
  <2>1. /\ pc = "insert" /\ pc' = "persist" /\ up
        /\ table' = [table EXCEPT ![req.name] =
                       NewStorageInfo(req.type, Dir(req.type)[req.name])]
        /\ UNCHANGED <<files, disk, up, req, clock, bounds, history>>
    BY <1>6 DEF UploadInserts, Goto
  <2>2. /\ req.op = "upload" /\ req.name \in Names /\ req.body \in Contents
        /\ req.type \in {"low", "deep"} /\ Dir(req.type)[req.name] \in File
    BY <2>1 DEF Phases
  <2>3. NewStorageInfo(req.type, Dir(req.type)[req.name]) \in Info
    BY <2>2, SizeAssumption DEF NewStorageInfo, Info, File, FileSize
  <2>4. table' \in Table
    BY <2>1, <2>2, <2>3 DEF TypeOK, Table
  <2>5. req' \in Request' \cup {NoRequest}
    BY <2>1, RequestKept DEF history
  <2>. QED
    BY <2>1, <2>2, <2>4, <2>5 DEF TypeOK, Phases, history, files, bounds
<1>7. CASE PersistOpens \/ PersistWrites
  <2>1. /\ pc \in {"persist", "persist_write"} /\ up
        /\ pc' \in {"persist_write", "answer"}
        /\ disk' \in {disk, table, EmptyTable}
        /\ UNCHANGED <<files, table, up, req, clock, requests, crashes, history>>
        /\ Fault \/ NoFault
    BY <1>7 DEF PersistOpens, PersistWrites, Goto
  <2>2. disk' \in Table
    BY <2>1 DEF TypeOK, Table, EmptyTable
  <2>3. req' \in Request' \cup {NoRequest} /\ faults' \in 0..MaxFaults
    BY <2>1, RequestKept, FaultTyped DEF history
  <2>. QED
    BY <2>1, <2>2, <2>3 DEF TypeOK, Phases, history, files
<1>8. CASE Answer
  <2>1. /\ pc = "answer" /\ pc' = "idle" /\ up
        /\ acked' = [acked EXCEPT ![req.name] =
                       IF req.op = "upload" THEN req.body ELSE "none"]
        /\ gone' = IF req.op = "delete" THEN gone \cup {req.name} ELSE gone
        /\ UNCHANGED <<files, disk, table, up, req, clock, bounds, etags>>
    BY <1>8 DEF Answer, Finish, Goto
  <2>2. /\ req.name \in Names
        /\ (req.op = "upload" /\ req.body \in Contents) \/ req.op = "delete"
    BY <2>1 DEF Phases
  <2>3. req' \in Request' \cup {NoRequest}
    BY <2>1, RequestKept
  <2>. QED
    BY <2>1, <2>2, <2>3 DEF TypeOK, Phases, files, bounds
<1>9. CASE DeleteRemoves
  <2>1. /\ req \in Delete /\ req.name \in Names /\ up /\ pc = "delete" /\ pc' = "erase"
        /\ WriteTo(table[req.name].type, req.name, NoFile) /\ NoFault
        /\ acked' = [acked EXCEPT ![req.name] = "none"]
        /\ UNCHANGED <<disk, table, up, req, clock, requests, crashes, gone, etags>>
    BY <1>9 DEF DeleteRemoves, Phases, Goto
  <2>2. req.op = "delete"
    BY <2>1 DEF Delete
  <2>3. /\ low' \in [Names -> File \cup {NoFile}]
        /\ deep' \in [Names -> File \cup {NoFile}]
        /\ wire' \in Transfer \cup {NoTransfer}
        /\ wire' # NoTransfer /\ wire'.inode = "linked" => low'[wire'.name] \in File
    BY <2>1, <2>2, WriteToTyped
  <2>4. req' \in Request' \cup {NoRequest} /\ faults' \in 0..MaxFaults
    BY <2>1, RequestKept, FaultTyped
  <2>. QED
    BY <2>1, <2>2, <2>3, <2>4 DEF TypeOK, Phases
<1>10. CASE DeleteErases
  <2>1. /\ pc = "erase" /\ pc' = "persist" /\ up
        /\ table' = [table EXCEPT ![req.name] = NoInfo]
        /\ UNCHANGED <<files, disk, up, req, clock, bounds, history>>
    BY <1>10 DEF DeleteErases, Goto
  <2>2. req.op = "delete" /\ req.name \in Names
    BY <2>1 DEF Phases
  <2>3. table' \in Table
    BY <2>1, <2>2 DEF TypeOK, Table
  <2>4. req' \in Request' \cup {NoRequest}
    BY <2>1, RequestKept DEF history
  <2>. QED
    BY <2>1, <2>2, <2>3, <2>4 DEF TypeOK, Phases, history, files, bounds
<1>11. CASE DownloadUnpacks \/ UnCompress
  <2>1. /\ pc \in {"download", "unpack"} /\ pc' \in {"unpack", "send"} /\ up
        /\ Packed(req.name)
        /\ UNCHANGED <<deep, wire, disk, table, up, req, clock, requests, crashes, history>>
    BY <1>11 DEF DownloadUnpacks, UnCompress, Goto, Phases
  <2>2. req.op = "download" /\ req.name \in Names
    BY <2>1 DEF Phases
  <2>3. deep[req.name] \in File
    BY <1>11, <2>2 DEF DownloadUnpacks, UnCompress, TypeOK, Phases
  <2>4. \/ \E file \in File : low' = [low EXCEPT ![req.name] = file]
        \/ low' = low /\ pc' = "send"
    <3>1. CASE DownloadUnpacks
      <4>1. OpenedForWriting(low[req.name]) \in File
        BY <2>2, OpenedIsFile DEF TypeOK
      <4>. QED
        BY <3>1, <4>1 DEF DownloadUnpacks, Goto
    <3>2. CASE UnCompress
      <4>1. low[req.name] \in File /\ clock \in 0..MaxClock
        BY <3>2 DEF UnCompress, Phases, TypeOK
      <4>. DEFINE copy == [low[req.name] EXCEPT !.content = deep[req.name].content,
                                                !.mtime = clock]
      <4>2. copy \in File
        BY <2>3, <4>1 DEF File
      <4>3. low' = [low EXCEPT ![req.name] = copy] \/ (low' = low /\ pc' = "send")
        <5>. HIDE DEF TInv
        <5>. QED
          BY <3>2 DEF UnCompress, Goto
      <4>. HIDE DEF copy
      <4>. QED
        BY <4>2, <4>3
    <3>. QED
      BY <1>11, <3>1, <3>2
  <2>5. /\ low' \in [Names -> File \cup {NoFile}]
        /\ pc' = "unpack" => low'[req.name] \in File
    BY <2>2, <2>4 DEF TypeOK
  <2>6. wire' # NoTransfer /\ wire'.inode = "linked" => low'[wire'.name] \in File
    BY <2>1, <2>2, <2>4 DEF TypeOK, Phases, Transfer
  <2>7. req' \in Request' \cup {NoRequest} /\ faults' \in 0..MaxFaults
    BY <1>11, <2>1, RequestKept, FaultTyped DEF history, DownloadUnpacks, UnCompress
  <2>8. Packed(req.name)'
    BY <2>1 DEF Packed, Known
  <2>. QED
    BY <2>1, <2>2, <2>3, <2>5, <2>6, <2>7, <2>8 DEF TypeOK, Phases, history
<1>12. CASE DownloadFinds
  <2>1. req' \in Request' \cup {NoRequest}
    BY <1>12, RequestKept DEF DownloadFinds, history
  <2>. QED
    BY <1>12, <2>1 DEF DownloadFinds, Goto, TypeOK, Phases, files, bounds, history
<1>13. CASE SendFile
  <2>1. /\ pc = "send" /\ up /\ Known(req.name) /\ low[req.name] # NoFile
        /\ pc' = IF Packed(req.name) THEN "cleanup" ELSE "idle"
        /\ etags \subseteq etags'
        /\ UNCHANGED <<deep, disk, table, up, req, clock, bounds, acked, gone>>
    BY <1>13 DEF SendFile, Goto
  <2>2. req.op = "download" /\ req.name \in Names
    BY <2>1 DEF Phases
  <2>3. low[req.name] \in File
    BY <2>1, <2>2 DEF TypeOK
  <2>4. PICK t \in {low[req.name].atime, clock} : low' = [low EXCEPT ![req.name].atime = t]
    BY <1>13 DEF SendFile
  <2>5. [low[req.name] EXCEPT !.atime = t] \in File
    BY <2>3, <2>4 DEF File, TypeOK
  <2>6. low' \in [Names -> File \cup {NoFile}] /\ low'[req.name] \in File
    BY <2>2, <2>4, <2>5 DEF TypeOK
  <2>7. /\ wire' \in Transfer \cup {NoTransfer}
        /\ wire' # NoTransfer /\ wire'.inode = "linked" => low'[wire'.name] \in File
    <3>1. CASE wire' = wire
      BY <2>2, <2>4, <2>6, <3>1 DEF Phases, TypeOK, Transfer
    <3>2. CASE wire' # wire
      <4>1. wire' = [name |-> req.name, packed |-> Packed(req.name), inode |-> "linked",
                     promised |-> low[req.name].content, overtaken |-> FALSE]
        BY <1>13, <3>2 DEF SendFile
      <4>2. Packed(req.name) \in BOOLEAN /\ low[req.name].content \in Contents \cup {Torn}
        BY <2>3 DEF Packed, Known, File
      <4>. HIDE DEF Packed
      <4>. QED
        BY <2>2, <2>6, <4>1, <4>2 DEF Transfer
    <3>. QED
      BY <3>1, <3>2
  <2>8. req' \in Request' \cup {NoRequest}
    BY <2>1, RequestKept
  <2>9. Packed(req.name)' <=> Packed(req.name)
    BY <2>1 DEF Packed, Known
  <2>. QED
    BY <2>1, <2>2, <2>6, <2>7, <2>8, <2>9 DEF TypeOK, Phases, bounds
<1>14. CASE DownloadCleans
  <2>1. /\ pc = "cleanup" /\ pc' = "idle" /\ up
        /\ WriteTo("low", req.name, NoFile) \/ UNCHANGED files
        /\ Fault \/ NoFault
        /\ UNCHANGED <<disk, table, up, req, clock, requests, crashes, history>>
    BY <1>14 DEF DownloadCleans, Goto
  <2>2. req.op = "download" /\ req.name \in Names
    BY <2>1 DEF Phases
  <2>3. /\ low' \in [Names -> File \cup {NoFile}]
        /\ deep' \in [Names -> File \cup {NoFile}]
        /\ wire' \in Transfer \cup {NoTransfer}
        /\ wire' # NoTransfer /\ wire'.inode = "linked" => low'[wire'.name] \in File
    <3>1. CASE WriteTo("low", req.name, NoFile)
      BY <2>2, <3>1, WriteToTyped
    <3>2. CASE UNCHANGED files
      BY <3>2 DEF files, TypeOK, Phases
    <3>. QED
      BY <2>1, <3>1, <3>2
  <2>4. req' \in Request' \cup {NoRequest} /\ faults' \in 0..MaxFaults
    BY <2>1, RequestKept, FaultTyped DEF history
  <2>. QED
    BY <2>1, <2>2, <2>3, <2>4 DEF TypeOK, Phases, history
<1>15. CASE TransferEnds
  <2>1. req' \in Request' \cup {NoRequest}
    BY <1>15, RequestKept DEF TransferEnds, history
  <2>. QED
    BY <1>15, <2>1 DEF TransferEnds, TypeOK, Phases, bounds, history
<1>16. CASE Crash
  <2>1. req' \in Request' \cup {NoRequest}
    BY <1>16, RequestKept DEF Crash, history
  <2>2. crashes' \in 0..MaxCrashes
    BY <1>16, BoundsAssumption DEF Crash, TypeOK
  <2>. QED
    BY <1>16, <2>1, <2>2 DEF Crash, Stops, Goto, TypeOK, Phases, Table, EmptyTable, history
<1>17. CASE Restart
  <2>1. /\ ~up /\ up' /\ table' \in {disk, EmptyTable}
        /\ Fault \/ NoFault
        /\ req' = NoRequest
        /\ UNCHANGED <<files, disk, pc, clock, requests, crashes, history>>
    BY <1>17 DEF Restart, ReadTable
  <2>2. table' \in Table
    BY <2>1 DEF TypeOK, Table, EmptyTable
  <2>3. faults' \in 0..MaxFaults
    BY <2>1, FaultTyped
  <2>. QED
    BY <1>17, <2>1, <2>2, <2>3 DEF Restart, TypeOK, Phases, files, history
<1>18. CASE Tick
  <2>1. req' \in Request' \cup {NoRequest}
    BY <1>18, RequestKept DEF Tick, history
  <2>2. clock' \in 0..MaxClock
    BY <1>18, BoundsAssumption DEF Tick, TypeOK
  <2>. QED
    BY <1>18, <2>1, <2>2 DEF Tick, TypeOK, Phases, files, bounds, history, Dir, Packed, Known
<1>19. CASE UNCHANGED vars
  <2>1. req' \in Request' \cup {NoRequest}
    BY <1>19, RequestKept DEF vars, history
  <2>. QED
    BY <1>19, <2>1
    DEF vars, TypeOK, Phases, files, bounds, history, Dir, Packed, Known
<1>20. CASE SendNothing
  <2>1. /\ pc = "send" /\ up /\ Fault
        /\ pc' = IF Packed(req.name) THEN "cleanup" ELSE "idle"
        /\ etags \subseteq etags'
        /\ UNCHANGED <<files, disk, table, up, req, clock, requests, crashes, acked, gone>>
    BY <1>20 DEF SendNothing, Goto
  <2>2. req.op = "download" /\ req.name \in Names
    BY <2>1 DEF Phases
  <2>3. req' \in Request' \cup {NoRequest} /\ faults' \in 0..MaxFaults
    BY <2>1, RequestKept, FaultTyped
  <2>4. Packed(req.name)' <=> Packed(req.name)
    BY <2>1 DEF Packed, Known
  <2>. QED
    BY <2>1, <2>2, <2>3, <2>4 DEF TypeOK, Phases, files
<1>. QED
  BY <1>1, <1>2, <1>3, <1>4, <1>5, <1>6, <1>7, <1>8, <1>9, <1>10, <1>11, <1>12, <1>13,
     <1>14, <1>15, <1>16, <1>17, <1>18, <1>19, <1>20 DEF Next, Handler

\* Every variable keeps its type.
THEOREM TypeCorrect == Spec => []TypeOK
<1>1. TInv => TypeOK
  BY DEF TInv
<1>. QED
  BY <1>1, InitTyped, StepTyped, PTL DEF Spec

-----------------------------------------------------------------------------
(* What a restart loads *)

\* The disk agrees with the table but while a change is being persisted.
Synced ==
    faults = 0 /\ up =>
        /\ pc = "persist" => disk = [table EXCEPT ![req.name] = disk[req.name]]
        /\ pc = "persist_write" => disk = EmptyTable
        /\ pc \notin {"persist", "persist_write"} => disk = table

\* When no operation has failed after a step, none had before, nor did in it.
LEMMA NoFaultYet ==
    ASSUME TypeOK, faults' = 0, Fault \/ NoFault
    PROVE  faults = 0 /\ ~Fault
BY DEF TypeOK, Fault, NoFault

LEMMA StepSynced == TInv /\ Synced /\ [Next]_vars => Synced'
<1>. SUFFICES ASSUME TInv, Synced, [Next]_vars, faults' = 0, up' PROVE Synced'
  BY DEF Synced
<1>. USE DEF TInv
<1>1. ASSUME NEW r \in Request, Receive(r) PROVE Synced'
  <2>1. r.op \notin {"persist", "persist_write"}
    BY DEF Request, Upload, Delete, Download, Plain
  <2>. QED
    BY <1>1, <2>1 DEF Receive, Goto, Synced
<1>2. CASE HandlerThrows \/ Crash
  BY <1>2 DEF HandlerThrows, Crash, Stops
<1>3. CASE NotFound \/ ListShow \/ UploadRefused \/ DeleteRefused \/ DeleteUnknown
           \/ SendUnknown \/ SendMissing \/ SendFile \/ Answer \/ DownloadFinds
  BY <1>3
  DEF NotFound, ListShow, UploadRefused, DeleteRefused, DeleteUnknown, SendUnknown,
      SendMissing, SendFile, Answer, DownloadFinds, bounds, Finish, Goto, Synced
<1>4. CASE UploadCannotOpen \/ DeleteCannotRemove \/ SendCannotOpen \/ SendNothing
  BY <1>4, NoFaultYet DEF UploadCannotOpen, DeleteCannotRemove, SendCannotOpen, SendNothing
<1>5. CASE UploadOpens \/ UploadWrites \/ DeleteRemoves \/ DownloadUnpacks \/ UnCompress
           \/ DownloadCleans
  <2>1. faults = 0
    BY <1>5, NoFaultYet
    DEF UploadOpens, UploadWrites, DeleteRemoves, DownloadUnpacks, UnCompress, DownloadCleans
  <2>. QED
    BY <1>5, <2>1
    DEF UploadOpens, UploadWrites, DeleteRemoves, DownloadUnpacks, UnCompress,
        DownloadCleans, Goto, Synced
<1>6. CASE UploadInserts \/ DeleteErases
  <2>1. /\ disk = table /\ disk' = disk /\ req' = req /\ pc' = "persist"
        /\ \E info : table' = [table EXCEPT ![req.name] = info]
    BY <1>6 DEF UploadInserts, DeleteErases, bounds, Goto, Synced
  <2>2. table \in [Names -> Info \cup {NoInfo}]
    BY DEF TypeOK, Table
  <2>3. disk = [table' EXCEPT ![req.name] = disk[req.name]]
    BY <2>1, <2>2
  <2>. QED
    BY <2>1, <2>3 DEF Synced
<1>7. CASE PersistOpens \/ PersistWrites
  <2>1. ~Fault
    BY <1>7, NoFaultYet DEF PersistOpens, PersistWrites
  <2>. QED
    BY <1>7, <2>1 DEF PersistOpens, PersistWrites, Goto, Synced
<1>8. CASE Restart
  <2>1. ~Fault
    BY <1>8, NoFaultYet DEF Restart, ReadTable
  <2>2. pc' = "idle" /\ table' = disk /\ disk' = disk
    BY <1>8, <2>1 DEF Restart, ReadTable, Phases
  <2>. QED
    BY <2>2 DEF Synced
<1>9. CASE TransferEnds \/ Tick \/ UNCHANGED vars
  BY <1>9 DEF TransferEnds, Tick, vars, bounds, Synced
<1>. QED
  BY <1>1, <1>2, <1>3, <1>4, <1>5, <1>6, <1>7, <1>8, <1>9 DEF Next, Handler

LEMMA SyncedHolds == Spec => [](TInv /\ Synced)
<1>1. Init => Synced
  BY DEF Init, Synced
<1>. QED
  BY <1>1, InitTyped, StepTyped, StepSynced, PTL DEF Spec

\* While no file operation fails, what a restart would load is the whole table,
\* nothing, or the table without the effect of the request in progress, wherever
\* the process was killed before.
THEOREM RestartIsAtomicHolds == Spec => []RestartIsAtomic
<1>1. TInv /\ Synced => RestartIsAtomic
  BY DEF TInv, TypeOK, Synced, RestartIsAtomic, Idle
<1>. QED
  BY <1>1, SyncedHolds, PTL

-----------------------------------------------------------------------------
(* Deletions *)

\* A deleted name is in neither table until it is uploaded again.
GoneIsGone ==
    /\ faults = 0 =>
         /\ \A n \in gone : ~Known(n) /\ disk[n] = NoInfo
         /\ pc \in {"upload", "write", "insert"} => req.name \notin gone
         /\ pc \in {"persist", "persist_write", "answer"} /\ req.op = "upload" =>
                req.name \notin gone
    /\ pc \in {"persist", "persist_write", "answer"} /\ req.op = "delete" =>
           ~Known(req.name)

LEMMA StepGone == TInv /\ Synced /\ GoneIsGone /\ [Next]_vars => GoneIsGone'
<1>. SUFFICES ASSUME TInv, Synced, GoneIsGone, [Next]_vars PROVE GoneIsGone'
  OBVIOUS
<1>. USE DEF TInv, GoneIsGone
<1>1. ASSUME NEW r \in Request, Receive(r) PROVE GoneIsGone'
  <2>1. r.op \in {"upload", "delete", "download", "list", "other"}
    BY DEF Request, Upload, Delete, Download, Plain
  <2>. QED
    BY <1>1, <2>1 DEF Receive, Goto, Known
<1>2. CASE HandlerThrows \/ Crash
  <2>1. pc' = "idle" /\ table' = EmptyTable /\ UNCHANGED <<disk, gone, faults>>
    BY <1>2 DEF HandlerThrows, Crash, Stops, Goto, history, bounds
  <2>. QED
    BY <2>1 DEF TypeOK, EmptyTable, Known
<1>3. CASE NotFound \/ ListShow \/ UploadRefused \/ DeleteRefused \/ DeleteUnknown
           \/ SendUnknown \/ SendMissing \/ SendFile \/ DownloadFinds \/ TransferEnds
           \/ Tick \/ UNCHANGED vars
  BY <1>3
  DEF NotFound, ListShow, UploadRefused, DeleteRefused, DeleteUnknown, SendUnknown,
      SendMissing, SendFile, DownloadFinds, TransferEnds, Tick, vars, bounds, history,
      Finish, Goto, Known
<1>4. CASE UploadCannotOpen \/ DeleteCannotRemove \/ SendCannotOpen \/ SendNothing
  <2>1. faults' # 0
    BY <1>4, NoFaultYet
    DEF UploadCannotOpen, DeleteCannotRemove, SendCannotOpen, SendNothing
  <2>. QED
    BY <1>4, <2>1
    DEF UploadCannotOpen, DeleteCannotRemove, SendCannotOpen, SendNothing, Finish, Goto
<1>5. CASE UploadOpens \/ UploadWrites \/ DeleteRemoves \/ DownloadUnpacks \/ UnCompress
           \/ DownloadCleans
  <2>1. faults' = 0 => faults = 0
    BY <1>5, NoFaultYet
    DEF UploadOpens, UploadWrites, DeleteRemoves, DownloadUnpacks, UnCompress, DownloadCleans
  <2>. QED
    BY <1>5, <2>1
    DEF UploadOpens, UploadWrites, DeleteRemoves, DownloadUnpacks, UnCompress,
        DownloadCleans, Goto, history, Known
<1>6. CASE UploadInserts
  <2>1. /\ pc = "insert" /\ pc' = "persist" /\ req.op = "upload" /\ req.name \in Names
        /\ \E info : table' = [table EXCEPT ![req.name] = info]
        /\ UNCHANGED <<disk, gone, faults, req>>
    BY <1>6 DEF UploadInserts, Goto, history, bounds, Phases
  <2>. QED
    BY <2>1 DEF TypeOK, Table, Known
<1>7. CASE DeleteErases
  <2>1. /\ pc' = "persist" /\ req.op = "delete" /\ req.name \in Names
        /\ table' = [table EXCEPT ![req.name] = NoInfo]
        /\ UNCHANGED <<disk, gone, faults, req>>
    BY <1>7 DEF DeleteErases, Goto, history, bounds, Phases
  <2>. QED
    BY <2>1 DEF TypeOK, Table, Known
<1>8. CASE PersistOpens \/ PersistWrites
  <2>1. faults' = 0 => faults = 0
    BY <1>8, NoFaultYet DEF PersistOpens, PersistWrites
  <2>2. /\ pc \in {"persist", "persist_write"} /\ pc' \in {"persist_write", "answer"}
        /\ disk' \in {disk, table, EmptyTable}
        /\ UNCHANGED <<table, gone, req>>
    BY <1>8 DEF PersistOpens, PersistWrites, Goto, history
  <2>. QED
    BY <2>1, <2>2 DEF TypeOK, EmptyTable, Known
<1>9. CASE Answer
  <2>1. /\ pc = "answer" /\ pc' = "idle" /\ up
        /\ gone' = IF req.op = "delete" THEN gone \cup {req.name} ELSE gone
        /\ UNCHANGED <<disk, table, req, faults>>
    BY <1>9 DEF Answer, Finish, Goto, bounds
  <2>2. faults = 0 => disk = table
    BY <2>1 DEF Synced
  <2>. QED
    BY <2>1, <2>2 DEF Known
<1>10. CASE Restart
  <2>1. faults' = 0 => faults = 0
    BY <1>10, NoFaultYet DEF Restart, ReadTable
  <2>2. pc' = "idle" /\ table' \in {disk, EmptyTable} /\ disk' = disk /\ gone' = gone
    BY <1>10 DEF Restart, ReadTable, Phases, history
  <2>. QED
    BY <2>1, <2>2 DEF TypeOK, EmptyTable, Known
<1>. QED
  BY <1>1, <1>2, <1>3, <1>4, <1>5, <1>6, <1>7, <1>8, <1>9, <1>10 DEF Next, Handler

\* What has been answered to a deletion, where it is and when it has ended.
Deleting ==
    up /\ req.op = "delete" =>
        /\ pc # "idle" => replies = <<>>
        /\ pc = "idle" =>
             \/ /\ replies = <<Reply("500")>>
                /\ Known(req.name) /\ Stored(req.name) # NoFile
             \/ /\ replies \in {<<Reply("200")>>, <<Reply("404")>>}
                /\ ~Known(req.name)
             \/ replies = <<Reply("400")>>

LEMMA StepDeleting == TInv /\ GoneIsGone /\ Deleting /\ [Next]_vars => Deleting'
<1>. SUFFICES ASSUME TInv, GoneIsGone, Deleting, [Next]_vars, up', req'.op = "delete"
              PROVE  Deleting'
  BY DEF Deleting
<1>. USE DEF TInv, Deleting
<1>1. ASSUME NEW r \in Request, Receive(r) PROVE Deleting'
  BY <1>1 DEF Receive, Goto
<1>2. CASE HandlerThrows \/ Crash \/ Restart
  BY <1>2 DEF HandlerThrows, Crash, Restart, Stops, NoRequest
<1>3. CASE NotFound \/ ListShow \/ UploadRefused \/ UploadCannotOpen \/ SendUnknown
           \/ SendMissing \/ SendCannotOpen \/ SendFile \/ SendNothing \/ DownloadFinds
           \/ DownloadUnpacks \/ UnCompress \/ DownloadCleans \/ UploadOpens
           \/ UploadWrites \/ UploadInserts
  <2>1. req' = req
    BY <1>3
    DEF NotFound, ListShow, UploadRefused, UploadCannotOpen, SendUnknown, SendMissing,
        SendCannotOpen, SendFile, SendNothing, DownloadFinds, DownloadUnpacks, UnCompress,
        DownloadCleans, UploadOpens, UploadWrites, UploadInserts
  <2>2. pc \in {"other", "list", "upload", "write", "insert", "download", "unpack", "send",
               "cleanup"}
    BY <1>3
    DEF NotFound, ListShow, UploadRefused, UploadCannotOpen, SendUnknown, SendMissing,
        SendCannotOpen, SendFile, SendNothing, DownloadFinds, DownloadUnpacks, UnCompress,
        DownloadCleans, UploadOpens, UploadWrites, UploadInserts
  <2>3. req.op # "delete"
    BY <2>2 DEF Phases, Upload
  <2>. QED
    BY <2>1, <2>3
<1>4. CASE DeleteUnknown
  BY <1>4 DEF DeleteUnknown, Finish, Send, Goto, Known
<1>5. CASE DeleteCannotRemove
  BY <1>5 DEF DeleteCannotRemove, Finish, Send, Goto, Known, Stored, files, Dir
<1>6. CASE DeleteRemoves \/ DeleteErases \/ PersistOpens \/ PersistWrites
  BY <1>6 DEF DeleteRemoves, DeleteErases, PersistOpens, PersistWrites, Goto
<1>7. CASE Answer
  BY <1>7 DEF Answer, Finish, Send, Goto, Known, GoneIsGone
<1>8. CASE TransferEnds \/ Tick \/ UNCHANGED vars
  BY <1>8 DEF TransferEnds, Tick, vars, files, Known, Stored, Dir
<1>9. CASE DeleteRefused
  <2>1. /\ up /\ pc = "delete" /\ pc' = "idle" /\ req' = req
        /\ replies' = Append(replies, Reply("400"))
    BY <1>9 DEF DeleteRefused, Finish, Send, Goto
  <2>2. replies = <<>>
    BY <2>1
  <2>3. replies' = <<Reply("400")>>
    BY <2>1, <2>2
  <2>. QED
    BY <2>1, <2>3
<1>. QED
  BY <1>1, <1>2, <1>3, <1>4, <1>5, <1>6, <1>7, <1>8, <1>9 DEF Next, Handler

\* What was deleted stays deleted, across crashes, while no file operation
\* fails; and whatever fails, a deletion is answered with the truth.
THEOREM DeletionsHoldAlways == Spec => []DeletionsHold
<1>1. Init => Synced /\ GoneIsGone /\ Deleting
  BY DEF Init, Synced, GoneIsGone, Deleting, NoRequest
<1>2. GoneIsGone /\ Deleting => DeletionsHold
  <2>1. ASSUME Deleting, Idle, req.op = "delete"
        PROVE  /\ "500" \in Codes => Known(req.name) /\ Stored(req.name) # NoFile
               /\ Codes \cap {"200", "404"} # {} => ~Known(req.name)
    <3>1. CASE replies = <<Reply("500")>>
      <4>1. Codes = {"500"}
        BY <3>1 DEF Codes, Reply
      <4>. QED
        BY <2>1, <3>1, <4>1 DEF Deleting, Idle, Reply
    <3>2. CASE replies \in {<<Reply("200")>>, <<Reply("404")>>}
      <4>1. Codes \subseteq {"200", "404"}
        BY <3>2 DEF Codes, Reply
      <4>. QED
        BY <2>1, <3>2, <4>1 DEF Deleting, Idle, Reply
    <3>3. CASE replies = <<Reply("400")>>
      <4>1. Codes = {"400"}
        BY <3>3 DEF Codes, Reply
      <4>. QED
        BY <4>1
    <3>. QED
      BY <2>1, <3>1, <3>2, <3>3 DEF Deleting, Idle
  <2>. QED
    BY <2>1 DEF GoneIsGone, DeletionsHold
<1>. QED
  BY <1>1, <1>2, InitTyped, StepTyped, StepSynced, StepGone, StepDeleting, PTL DEF Spec

-----------------------------------------------------------------------------
(* What is stored, listed and served while nothing is disturbed *)

\* The record agrees with the last acknowledged request, and the file with it.
Current(n) ==
    /\ Record(n) # NoInfo <=> acked[n] # "none"
    /\ Record(n) # NoInfo =>
         /\ Dir(Record(n).type)[n] # NoFile
         /\ Dir(Record(n).type)[n].content = acked[n]
         /\ Record(n).fsize = Size(acked[n])

\* The record and the file of an upload that only has to be persisted and
\* answered.
Prepared ==
    IF req.op = "upload"
    THEN /\ Known(req.name) /\ Stored(req.name) # NoFile
         /\ Stored(req.name).content = req.body
         /\ table[req.name].fsize = Size(req.body)
    ELSE ~Known(req.name)

Latest ==
    Undisturbed =>
        /\ \A n \in Names : ~Busy(n) => Current(n)
        /\ pc = "insert" => Dir(req.type)[req.name].content = req.body
        /\ pc \in {"persist", "persist_write", "answer"} => Prepared
        /\ pc = "send" /\ Packed(req.name) =>
             low[req.name] # NoFile /\ low[req.name].content = acked[req.name]

\* Only the file that is written changes.
LEMMA WriteToFrame ==
    ASSUME TypeOK, NEW type, NEW n \in Names, NEW file, WriteTo(type, n, file)
    PROVE  /\ \A m \in Names \ {n} : low'[m] = low[m] /\ deep'[m] = deep[m]
           /\ type # "low" => low' = low
           /\ type = "low" => deep' = deep
           /\ Dir(type)'[n] = file
BY DEF TypeOK, WriteTo, Dir

\* A step that changes neither files nor records leaves them as they should be.
LEMMA QuietLatest ==
    ASSUME TInv, Latest, Undisturbed, up' = up,
           UNCHANGED <<low, deep, disk, table, acked>>,
           \/ UNCHANGED <<pc, req>>
           \/ \A n \in Names : ~Busy(n) /\ ~Busy(n)',
           pc' \in {"insert", "persist", "persist_write", "answer", "send"} =>
               UNCHANGED <<pc, req>>
    PROVE  Latest'
<1>1. ASSUME NEW n \in Names, ~Busy(n)' PROVE Current(n)'
  <2>1. Current(n)
    BY <1>1 DEF Latest, Busy
  <2>. QED
    BY <2>1 DEF Current, Record, Dir
<1>2. CASE UNCHANGED <<pc, req>>
  BY <1>1, <1>2 DEF Latest, Prepared, Known, Stored, Dir, Packed
<1>3. CASE pc' \notin {"insert", "persist", "persist_write", "answer", "send"}
  BY <1>1, <1>3 DEF Latest
<1>. QED
  BY <1>2, <1>3

LEMMA UndisturbedBefore ==
    ASSUME TInv, [Next]_vars, Undisturbed' PROVE Undisturbed
<1>1. faults' = 0 /\ crashes' = 0 /\ faults \in Nat /\ crashes \in Nat
  BY DEF TInv, TypeOK, Undisturbed
<1>. DEFINE Counts == faults \in {faults', faults' - 1} /\ crashes \in {crashes', crashes' - 1}
<1>2. HandlerThrows \/ NotFound \/ ListShow \/ UploadRefused \/ UploadOpens
        \/ UploadCannotOpen \/ UploadWrites \/ UploadInserts => Counts
  BY <1>1 DEF HandlerThrows, NotFound, ListShow, UploadRefused, UploadOpens,
      UploadCannotOpen, UploadWrites, UploadInserts, bounds, Fault, NoFault
<1>3. PersistOpens \/ PersistWrites \/ Answer \/ DeleteRefused \/ DeleteUnknown
        \/ DeleteRemoves \/ DeleteCannotRemove \/ DeleteErases => Counts
  BY <1>1 DEF PersistOpens, PersistWrites, Answer, DeleteRefused, DeleteUnknown,
      DeleteRemoves, DeleteCannotRemove, DeleteErases, bounds, Fault, NoFault
<1>4. DownloadUnpacks \/ UnCompress \/ DownloadFinds \/ SendUnknown \/ SendMissing
        \/ SendCannotOpen \/ SendFile \/ SendNothing \/ DownloadCleans => Counts
  BY <1>1 DEF DownloadUnpacks, UnCompress, DownloadFinds, SendUnknown, SendMissing,
      SendCannotOpen, SendFile, SendNothing, DownloadCleans, bounds, Fault, NoFault
<1>5. (\E r \in Request : Receive(r)) \/ TransferEnds \/ Crash \/ Restart \/ Tick
        \/ UNCHANGED vars => Counts
  BY <1>1 DEF Receive, TransferEnds, Crash, Restart, ReadTable, Tick, vars, bounds, Fault, NoFault
<1>6. Counts
  BY <1>2, <1>3, <1>4, <1>5 DEF Next, Handler
<1>. QED
  BY <1>1, <1>6 DEF Undisturbed

\* A file is something, and its content is not what stands for nothing.
LEMMA FileIsNotNoFile == ASSUME NEW file \in File PROVE file # NoFile
BY NamesAssumption DEF File, NoFile, Torn

\* While nothing is disturbed a step that could have failed did not.
LEMMA StepUndisturbed ==
    ASSUME TInv, Undisturbed', Fault \/ NoFault
    PROVE  ~Fault
BY NoFaultYet DEF TInv, Undisturbed

LEMMA StepLatest == TInv /\ Synced /\ Latest /\ [Next]_vars => Latest'
<1>. SUFFICES ASSUME TInv, Synced, Latest, [Next]_vars, Undisturbed' PROVE Latest'
  BY DEF Latest
<1>a. Undisturbed
  BY UndisturbedBefore
<1>b. \A n \in Names : ~Busy(n) => Current(n)
  BY <1>a DEF Latest
<1>c. ASSUME pc \notin {"write", "insert", "persist", "persist_write", "answer", "erase"}
      PROVE  \A n \in Names : ~Busy(n) /\ Current(n)
  BY <1>b, <1>c DEF Busy
<1>1. ASSUME NEW r \in Request, Receive(r) PROVE Latest'
  <2>1. r.op \in {"upload", "delete", "download", "list", "other"}
    BY DEF Request, Upload, Delete, Download, Plain
  <2>2. \A n \in Names : ~Busy(n) /\ ~Busy(n)'
    BY <1>1, <2>1 DEF Receive, Goto, Busy
  <2>. QED
    BY <1>1, <1>a, <2>1, <2>2, QuietLatest DEF Receive, Goto
<1>2. CASE HandlerThrows
  <2>1. /\ up /\ ~up' /\ pc' = "idle" /\ pc \in {"upload", "delete"}
        /\ UNCHANGED <<low, deep, disk, acked>>
    BY <1>2 DEF HandlerThrows, Stops, Goto, HeaderMissing, history
  <2>2. disk = table
    BY <1>a, <2>1 DEF Synced, Undisturbed
  <2>3. ASSUME NEW n \in Names PROVE Current(n)'
    <3>1. Current(n)
      BY <1>c, <2>1
    <3>. QED
      BY <2>1, <2>2, <3>1 DEF Current, Record, Dir
  <2>. QED
    BY <2>1, <2>3 DEF Latest
<1>3. CASE NotFound \/ ListShow \/ UploadRefused \/ UploadCannotOpen \/ DeleteRefused
           \/ DeleteUnknown \/ DeleteCannotRemove \/ SendUnknown \/ SendMissing
           \/ SendCannotOpen \/ SendNothing \/ TransferEnds
  <2>1. /\ pc' \in {"idle", "cleanup"}
        /\ pc \in {"other", "list", "upload", "delete", "send", "idle"}
        /\ UNCHANGED <<low, deep, disk, table, up, acked>>
    BY <1>3
    DEF NotFound, ListShow, UploadRefused, UploadCannotOpen, DeleteRefused, DeleteUnknown,
        TransferEnds, DeleteCannotRemove, SendUnknown, SendMissing, SendCannotOpen,
        SendNothing, history, files, Finish, Goto
  <2>2. \A n \in Names : ~Busy(n) /\ ~Busy(n)'
    BY <2>1 DEF Busy
  <2>. QED
    BY <1>a, <2>1, <2>2, QuietLatest
<1>4. CASE Tick \/ UNCHANGED vars
  <2>1. UNCHANGED <<low, deep, disk, table, up, acked, pc, req>>
    BY <1>4 DEF Tick, vars, files, history
  <2>. QED
    BY <1>a, <2>1, QuietLatest
<1>5. CASE UploadOpens \/ UploadWrites
  <2>1. /\ pc \in {"upload", "write"} /\ up /\ ~Fault
        /\ req.name \in Names /\ req.type \in {"low", "deep"}
        /\ \E file : WriteTo(req.type, req.name, file)
        /\ UNCHANGED <<disk, table, up, req>>
        /\ \A n \in Names \ {req.name} : acked'[n] = acked[n]
    <3>1. /\ pc \in {"upload", "write"} /\ up /\ ~Fault
          /\ \E file : WriteTo(req.type, req.name, file)
          /\ UNCHANGED <<disk, table, up, req>>
      BY <1>5, StepUndisturbed DEF UploadOpens, UploadWrites, history
    <3>2. req.name \in Names /\ req.type \in {"low", "deep"}
      BY <1>5 DEF TInv, Phases, Upload, UploadOpens, UploadWrites, HeaderMissing
    <3>3. \A n \in Names \ {req.name} : acked'[n] = acked[n]
      BY <1>5 DEF UploadOpens, UploadWrites, history, TInv, TypeOK
    <3>. QED
      BY <3>1, <3>2, <3>3
  <2>2. \A n \in Names \ {req.name} : low'[n] = low[n] /\ deep'[n] = deep[n]
    BY <2>1, WriteToFrame DEF TInv
  <2>3. pc' \in {"write", "insert"}
    BY <1>5 DEF UploadOpens, UploadWrites, Goto
  <2>4. ASSUME NEW n \in Names, ~Busy(n)' PROVE Current(n)'
    <3>1. n # req.name
      BY <2>1, <2>3, <2>4 DEF Busy
    <3>2. Current(n)
      BY <1>b, <2>1, <3>1 DEF Busy
    <3>. QED
      BY <2>1, <2>2, <3>1, <3>2 DEF Current, Record, Dir
  <2>5. ASSUME pc' = "insert" PROVE Dir(req.type)'[req.name].content = req.body
    <3>. DEFINE new == [Dir(req.type)[req.name] EXCEPT !.content = req.body, !.mtime = clock]
    <3>1. UploadWrites
      BY <1>5, <2>5 DEF UploadOpens, Goto
    <3>2. WriteTo(req.type, req.name, new)
      BY <2>1, <3>1 DEF UploadWrites
    <3>3. new.content = req.body
      BY <3>1 DEF TInv, Phases, UploadWrites, File
    <3>. HIDE DEF new
    <3>4. Dir(req.type)'[req.name] = new
      BY <2>1, <3>2, WriteToFrame DEF TInv
    <3>. QED
      BY <3>3, <3>4
  <2>. QED
    BY <2>1, <2>3, <2>4, <2>5 DEF Latest, Dir
<1>6. CASE UploadInserts
  <2>1. /\ pc = "insert" /\ pc' = "persist" /\ up
        /\ table' = [table EXCEPT ![req.name] =
                       NewStorageInfo(req.type, Dir(req.type)[req.name])]
        /\ UNCHANGED <<low, deep, disk, up, req, acked>>
    BY <1>6 DEF UploadInserts, Goto, files, history
  <2>2. /\ req.op = "upload" /\ req.name \in Names /\ req.body \in Contents
        /\ req.type \in {"low", "deep"} /\ Dir(req.type)[req.name] \in File
    BY <2>1 DEF TInv, Phases
  <2>3. Dir(req.type)[req.name].content = req.body
    BY <1>a, <2>1 DEF Latest
  <2>4. ASSUME NEW n \in Names, ~Busy(n)' PROVE Current(n)'
    <3>1. n # req.name
      BY <2>1, <2>4 DEF Busy
    <3>2. Current(n) /\ table'[n] = table[n]
      BY <1>b, <2>1, <3>1 DEF Busy, TInv, TypeOK, Table
    <3>. QED
      BY <2>1, <3>2 DEF Current, Record, Dir
  <2>5. Prepared'
    <3>1. table'[req.name] = NewStorageInfo(req.type, Dir(req.type)[req.name])
      BY <2>1, <2>2 DEF TInv, TypeOK, Table
    <3>2. /\ table'[req.name].type = req.type
          /\ table'[req.name].fsize = Size(req.body)
      BY <2>2, <2>3, <3>1, NamesAssumption DEF NewStorageInfo, FileSize, Torn
    <3>3. table'[req.name] # NoInfo
      BY <2>2, <3>2 DEF NoInfo
    <3>. QED
      BY <2>1, <2>2, <2>3, <3>2, <3>3, FileIsNotNoFile DEF Prepared, Known, Stored, Dir
  <2>. QED
    BY <2>1, <2>4, <2>5 DEF Latest
<1>7. CASE PersistOpens \/ PersistWrites
  <2>1. /\ pc \in {"persist", "persist_write"} /\ pc' \in {"persist_write", "answer"}
        /\ up
        /\ UNCHANGED <<low, deep, table, up, req, acked>>
    BY <1>7 DEF PersistOpens, PersistWrites, Goto, files, history
  <2>2. ASSUME NEW n \in Names, ~Busy(n)' PROVE Current(n)'
    <3>1. Current(n)
      BY <1>b, <2>1, <2>2 DEF Busy
    <3>. QED
      BY <2>1, <3>1 DEF Current, Record, Dir
  <2>. QED
    BY <1>a, <2>1, <2>2 DEF Latest, Prepared, Known, Stored, Dir
<1>8. CASE Answer
  <2>1. /\ pc = "answer" /\ pc' = "idle" /\ up
        /\ acked' = [acked EXCEPT ![req.name] =
                       IF req.op = "upload" THEN req.body ELSE "none"]
        /\ UNCHANGED <<low, deep, table, up>>
    BY <1>8 DEF Answer, Finish, Goto, files
  <2>2. /\ req.name \in Names /\ Prepared
        /\ (req.op = "upload" /\ req.body \in Contents) \/ req.op = "delete"
    BY <1>a, <2>1 DEF TInv, Phases, Latest
  <2>3. ASSUME NEW n \in Names PROVE Current(n)'
    <3>1. CASE n = req.name
      <4>1. acked'[n] = IF req.op = "upload" THEN req.body ELSE "none"
        BY <2>1, <2>2, <3>1 DEF TInv, TypeOK
      <4>2. req.op = "upload" => acked'[n] # "none"
        BY <2>2, <4>1, NamesAssumption
      <4>. QED
        BY <2>1, <2>2, <3>1, <4>1, <4>2 DEF Prepared, Current, Record, Known, Stored, Dir
    <3>2. CASE n # req.name
      <4>1. Current(n) /\ acked'[n] = acked[n]
        BY <1>b, <2>1, <3>2 DEF Busy, TInv, TypeOK
      <4>. QED
        BY <2>1, <4>1 DEF Current, Record, Dir
    <3>. QED
      BY <3>1, <3>2
  <2>. QED
    BY <2>1, <2>3 DEF Latest
<1>9. CASE DeleteRemoves \/ DeleteErases
  <2>1. /\ pc \in {"delete", "erase"} /\ pc' \in {"erase", "persist"} /\ up
        /\ pc' = "persist" => pc = "erase" /\ table' = [table EXCEPT ![req.name] = NoInfo]
        /\ UNCHANGED <<disk, up, req>>
    BY <1>9 DEF DeleteRemoves, DeleteErases, Goto
  <2>2. req.op = "delete" /\ req.name \in Names
    BY <1>9 DEF DeleteRemoves, DeleteErases, TInv, Phases, Delete
  <2>3. \A n \in Names \ {req.name} :
           /\ low'[n] = low[n] /\ deep'[n] = deep[n] /\ table'[n] = table[n]
           /\ acked'[n] = acked[n]
    <3>1. CASE DeleteRemoves
      <4>1. \A n \in Names \ {req.name} : low'[n] = low[n] /\ deep'[n] = deep[n]
        BY <2>2, <3>1, WriteToFrame DEF DeleteRemoves, TInv
      <4>. QED
        BY <3>1, <4>1 DEF DeleteRemoves, TInv, TypeOK
    <3>2. CASE DeleteErases
      BY <2>2, <3>2 DEF DeleteErases, files, history, TInv, TypeOK, Table
    <3>. QED
      BY <1>9, <3>1, <3>2
  <2>4. ASSUME NEW n \in Names, ~Busy(n)' PROVE Current(n)'
    <3>1. n # req.name
      BY <2>1, <2>4 DEF Busy
    <3>2. Current(n)
      BY <1>b, <2>1, <3>1 DEF Busy
    <3>. QED
      BY <2>1, <2>3, <3>1, <3>2 DEF Current, Record, Dir
  <2>5. pc' = "persist" => Prepared'
    BY <2>1, <2>2 DEF Prepared, Known, TInv, TypeOK, Table
  <2>. QED
    BY <2>1, <2>4, <2>5 DEF Latest
<1>10. CASE DownloadUnpacks \/ UnCompress
  <2>1. /\ pc \in {"download", "unpack"} /\ pc' \in {"unpack", "send"} /\ up /\ ~Fault
        /\ Packed(req.name)
        /\ UNCHANGED <<deep, disk, table, up, req, acked>>
    BY <1>10, StepUndisturbed DEF DownloadUnpacks, UnCompress, Goto, history, TInv, Phases
  <2>2. req.op = "download" /\ req.name \in Names
    BY <2>1 DEF TInv, Phases
  <2>3. \A n \in Names : ~Busy(n) /\ Current(n)
    BY <1>c, <2>1
  <2>4. \A n \in Names : n # req.name => low'[n] = low[n]
    BY <1>10, <2>1, <2>2 DEF DownloadUnpacks, UnCompress, TInv, TypeOK
  <2>5. ASSUME NEW n \in Names PROVE Current(n)'
    BY <2>1, <2>3, <2>4 DEF Packed, Current, Record, Dir
  <2>6. ASSUME pc' = "send"
        PROVE  low'[req.name] # NoFile /\ low'[req.name].content = acked[req.name]
    <3>1. /\ UnCompress /\ pc = "unpack"
          /\ low' = [low EXCEPT ![req.name].content = deep[req.name].content,
                                ![req.name].mtime = clock]
      BY <1>10, <2>1, <2>6 DEF DownloadUnpacks, UnCompress, Goto
    <3>2. deep[req.name].content = acked[req.name]
      BY <2>1, <2>2, <2>3 DEF Packed, Known, Current, Record, Dir
    <3>3. deep[req.name] \in File /\ low[req.name] \in File /\ clock \in 0..MaxClock
      BY <3>1 DEF TInv, TypeOK, Phases
    <3>4. low'[req.name] = [low[req.name] EXCEPT !.content = deep[req.name].content,
                                                 !.mtime = clock]
      BY <2>2, <3>1 DEF TInv, TypeOK
    <3>5. low'[req.name] \in File /\ low'[req.name].content = deep[req.name].content
      BY <3>3, <3>4 DEF File
    <3>. QED
      BY <3>2, <3>5, FileIsNotNoFile
  <2>. QED
    BY <2>1, <2>5, <2>6 DEF Latest
<1>11. CASE DownloadFinds
  <2>1. /\ pc = "download" /\ pc' = "send" /\ up
        /\ ~Packed(req.name) \/ deep[req.name] = NoFile
        /\ UNCHANGED <<low, deep, disk, table, up, req, acked>>
    BY <1>11 DEF DownloadFinds, Goto, files, history
  <2>2. req.name \in Names
    BY <2>1 DEF TInv, Phases
  <2>3. \A n \in Names : Current(n)
    BY <1>c, <2>1
  <2>4. ~Packed(req.name)'
    BY <2>1, <2>2, <2>3 DEF Packed, Known, Current, Record, Dir
  <2>5. \A n \in Names : Current(n)'
    BY <2>1, <2>3 DEF Current, Record, Dir
  <2>. QED
    BY <2>1, <2>4, <2>5 DEF Latest
<1>12. CASE SendFile
  <2>1. /\ pc = "send" /\ pc' \in {"idle", "cleanup"} /\ up
        /\ low[req.name] # NoFile
        /\ UNCHANGED <<deep, disk, table, up, req, acked>>
    BY <1>12 DEF SendFile, Goto
  <2>2. PICK t \in {low[req.name].atime, clock} : low' = [low EXCEPT ![req.name].atime = t]
    BY <1>12 DEF SendFile
  <2>3. req.name \in Names
    BY <2>1 DEF TInv, Phases
  <2>4. low[req.name] \in File
    BY <2>1, <2>3 DEF TInv, TypeOK
  <2>5. low'[req.name] \in File /\ low'[req.name].content = low[req.name].content
    BY <2>2, <2>3, <2>4 DEF TInv, TypeOK, File
  <2>6. \A n \in Names \ {req.name} : low'[n] = low[n]
    BY <2>2, <2>3 DEF TInv, TypeOK
  <2>7. ASSUME NEW n \in Names PROVE Current(n)'
    <3>1. Current(n)
      BY <1>c, <2>1
    <3>. QED
      BY <2>1, <2>3, <2>5, <2>6, <3>1, FileIsNotNoFile DEF Current, Record, Dir
  <2>. QED
    BY <2>1, <2>7 DEF Latest
<1>13. CASE DownloadCleans
  <2>1. /\ pc = "cleanup" /\ pc' = "idle" /\ up
        /\ WriteTo("low", req.name, NoFile)
        /\ UNCHANGED <<disk, table, up, req, acked>>
    BY <1>13, StepUndisturbed DEF DownloadCleans, Goto, history
  <2>2. req.name \in Names /\ Packed(req.name)
    BY <2>1 DEF TInv, Phases
  <2>3. /\ deep' = deep
        /\ \A n \in Names \ {req.name} : low'[n] = low[n]
    BY <2>1, <2>2, WriteToFrame DEF TInv
  <2>4. ASSUME NEW n \in Names PROVE Current(n)'
    <3>1. Current(n)
      BY <1>c, <2>1
    <3>. QED
      BY <2>1, <2>2, <2>3, <3>1 DEF Packed, Current, Record, Dir
  <2>. QED
    BY <2>1, <2>4 DEF Latest
<1>14. CASE Restart
  <2>1. /\ ~up /\ up' /\ pc' = pc /\ pc = "idle" /\ table' = disk
        /\ UNCHANGED <<low, deep, disk, acked>>
    <3>1. ~Fault
      BY <1>14, StepUndisturbed DEF Restart, ReadTable
    <3>. QED
      BY <1>14, <3>1 DEF Restart, ReadTable, TInv, Phases, files, history
  <2>2. ASSUME NEW n \in Names PROVE Current(n)'
    <3>1. Current(n)
      BY <1>c, <2>1
    <3>. QED
      BY <2>1, <3>1 DEF Current, Record, Dir
  <2>. QED
    BY <2>1, <2>2 DEF Latest
<1>15. CASE Crash
  BY <1>15, <1>a DEF Crash, Undisturbed
<1>. QED
  BY <1>1, <1>2, <1>3, <1>4, <1>5, <1>6, <1>7, <1>8, <1>9, <1>10, <1>11, <1>12, <1>13,
     <1>14, <1>15 DEF Next, Handler

LEMMA LatestHolds == Spec => [](TInv /\ Synced /\ Latest)
<1>1. Init => Synced /\ Latest
  BY DEF Init, Synced, Latest, Busy, Current, Record, EmptyTable
<1>. QED
  BY <1>1, InitTyped, StepTyped, StepSynced, StepLatest, PTL DEF Spec

\* While nothing crashes and no file operation fails, what is listed between
\* requests is what was uploaded and not deleted since, and it is all there.
THEOREM ListedFilesExistHolds == Spec => []ListedFilesExist
<1>1. TInv /\ Latest => ListedFilesExist
  <2>1. ASSUME TInv, Latest, Undisturbed, Idle, NEW n \in Names
        PROVE  /\ Known(n) <=> acked[n] # "none"
               /\ Known(n) => /\ Stored(n) # NoFile
                              /\ FileSize(Stored(n)) = table[n].fsize
    <3>1. Current(n) /\ Record(n) = table[n]
      BY <2>1 DEF Latest, Busy, Record, Idle
    <3>2. acked[n] \in Contents \cup {"none"}
      BY <2>1 DEF TInv, TypeOK
    <3>. QED
      BY <3>1, <3>2, NamesAssumption DEF Current, Known, Stored, FileSize, Torn
  <2>. QED
    BY <2>1 DEF ListedFilesExist
<1>. QED
  BY <1>1, LatestHolds, PTL

\* What a download of a listed file has been answered.
Served ==
    Undisturbed /\ req.op = "download" /\ acked[req.name] # "none" =>
        \/ replies = <<>>
        \/ /\ pc \in {"idle", "cleanup"}
           /\ \E code \in {"200", "206"} :
                replies = <<[code |-> code, body |-> acked[req.name]]>>

LEMMA StepServed == TInv /\ Latest /\ Served /\ [Next]_vars => Served'
<1>. SUFFICES ASSUME TInv, Latest, Served, [Next]_vars,
                     Undisturbed', req'.op = "download", acked'[req'.name] # "none"
              PROVE  Served'
  BY DEF Served
<1>a. Undisturbed
  BY UndisturbedBefore
<1>1. ASSUME NEW r \in Request, Receive(r) PROVE Served'
  BY <1>1 DEF Receive, Served
<1>2. CASE Restart
  BY <1>2 DEF Restart, NoRequest
<1>3. CASE NotFound \/ ListShow \/ UploadRefused \/ UploadOpens \/ UploadCannotOpen
           \/ UploadWrites \/ UploadInserts \/ PersistOpens \/ PersistWrites \/ Answer
           \/ DeleteRefused \/ DeleteUnknown \/ DeleteRemoves \/ DeleteCannotRemove
           \/ DeleteErases \/ HandlerThrows
  <2>1. /\ req' = req
        /\ pc \in {"other", "list", "upload", "write", "insert", "persist",
                   "persist_write", "answer", "delete", "erase"}
    BY <1>3
    DEF NotFound, ListShow, UploadRefused, UploadOpens, UploadCannotOpen, UploadWrites,
        UploadInserts, PersistOpens, PersistWrites, Answer, DeleteRefused, DeleteUnknown,
        DeleteRemoves, DeleteCannotRemove, DeleteErases, HandlerThrows, HeaderMissing
  <2>2. req.op # "download"
    BY <2>1 DEF TInv, Phases, Upload, Delete
  <2>. QED
    BY <2>1, <2>2
<1>4. CASE DownloadUnpacks \/ UnCompress \/ DownloadFinds \/ DownloadCleans
           \/ TransferEnds \/ Tick \/ UNCHANGED vars
  <2>1. /\ UNCHANGED <<req, replies, acked>>
        /\ pc \in {"idle", "cleanup"} => pc' \in {"idle", "cleanup"}
    BY <1>4
    DEF DownloadUnpacks, UnCompress, DownloadFinds, DownloadCleans, TransferEnds, Tick,
        vars, history, Goto
  <2>. QED
    BY <1>a, <2>1 DEF Served
<1>5. CASE SendUnknown \/ SendMissing \/ SendCannotOpen \/ SendFile \/ SendNothing
  <2>1. pc = "send" /\ up /\ UNCHANGED <<req, acked>> /\ ~Fault
    BY <1>5, StepUndisturbed
    DEF SendUnknown, SendMissing, SendCannotOpen, SendFile, SendNothing, history,
        Undisturbed
  <2>2. req.name \in Names /\ replies = <<>>
    BY <1>a, <2>1 DEF TInv, Phases, Served
  <2>3. /\ Known(req.name)
        /\ low[req.name] # NoFile /\ low[req.name].content = acked[req.name]
    <3>1. Current(req.name) /\ Record(req.name) = table[req.name]
      BY <1>a, <2>1, <2>2 DEF Latest, Busy, Record
    <3>2. Known(req.name)
      BY <2>1, <3>1 DEF Current, Known
    <3>3. table[req.name].type \in {"low", "deep"}
      BY <2>2, <3>2 DEF TInv, TypeOK, Table, Info, Known
    <3>4. CASE Packed(req.name)
      BY <1>a, <2>1, <3>2, <3>4 DEF Latest
    <3>5. CASE ~Packed(req.name)
      BY <3>1, <3>2, <3>3, <3>5 DEF Packed, Current, Known, Dir
    <3>. QED
      BY <3>2, <3>4, <3>5
  <2>4. SendFile
    BY <1>5, <2>1, <2>3 DEF SendUnknown, SendMissing, SendCannotOpen, SendNothing
  <2>5. /\ pc' \in {"idle", "cleanup"}
        /\ \E code \in {"200", "206"} :
             replies' = <<[code |-> code, body |-> acked[req.name]]>>
    BY <2>2, <2>3, <2>4 DEF SendFile, Goto
  <2>. QED
    BY <2>1, <2>5 DEF Served
<1>6. CASE Crash
  BY <1>6, <1>a DEF Crash, Undisturbed
<1>. QED
  BY <1>1, <1>2, <1>3, <1>4, <1>5, <1>6 DEF Next, Handler

\* While nothing crashes and no file operation fails, a download of a listed
\* file carries what the last acknowledged upload of it stored.
THEOREM DownloadReturnsLatestHolds == Spec => []DownloadReturnsLatest
<1>1. Init => Served
  BY DEF Init, Served
<1>2. Served => DownloadReturnsLatest
  BY DEF Served, DownloadReturnsLatest
<1>. QED
  BY <1>1, <1>2, InitTyped, StepTyped, LatestHolds, StepServed, PTL DEF Spec

-----------------------------------------------------------------------------
(* Replies *)

\* A deep file that could not be unpacked was answered twice.
AnsweredTwice ==
    /\ ~Undisturbed
    /\ req.op = "download" /\ Packed(req.name) /\ low[req.name] = NoFile
    /\ replies = <<Reply("500"), Reply("404")>>

\* How much has been answered, where the handler is and when it has ended.
Answered ==
    up =>
        /\ pc \notin {"idle", "cleanup"} => replies = <<>>
        /\ pc = "idle" /\ req = NoRequest => replies = <<>>
        /\ pc = "cleanup" => \E answer : replies = <<answer>>
        /\ pc = "idle" /\ req # NoRequest =>
             (\E answer : replies = <<answer>>) \/ AnsweredTwice

\* A reply after another one makes two.
LEMMA TwoReplies == ASSUME NEW a, NEW b PROVE <<>> \o <<a>> \o <<b>> = <<a, b>>
<1>. DEFINE first == <<a>>  second == <<b>>  S == {a, b}
<1>1. /\ Len(first) = 1 /\ first[1] = a /\ Len(second) = 1 /\ second[1] = b
      /\ first \in Seq(S) /\ second \in Seq(S)
      /\ <<>> \o <<a>> = first
  OBVIOUS
<1>2. <<a, b>> \in Seq(S) /\ Len(<<a, b>>) = 2 /\ <<a, b>>[1] = a /\ <<a, b>>[2] = b
  OBVIOUS
<1>. HIDE DEF first, second, S
<1>3. /\ first \o second \in Seq(S) /\ Len(first \o second) = Len(first) + Len(second)
      /\ \A i \in 1 .. Len(first) + Len(second) :
           (first \o second)[i] = IF i <= Len(first) THEN first[i] ELSE second[i - Len(first)]
  BY <1>1, ConcatProperties, Zenon
<1>4. /\ Len(first \o second) = 2
      /\ (first \o second)[1] = a /\ (first \o second)[2] = b
  BY <1>1, <1>3
<1>5. first \o second = <<a, b>>
  <2>. DEFINE both == first \o second  pair == <<a, b>>
  <2>1. both \in Seq(S) /\ Len(both) = 2 /\ both[1] = a /\ both[2] = b
    BY <1>3, <1>4
  <2>2. pair \in Seq(S) /\ Len(pair) = 2 /\ pair[1] = a /\ pair[2] = b
    BY <1>2
  <2>. HIDE DEF both, pair
  <2>3. \A i \in 1 .. Len(both) : both[i] = pair[i]
    BY <2>1, <2>2
  <2>4. both = pair
    BY <2>1, <2>2, <2>3, SeqEqual
  <2>. QED
    BY <2>4 DEF both, pair
<1>. QED
  BY <1>1, <1>5 DEF second

LEMMA StepAnswered == TInv /\ Latest /\ Answered /\ [Next]_vars => Answered'
<1>. SUFFICES ASSUME TInv, Latest, Answered, [Next]_vars, up' PROVE Answered'
  BY DEF Answered
<1>1. ASSUME NEW r \in Request, Receive(r) PROVE Answered'
  <2>1. pc' \in {"upload", "delete", "download", "list", "other"} /\ replies' = <<>>
    BY <1>1 DEF Receive, Goto, Request, Upload, Delete, Download, Plain
  <2>. QED
    BY <2>1 DEF Answered
<1>2. CASE HandlerThrows \/ Crash
  BY <1>2 DEF HandlerThrows, Crash, Stops
<1>3. CASE NotFound \/ ListShow \/ UploadRefused \/ UploadCannotOpen \/ Answer
           \/ DeleteRefused \/ DeleteUnknown \/ DeleteCannotRemove \/ SendUnknown
           \/ SendCannotOpen \/ SendNothing
  <2>1. /\ up /\ pc \notin {"idle", "cleanup"} /\ pc' \in {"idle", "cleanup"}
        /\ req' = req /\ \E answer : replies' = Append(replies, answer)
    BY <1>3
    DEF NotFound, ListShow, UploadRefused, UploadCannotOpen, Answer, DeleteRefused,
        DeleteUnknown, DeleteCannotRemove, SendUnknown, SendCannotOpen, SendNothing,
        Finish, Send, Goto
  <2>2. req # NoRequest
    BY <2>1 DEF TInv, TypeOK, Phases, NoRequest, Upload, Delete
  <2>3. \E answer : replies' = <<answer>>
    BY <2>1 DEF Answered
  <2>. QED
    BY <2>1, <2>2, <2>3 DEF Answered
<1>4. CASE UploadOpens \/ UploadWrites \/ UploadInserts \/ PersistOpens \/ PersistWrites
           \/ DeleteRemoves \/ DeleteErases \/ DownloadUnpacks \/ UnCompress
           \/ DownloadFinds
  <2>1. /\ up /\ pc \notin {"idle", "cleanup"} /\ pc' \notin {"idle", "cleanup"}
        /\ replies' = replies
    BY <1>4
    DEF UploadOpens, UploadWrites, UploadInserts, PersistOpens, PersistWrites,
        DeleteRemoves, DeleteErases, DownloadUnpacks, UnCompress, DownloadFinds, Goto
  <2>. QED
    BY <2>1 DEF Answered
<1>5. CASE SendMissing
  <2>1. /\ pc = "send" /\ pc' = "idle" /\ up /\ Known(req.name) /\ low[req.name] = NoFile
        /\ UNCHANGED <<low, table, req>>
        /\ replies' = replies \o (IF Packed(req.name) THEN <<Reply("500")>> ELSE <<>>)
                              \o <<Reply("404")>>
    BY <1>5 DEF SendMissing, Goto, files
  <2>2. req.op = "download" /\ replies = <<>>
    BY <2>1 DEF TInv, Phases, Answered
  <2>a. req'.op = "download" /\ req' # NoRequest
    BY <2>1, <2>2 DEF NoRequest
  <2>3. CASE Packed(req.name)
    <3>1. ~Undisturbed
      BY <2>1, <2>3 DEF Latest
    <3>2. ~Undisturbed'
      BY <3>1, UndisturbedBefore
    <3>3. replies' = <<Reply("500"), Reply("404")>>
      <4>1. replies' = <<>> \o <<Reply("500")>> \o <<Reply("404")>>
        BY <2>1, <2>2, <2>3
      <4>. QED
        BY <4>1, TwoReplies
    <3>4. AnsweredTwice'
      BY <2>1, <2>a, <2>3, <3>2, <3>3 DEF AnsweredTwice, Packed, Known
    <3>. QED
      BY <2>1, <2>a, <3>4 DEF Answered
  <2>4. CASE ~Packed(req.name)
    <3>1. replies' = <<Reply("404")>>
      BY <2>1, <2>2, <2>4
    <3>2. \E answer : replies' = <<answer>>
      BY <3>1
    <3>. QED
      BY <2>1, <2>a, <3>2 DEF Answered
  <2>. QED
    BY <2>3, <2>4
<1>6. CASE SendFile
  <2>1. /\ pc = "send" /\ up /\ req' = req /\ pc' \in {"idle", "cleanup"}
        /\ \E answer : replies' = Append(replies, answer)
    BY <1>6 DEF SendFile, Goto
  <2>2. req # NoRequest /\ replies = <<>>
    BY <2>1 DEF TInv, Phases, NoRequest, Answered
  <2>. QED
    BY <2>1, <2>2 DEF Answered
<1>7. CASE DownloadCleans
  <2>1. pc = "cleanup" /\ pc' = "idle" /\ up /\ UNCHANGED <<req, replies>>
    BY <1>7 DEF DownloadCleans, Goto
  <2>2. req # NoRequest
    BY <2>1 DEF TInv, Phases, NoRequest
  <2>. QED
    BY <2>1, <2>2 DEF Answered
<1>8. CASE TransferEnds \/ Tick \/ UNCHANGED vars
  <2>1. UNCHANGED <<up, pc, req, replies, low, table, crashes, faults>>
    BY <1>8 DEF TransferEnds, Tick, vars, files, bounds
  <2>. QED
    BY <2>1 DEF Answered, AnsweredTwice, Undisturbed, Packed, Known
<1>9. CASE Restart
  BY <1>9 DEF Restart, TInv, Phases, Answered
<1>. QED
  BY <1>1, <1>2, <1>3, <1>4, <1>5, <1>6, <1>7, <1>8, <1>9 DEF Next, Handler

\* Whatever crashes or fails, a request whose handler has ended was answered,
\* and twice only if it is the download of a deep file that could not be
\* unpacked and has no namesake.
THEOREM OneReplyHolds == Spec => []OneReply
<1>1. Init => Answered
  BY DEF Init, Answered
<1>2. Answered => OneReply
  <2>1. CASE ~up
    BY <2>1 DEF OneReply, Idle
  <2>2. CASE up /\ replies = <<>>
    <3>1. Len(replies) = 0
      BY <2>2
    <3>2. replies # <<Reply("500"), Reply("404")>> /\ \A answer : replies # <<answer>>
      BY <2>2
    <3>. QED
      BY <2>2, <3>1, <3>2 DEF Answered, AnsweredTwice, OneReply, Idle
  <2>3. CASE \E answer : replies = <<answer>>
    <3>1. Len(replies) = 1 /\ replies # <<>>
      BY <2>3
    <3>. QED
      BY <3>1 DEF OneReply
  <2>4. CASE AnsweredTwice
    <3>1. replies # <<>>
      BY <2>4 DEF AnsweredTwice
    <3>. QED
      BY <2>4, <3>1 DEF AnsweredTwice, OneReply
  <2>5. ASSUME Answered, up
        PROVE  replies = <<>> \/ (\E answer : replies = <<answer>>) \/ AnsweredTwice
    BY <2>5 DEF Answered
  <2>. QED
    BY <2>1, <2>2, <2>3, <2>4, <2>5
<1>. QED
  BY <1>1, <1>2, InitTyped, StepTyped, LatestHolds, StepAnswered, PTL DEF Spec

-----------------------------------------------------------------------------
(* Undisturbed, the service implements ObjectStore. *)

LEMMA HoldsElsewhere ==
    ASSUME NEW n \in Names, low'[n] = low[n], deep'[n] = deep[n],
           Record(n)' = Record(n), ~Busy(n), ~Busy(n)'
    PROVE  Holds(n)' = Holds(n)
BY DEF Holds, Dir

\* A step between two stages that are not "applied", of the files and records of
\* which nothing is seen.
LEMMA HoldsAll ==
    ASSUME \A n \in Names : Record(n)' = Record(n),
           pc \notin {"write", "insert", "persist", "persist_write", "answer", "erase"},
           pc' \notin {"write", "insert", "persist", "persist_write", "answer", "erase"},
           UNCHANGED <<low, deep>>
    PROVE  \A n \in Names : Holds(n)' = Holds(n)
BY HoldsElsewhere DEF Busy

\* A step of an upload or a deletion that has begun, about its own name only.
LEMMA HoldsApplied ==
    ASSUME pc \in {"write", "insert", "persist", "persist_write", "answer", "erase"},
           pc' \in {"write", "insert", "persist", "persist_write", "answer", "erase"},
           req' = req,
           \A n \in Names \ {req.name} :
               low'[n] = low[n] /\ deep'[n] = deep[n] /\ Record(n)' = Record(n)
    PROVE  \A n \in Names : Holds(n)' = Holds(n)
<1>1. ASSUME NEW n \in Names, n # req.name
      PROVE  Holds(n)' = Holds(n)
  BY <1>1, HoldsElsewhere DEF Busy
<1>2. ASSUME NEW n \in Names, n = req.name
      PROVE  Holds(n)' = Holds(n)
  BY <1>2 DEF Busy, Holds
<1>. QED
  BY <1>1, <1>2

LEMMA StoreStutters ==
    ASSUME \A n \in Names : Holds(n)' = Holds(n),
           Stage' = Stage, Stage = "none" \/ req' = req,
           (IF up' THEN replies' ELSE <<>>) = (IF up THEN replies ELSE <<>>)
    PROVE  UNCHANGED Store!vars
BY DEF Store!vars

\* A step that answers the request and changes nothing that is stored.
LEMMA StoreEnds ==
    ASSUME NEW answer, up', pc' \in {"idle", "cleanup"}, replies' = answer,
           \A n \in Names : Holds(n)' = Holds(n)
    PROVE  /\ Store!Ends(answer)
           /\ [n \in Names |-> Holds(n)]' = [n \in Names |-> Holds(n)]
BY DEF Store!Ends, Store!NoRequest, NoRequest, Stage

LEMMA StoreTaken ==
    ASSUME pc \in {"upload", "delete", "download", "send", "list", "other"}
    PROVE  /\ Stage = "taken"
           /\ (IF Stage = "none" THEN NoRequest ELSE req) = req
           /\ \A op : req.op = op => Store!Taken(op)
BY DEF Stage, Store!Taken

LEMMA StoreReceives ==
    ASSUME TInv, NEW r \in Request, Receive(r)
    PROVE  Store!Take
<1>1. /\ up /\ up' /\ pc = "idle" /\ pc' = r.op /\ req' = r /\ replies' = <<>>
      /\ UNCHANGED <<low, deep, table>>
  BY DEF Receive, Goto
<1>2. r.op \in {"upload", "delete", "download", "list", "other"}
  BY DEF Request, Upload, Delete, Download, Plain
<1>3. \A n \in Names : Holds(n)' = Holds(n)
  BY <1>1, <1>2, HoldsAll DEF Record
<1>4. Stage = "none" /\ Stage' = "taken"
  BY <1>1, <1>2 DEF Stage
<1>. QED
  BY <1>1, <1>2, <1>3, <1>4 DEF Store!Take

LEMMA StoreBreaks ==
    ASSUME TInv, Synced, Undisturbed, HandlerThrows
    PROVE  Store!Breaks
<1>1. /\ up /\ ~up' /\ pc' = "idle" /\ pc \in {"upload", "delete"}
      /\ UNCHANGED <<low, deep, disk>>
      /\ req.name = "missing" \/ (pc = "upload" /\ req.type = "missing")
      /\ pc = "upload" => req.body # "empty"
  BY DEF HandlerThrows, HeaderMissing, Stops, Goto
<1>2. disk = table
  BY <1>1 DEF Synced, Undisturbed
<1>3. \A n \in Names : Holds(n)' = Holds(n)
  BY <1>1, <1>2, HoldsAll DEF Record
<1>4. /\ pc = "upload" => req.op = "upload" /\ req.body \in Contents
      /\ pc = "delete" => req.op = "delete"
  BY <1>1 DEF TInv, Phases, Upload, Delete
<1>5. Store!Ends(<<>>)
  BY <1>1 DEF Store!Ends, Store!NoRequest, NoRequest, Stage
<1>. QED
  BY <1>1, <1>3, <1>4, <1>5, StoreTaken DEF Store!Breaks

\* The steps that answer a request without looking at what is stored.
LEMMA StoreRefuses ==
    ASSUME TInv, Answered
    PROVE  /\ NotFound => Store!NotFound
           /\ ListShow => Store!List
           /\ UploadRefused => Store!Refuse
           /\ DeleteRefused => Store!RefuseRemoval
<1>1. ASSUME NotFound \/ ListShow \/ UploadRefused \/ DeleteRefused
      PROVE  /\ up /\ up' /\ pc \in {"other", "list", "upload", "delete"} /\ pc' = "idle"
             /\ replies = <<>>
             /\ \A n \in Names : Holds(n)' = Holds(n)
  <2>1. /\ up /\ up' /\ pc \in {"other", "list", "upload", "delete"} /\ pc' = "idle"
        /\ UNCHANGED <<low, deep, table>>
    BY <1>1 DEF NotFound, ListShow, UploadRefused, DeleteRefused, Finish, Goto, files
  <2>2. replies = <<>>
    BY <2>1 DEF Answered
  <2>. QED
    BY <2>1, <2>2, HoldsAll DEF Record
<1>2. ASSUME NotFound PROVE Store!NotFound
  <2>1. pc = "other" /\ req.op = "other"
    BY <1>2 DEF NotFound, TInv, Phases
  <2>2. replies' = <<Store!Reply("404", "none")>>
    BY <1>1, <1>2 DEF NotFound, Finish, Send, Reply, Store!Reply
  <2>. QED
    BY <1>1, <1>2, <2>1, <2>2, StoreTaken, StoreEnds DEF Store!NotFound
<1>3. ASSUME ListShow PROVE Store!List
  <2>1. pc = "list" /\ req.op = "list"
    BY <1>3 DEF ListShow, TInv, Phases
  <2>2. replies' = <<Store!Reply("200", "page")>>
    BY <1>1, <1>3 DEF ListShow, Store!Reply
  <2>. QED
    BY <1>1, <1>3, <2>1, <2>2, StoreTaken, StoreEnds DEF Store!List
<1>4. ASSUME UploadRefused PROVE Store!Refuse
  <2>1. /\ pc = "upload" /\ req \in Upload
        /\ \/ req.body = "empty"
           \/ req.name # "missing" /\ req.type = "other"
    BY <1>4 DEF UploadRefused, TInv, Phases
  <2>2. /\ req.op = "upload"
        /\ \/ req.body \notin Contents
           \/ req.name \in Names /\ req.type = "other"
    BY <2>1, NamesAssumption DEF Upload
  <2>3. replies' = <<Store!Reply("400", "none")>>
    <3>1. replies' = Append(replies, Reply("400"))
      BY <1>4 DEF UploadRefused, Finish, Send
    <3>2. replies = <<>>
      BY <1>1, <1>4
    <3>. QED
      BY <3>1, <3>2 DEF Reply, Store!Reply
  <2>. QED
    BY <1>1, <1>4, <2>1, <2>2, <2>3, StoreTaken, StoreEnds DEF Store!Refuse
<1>5. ASSUME DeleteRefused PROVE Store!RefuseRemoval
  <2>1. pc = "delete" /\ req.op = "delete" /\ req.name = "empty"
    BY <1>5 DEF DeleteRefused, TInv, Phases, Delete
  <2>2. replies' = <<Store!Reply("400", "none")>>
    <3>1. replies' = Append(replies, Reply("400")) /\ replies = <<>>
      BY <1>1, <1>5 DEF DeleteRefused, Finish, Send
    <3>. QED
      BY <3>1 DEF Reply, Store!Reply
  <2>. QED
    BY <1>1, <1>5, <2>1, <2>2, StoreTaken, StoreEnds DEF Store!RefuseRemoval
<1>. QED
  BY <1>2, <1>3, <1>4, <1>5

\* An upload takes effect when the file is opened, ...
LEMMA StorePuts ==
    ASSUME TInv, UploadOpens
    PROVE  Store!Put
<1>1. /\ up /\ pc = "upload" /\ pc' = "write" /\ UNCHANGED <<table, up, req, replies>>
      /\ WriteTo(req.type, req.name, OpenedForWriting(Dir(req.type)[req.name]))
  BY DEF UploadOpens, Goto
<1>2. /\ req.op = "upload" /\ req.name \in Names /\ req.body \in Contents
      /\ req.type \in {"low", "deep"}
  BY <1>1, NamesAssumption DEF UploadOpens, HeaderMissing, TInv, Phases, Upload
<1>3. ASSUME NEW n \in Names, n # req.name
      PROVE  Holds(n)' = Holds(n)
  <2>1. low'[n] = low[n] /\ deep'[n] = deep[n]
    BY <1>1, <1>2, <1>3, WriteToFrame DEF TInv
  <2>. QED
    BY <1>1, <1>3, <2>1, HoldsElsewhere DEF Busy, Record
<1>4. Holds(req.name)' = req.body
  BY <1>1, <1>2 DEF Holds, Busy
<1>5. [n \in Names |-> Holds(n)]' = [[n \in Names |-> Holds(n)] EXCEPT ![req.name] = req.body]
  BY <1>1, <1>2, <1>3, <1>4
<1>6. Stage' = "applied"
  BY <1>1 DEF Stage
<1>. QED
  BY <1>1, <1>2, <1>5, <1>6, StoreTaken DEF Store!Put

\* ... a deletion when it is removed.
LEMMA StoreRemoves ==
    ASSUME TInv, Latest, Undisturbed, DeleteRemoves
    PROVE  Store!Remove
<1>1. /\ up /\ pc = "delete" /\ pc' = "erase" /\ UNCHANGED <<table, up, req, replies>>
      /\ Known(req.name) /\ WriteTo(table[req.name].type, req.name, NoFile)
  BY DEF DeleteRemoves, Goto
<1>2. req.op = "delete" /\ req.name \in Names
  BY <1>1 DEF DeleteRemoves, TInv, Phases, Delete
<1>3. ASSUME NEW n \in Names, n # req.name
      PROVE  Holds(n)' = Holds(n)
  <2>1. low'[n] = low[n] /\ deep'[n] = deep[n]
    BY <1>1, <1>2, <1>3, WriteToFrame DEF TInv
  <2>. QED
    BY <1>1, <1>3, <2>1, HoldsElsewhere DEF Busy, Record
<1>4. Holds(req.name)' = "none"
  BY <1>1, <1>2 DEF Holds, Busy
<1>5. Holds(req.name) # "none"
  <2>1. ~Busy(req.name) /\ Record(req.name) # NoInfo
    BY <1>1 DEF Busy, Record, Known
  <2>2. Current(req.name)
    BY <1>2, <2>1 DEF Latest
  <2>. QED
    BY <2>1, <2>2 DEF Current, Holds
<1>6. [n \in Names |-> Holds(n)]' = [[n \in Names |-> Holds(n)] EXCEPT ![req.name] = "none"]
  BY <1>1, <1>2, <1>3, <1>4
<1>7. Stage' = "applied"
  BY <1>1 DEF Stage
<1>. QED
  BY <1>1, <1>2, <1>5, <1>6, <1>7, StoreTaken DEF Store!Remove

LEMMA StoreKnowsNot ==
    ASSUME TInv, Answered, DeleteUnknown
    PROVE  Store!RemoveUnknown
<1>1. /\ up /\ up' /\ pc = "delete" /\ pc' = "idle" /\ ~Known(req.name)
      /\ replies' = Append(replies, Reply("404"))
      /\ UNCHANGED <<low, deep, table>>
  BY DEF DeleteUnknown, Finish, Send, Goto, files
<1>2. req.op = "delete" /\ req.name \in Names
  BY <1>1 DEF DeleteUnknown, TInv, Phases, Delete
<1>3. \A n \in Names : Holds(n)' = Holds(n)
  BY <1>1, HoldsAll DEF Record
<1>4. Holds(req.name) = "none"
  BY <1>1 DEF Holds, Busy, Record, Known
<1>5. replies' = <<Store!Reply("404", "none")>>
  BY <1>1 DEF Answered, Reply, Store!Reply
<1>. QED
  BY <1>1, <1>2, <1>3, <1>4, <1>5, StoreTaken, StoreEnds DEF Store!RemoveUnknown

\* The steps between the first change and the answer.
LEMMA StoreWorks ==
    ASSUME TInv, UploadWrites \/ UploadInserts \/ DeleteErases \/ PersistOpens \/ PersistWrites
    PROVE  UNCHANGED Store!vars
<1>1. /\ up /\ UNCHANGED <<up, req, replies>>
      /\ pc \in {"write", "insert", "persist", "persist_write", "erase"}
      /\ pc' \in {"insert", "persist", "persist_write", "answer"}
  BY DEF UploadWrites, UploadInserts, DeleteErases, PersistOpens, PersistWrites, Goto
<1>2. req.name \in Names
  BY <1>1 DEF TInv, Phases
<1>3. ASSUME NEW n \in Names \ {req.name}
      PROVE  low'[n] = low[n] /\ deep'[n] = deep[n] /\ Record(n)' = Record(n)
  <2>1. CASE UploadWrites
    <3>1. table' = table /\ (UNCHANGED <<low, deep>> \/ \E file : WriteTo(req.type, req.name, file))
      BY <2>1 DEF UploadWrites, files
    <3>. QED
      BY <1>1, <1>2, <3>1, WriteToFrame DEF TInv, Record
  <2>2. CASE UploadInserts \/ DeleteErases
    <3>1. UNCHANGED <<low, deep>> /\ \E info : table' = [table EXCEPT ![req.name] = info]
      BY <2>2 DEF UploadInserts, DeleteErases, files
    <3>. QED
      BY <1>1, <3>1 DEF TInv, TypeOK, Table, Record
  <2>3. CASE PersistOpens \/ PersistWrites
    BY <1>1, <2>3 DEF PersistOpens, PersistWrites, files, Record
  <2>. QED
    BY <2>1, <2>2, <2>3
<1>4. \A n \in Names : Holds(n)' = Holds(n)
  BY <1>1, <1>3, HoldsApplied
<1>5. Stage = "applied" /\ Stage' = "applied"
  BY <1>1 DEF Stage
<1>. QED
  BY <1>1, <1>4, <1>5, StoreStutters

LEMMA StoreAnswers ==
    ASSUME TInv, Latest, Answered, Undisturbed, Answer
    PROVE  Store!Done
<1>1. /\ up /\ up' /\ pc = "answer" /\ pc' = "idle"
      /\ replies' = Append(replies, Reply("200"))
      /\ UNCHANGED <<low, deep, table>>
  BY DEF Answer, Finish, Send, Goto, files
<1>2. /\ req.name \in Names
      /\ req.op = "upload" \/ req.op = "delete"
      /\ Prepared
  BY <1>1 DEF TInv, Phases, Latest
<1>3. ASSUME NEW n \in Names
      PROVE  Holds(n)' = Holds(n)
  <2>1. CASE n # req.name
    BY <1>1, <2>1, HoldsElsewhere DEF Busy, Record
  <2>2. CASE n = req.name
    <3>1. Holds(n) = IF req.op = "upload" THEN req.body ELSE "none"
      BY <1>1, <2>2 DEF Holds, Busy
    <3>2. Holds(n)' = IF table[n] = NoInfo THEN "none" ELSE Dir(table[n].type)[n].content
      BY <1>1 DEF Holds, Busy, Record, Dir
    <3>. QED
      BY <1>2, <2>2, <3>1, <3>2 DEF Prepared, Known, Stored
  <2>. QED
    BY <2>1, <2>2
<1>4. replies' = <<Store!Reply("200", "none")>>
  BY <1>1 DEF Answered, Reply, Store!Reply
<1>5. Stage = "applied"
  BY <1>1 DEF Stage
<1>. QED
  BY <1>1, <1>3, <1>4, <1>5, StoreEnds DEF Store!Done

\* A listed file is served with what is stored under its name.
LEMMA StoreSends ==
    ASSUME TInv, Latest, Answered, Undisturbed, Undisturbed',
           SendUnknown \/ SendMissing \/ SendCannotOpen \/ SendFile \/ SendNothing
    PROVE  Store!Get \/ Store!GetUnknown
<1>1. /\ pc = "send" /\ up /\ up' /\ pc' \in {"idle", "cleanup"} /\ ~Fault
      /\ UNCHANGED <<deep, table>>
  BY StepUndisturbed
  DEF SendUnknown, SendMissing, SendCannotOpen, SendFile, SendNothing, Finish, Goto, files,
      Undisturbed
<1>2. req.op = "download" /\ req.name \in Names /\ replies = <<>>
  BY <1>1 DEF TInv, Phases, Answered
<1>3. ~Busy(req.name) /\ Current(req.name) /\ Record(req.name) = table[req.name]
  BY <1>1, <1>2 DEF Latest, Busy, Record
<1>4. CASE ~Known(req.name)
  <2>1. SendUnknown
    BY <1>1, <1>4 DEF SendUnknown, SendMissing, SendCannotOpen, SendFile, SendNothing
  <2>2. replies' = <<Store!Reply("200", "directory")>> /\ UNCHANGED low
    BY <1>2, <2>1 DEF SendUnknown, Store!Reply, files
  <2>3. \A n \in Names : Holds(n)' = Holds(n)
    BY <1>1, <2>2, HoldsAll DEF Record
  <2>4. Holds(req.name) = "none"
    BY <1>3, <1>4 DEF Holds, Known
  <2>. QED
    BY <1>1, <1>2, <2>2, <2>3, <2>4, StoreTaken, StoreEnds DEF Store!GetUnknown
<1>5. CASE Known(req.name)
  <2>1. /\ Holds(req.name) = acked[req.name] /\ acked[req.name] # "none"
        /\ Dir(table[req.name].type)[req.name] # NoFile
        /\ Dir(table[req.name].type)[req.name].content = acked[req.name]
    BY <1>3, <1>5 DEF Current, Known, Holds
  <2>2. low[req.name] # NoFile /\ low[req.name].content = acked[req.name]
    <3>1. table[req.name].type \in {"low", "deep"}
      BY <1>2, <1>5 DEF TInv, TypeOK, Table, Info, Known
    <3>2. CASE Packed(req.name)
      BY <1>1, <3>2 DEF Latest
    <3>3. CASE ~Packed(req.name)
      BY <1>5, <2>1, <3>1, <3>3 DEF Packed, Dir
    <3>. QED
      BY <3>2, <3>3
  <2>3. SendFile
    BY <1>1, <1>5, <2>2 DEF SendUnknown, SendMissing, SendCannotOpen, SendNothing
  <2>4. \E code \in {"200", "206"} : replies' = <<Store!Reply(code, Holds(req.name))>>
    BY <1>2, <2>1, <2>2, <2>3 DEF SendFile, Store!Reply
  <2>5. \A n \in Names : Holds(n)' = Holds(n)
    <3>1. PICK t \in {low[req.name].atime, clock} : low' = [low EXCEPT ![req.name].atime = t]
      BY <2>3 DEF SendFile
    <3>2. low[req.name] \in File /\ low \in [Names -> File \cup {NoFile}]
      BY <1>2, <2>2 DEF TInv, TypeOK
    <3>3. low'[req.name].content = low[req.name].content
      BY <1>2, <3>1, <3>2 DEF File
    <3>4. \A n \in Names : low'[n] = low[n] \/ n = req.name
      BY <3>1, <3>2
    <3>5. \A n \in Names : low'[n].content = low[n].content
      BY <3>3, <3>4
    <3>6. \A n \in Names : ~Busy(n) /\ ~Busy(n)' /\ Record(n)' = Record(n)
      BY <1>1 DEF Busy, Record
    <3>. QED
      BY <1>1, <3>5, <3>6 DEF Holds, Dir
  <2>. QED
    BY <1>1, <1>2, <2>1, <2>4, <2>5, StoreTaken, StoreEnds DEF Store!Get
<1>. QED
  BY <1>4, <1>5

\* The copy of a packed file comes and goes in the other directory.
LEMMA StoreCopies ==
    ASSUME TInv, DownloadUnpacks \/ UnCompress \/ DownloadFinds \/ DownloadCleans
    PROVE  UNCHANGED Store!vars
<1>1. /\ up /\ UNCHANGED <<up, table, req, replies, deep>>
      /\ \/ pc \in {"download", "unpack"} /\ pc' \in {"unpack", "send"}
         \/ pc = "cleanup" /\ pc' = "idle"
      /\ \/ low' = low
         \/ /\ Packed(req.name)
            /\ \A n \in Names : low'[n] = low[n] \/ n = req.name
  <2>1. CASE DownloadUnpacks \/ UnCompress \/ DownloadFinds
    BY <2>1 DEF DownloadUnpacks, UnCompress, DownloadFinds, Goto, files, TInv, TypeOK, Phases
  <2>2. CASE DownloadCleans
    <3>1. Packed(req.name)
      BY <2>2 DEF DownloadCleans, TInv, Phases
    <3>2. deep' = deep /\ (low' = low \/ low' = [low EXCEPT ![req.name] = NoFile])
      BY <2>2, Zenon DEF DownloadCleans, WriteTo, files
    <3>. QED
      BY <2>2, <3>1, <3>2 DEF DownloadCleans, Goto, TInv, TypeOK
  <2>. QED
    BY <2>1, <2>2
<1>2. ASSUME NEW n \in Names
      PROVE  Holds(n)' = Holds(n)
  <2>1. ~Busy(n) /\ ~Busy(n)' /\ Record(n) = table[n] /\ Record(n)' = table[n]
    BY <1>1 DEF Busy, Record
  <2>2. Known(n) => Dir(table[n].type)'[n] = Dir(table[n].type)[n]
    BY <1>1 DEF Packed, Dir
  <2>. QED
    BY <1>1, <2>1, <2>2 DEF Holds, Known, Dir
<1>3. Stage' = Stage
  BY <1>1 DEF Stage
<1>. QED
  BY <1>1, <1>2, <1>3, StoreStutters

\* The event loop, a restart and the clock.
LEMMA StoreRests ==
    ASSUME TInv, Undisturbed', TransferEnds \/ Restart \/ Tick \/ UNCHANGED vars
    PROVE  UNCHANGED Store!vars
<1>1. CASE TransferEnds \/ Tick \/ UNCHANGED vars
  <2>1. UNCHANGED <<low, deep, disk, table, up, pc, req, replies>>
    BY <1>1 DEF TransferEnds, Tick, vars, files
  <2>2. \A n \in Names : Holds(n)' = Holds(n)
    BY <2>1 DEF Holds, Busy, Record, Dir
  <2>3. Stage' = Stage
    BY <2>1 DEF Stage
  <2>. QED
    BY <2>1, <2>2, <2>3, StoreStutters
<1>2. CASE Restart
  <2>1. /\ ~up /\ up' /\ pc = "idle" /\ pc' = pc /\ replies' = <<>>
        /\ table' = disk /\ UNCHANGED <<low, deep, disk>>
    <3>1. ~Fault
      BY <1>2, StepUndisturbed DEF Restart, ReadTable
    <3>. QED
      BY <1>2, <3>1 DEF Restart, ReadTable, TInv, Phases, files
  <2>2. \A n \in Names : Holds(n)' = Holds(n)
    BY <2>1, HoldsAll DEF Record
  <2>3. Stage = "none" /\ Stage' = "none"
    BY <2>1 DEF Stage
  <2>. QED
    BY <2>1, <2>2, <2>3, StoreStutters
<1>. QED
  BY <1>1, <1>2

LEMMA StepStore ==
    ASSUME TInv, Synced, Latest, Answered, [Next]_vars, Undisturbed'
    PROVE  [Store!Next]_(Store!vars)
<1>a. Undisturbed
  BY UndisturbedBefore
<1>1. ASSUME NEW r \in Request, Receive(r) PROVE Store!Next
  BY <1>1, StoreReceives DEF Store!Next
<1>2. CASE HandlerThrows
  BY <1>a, <1>2, StoreBreaks DEF Store!Next
<1>3. CASE NotFound \/ ListShow \/ UploadRefused \/ DeleteRefused
  BY <1>3, StoreRefuses DEF Store!Next
<1>4. CASE UploadOpens
  BY <1>4, StorePuts DEF Store!Next
<1>5. CASE DeleteRemoves \/ DeleteUnknown
  BY <1>a, <1>5, StoreRemoves, StoreKnowsNot DEF Store!Next
<1>6. CASE UploadWrites \/ UploadInserts \/ DeleteErases \/ PersistOpens \/ PersistWrites
  BY <1>6, StoreWorks
<1>7. CASE Answer
  BY <1>a, <1>7, StoreAnswers DEF Store!Next
<1>8. CASE SendUnknown \/ SendMissing \/ SendCannotOpen \/ SendFile \/ SendNothing
  BY <1>a, <1>8, StoreSends DEF Store!Next
<1>9. CASE DownloadUnpacks \/ UnCompress \/ DownloadFinds \/ DownloadCleans
  BY <1>9, StoreCopies
<1>10. CASE TransferEnds \/ Restart \/ Tick \/ UNCHANGED vars
  BY <1>10, StoreRests
<1>11. CASE UploadCannotOpen \/ DeleteCannotRemove
  BY <1>11, StepUndisturbed DEF UploadCannotOpen, DeleteCannotRemove
<1>12. CASE Crash
  <2>1. crashes' = crashes + 1 /\ crashes \in Nat
    BY <1>12 DEF Crash, TInv, TypeOK
  <2>. QED
    BY <1>a, <2>1 DEF Undisturbed
<1>. QED
  BY <1>1, <1>2, <1>3, <1>4, <1>5, <1>6, <1>7, <1>8, <1>9, <1>10, <1>11, <1>12
  DEF Next, Handler

LEMMA InitStore == Init => Store!Init
<1>. SUFFICES ASSUME Init PROVE Store!Init
  OBVIOUS
<1>1. \A n \in Names : Holds(n) = "none"
  BY DEF Init, Holds, Busy, Record, EmptyTable
<1>2. Stage = "none"
  BY DEF Init, Stage
<1>. QED
  BY <1>1, <1>2 DEF Init, Store!Init, Store!NoRequest, NoRequest

\* As long as nothing crashes and no file operation fails, every step of the
\* handlers is a step of ObjectStore, or one its clients do not see.
THEOREM ImplementsStoreHolds == Spec => ImplementsStore
<1>1. Init => Answered
  BY DEF Init, Answered
<1>2. TInv /\ Synced /\ Latest /\ Answered /\ [Next]_vars
        => (Undisturbed' => [Store!Next]_(Store!vars))
  BY StepStore
<1>. QED
  BY <1>1, <1>2, InitStore, InitTyped, StepTyped, LatestHolds, StepAnswered, PTL
  DEF Spec, ImplementsStore

\* A server that nothing disturbs implements ObjectStore.
THEOREM UndisturbedImplementsStore == Spec /\ []Undisturbed => Store!Spec
<1>1. Init => Answered
  BY DEF Init, Answered
<1>2. TInv /\ Synced /\ Latest /\ Answered /\ [Next]_vars /\ Undisturbed'
        => [Store!Next]_(Store!vars)
  BY StepStore
<1>. QED
  BY <1>1, <1>2, InitStore, InitTyped, StepTyped, LatestHolds, StepAnswered, PTL
  DEF Spec, Store!Spec

-----------------------------------------------------------------------------
(* Transfers *)

\* What the event loop is sending: through which file, and who may change it.
OnItsWay ==
    faults = 0 /\ wire # NoTransfer =>
        /\ wire.inode # "linked" =>
             wire.inode = wire.promised \/ (wire.overtaken /\ ~wire.packed)
        /\ wire.inode = "linked" /\ wire.packed =>
             /\ pc = "cleanup" /\ req.name = wire.name
             /\ low[wire.name].content = wire.promised
        /\ wire.inode = "linked" /\ ~wire.packed =>
             low[wire.name].content = wire.promised \/ wire.overtaken
        /\ ~wire.overtaken /\ ~wire.packed => ~Packed(wire.name)
        /\ pc \in {"upload", "write", "insert"} /\ wire.name = req.name => wire.overtaken

\* Removing a file leaves the transfer with what it was sending.
LEMMA RemovedUnderTransfer ==
    ASSUME TInv, OnItsWay, faults = 0,
           NEW type, NEW n \in Names, WriteTo(type, n, NoFile),
           UNCHANGED <<faults, req>>,
           pc \in {"delete", "cleanup"}, pc' \in {"erase", "idle"},
           pc = "cleanup" => type = "low" /\ n = req.name,
           table' = table
    PROVE  OnItsWay'
<1>1. CASE wire = NoTransfer
  BY <1>1, WriteToTyped DEF TInv, OnItsWay
<1>2. CASE wire # NoTransfer /\ type = "low" /\ wire.name = n
  <2>1. wire \in Transfer
    BY <1>2 DEF TInv, TypeOK
  <2>2. wire' = [wire EXCEPT !.inode = OnWire]
    BY <1>2 DEF WriteTo, Unlinked
  <2>3. /\ wire'.inode = OnWire
        /\ wire'.name = wire.name /\ wire'.packed = wire.packed
        /\ wire'.promised = wire.promised /\ wire'.overtaken = wire.overtaken
    BY <2>1, <2>2 DEF Transfer
  <2>4. OnWire = wire.promised \/ (wire.overtaken /\ ~wire.packed)
    BY <1>2, <2>1 DEF OnItsWay, OnWire, Transfer
  <2>5. OnWire # "linked"
    <3>1. OnWire \in Contents \cup {Torn}
      BY <1>2, <2>1 DEF OnWire, TInv, Phases, File, Transfer
    <3>. QED
      BY <3>1, NamesAssumption DEF Torn
  <2>. QED
    BY <1>2, <2>3, <2>4, <2>5 DEF OnItsWay, Packed, Known
<1>3. CASE wire # NoTransfer /\ ~(type = "low" /\ wire.name = n)
  <2>1. wire' = wire /\ wire \in Transfer
    BY <1>3 DEF WriteTo, Unlinked, TInv, TypeOK
  <2>2. low'[wire.name] = low[wire.name]
    <3>1. /\ \A m \in Names \ {n} : low'[m] = low[m]
          /\ type # "low" => low' = low
      BY WriteToFrame DEF TInv
    <3>. QED
      BY <1>3, <2>1, <3>1 DEF Transfer
  <2>. QED
    BY <1>3, <2>1, <2>2 DEF OnItsWay, Packed, Known
<1>. QED
  BY <1>1, <1>2, <1>3

LEMMA StepOnItsWay == TInv /\ OnItsWay /\ [Next]_vars => OnItsWay'
<1>. SUFFICES ASSUME TInv, OnItsWay, [Next]_vars, faults' = 0, wire' # NoTransfer
              PROVE  OnItsWay'
  BY DEF OnItsWay
<1>1. ASSUME NEW r \in Request, Receive(r) PROVE OnItsWay'
  <2>1. pc = "idle" /\ pc' = r.op /\ req' = r /\ faults = 0 /\ UNCHANGED <<low, table>>
    BY <1>1 DEF Receive, Goto
  <2>2. wire # NoTransfer
    <3>1. NoTransfer.name # r.name \/ r.op # "upload"
      BY NamesAssumption
      DEF NoTransfer, Request, Upload, Delete, Download, Plain
    <3>. QED
      BY <1>1, <3>1 DEF Receive
  <2>3. wire \in Transfer
    BY <2>2 DEF TInv, TypeOK
  <2>4. /\ wire'.name = wire.name /\ wire'.packed = wire.packed
        /\ wire'.promised = wire.promised /\ wire'.inode = wire.inode
        /\ wire.overtaken => wire'.overtaken
        /\ r.op = "upload" /\ r.name = wire.name => wire'.overtaken
    BY <1>1, <2>3 DEF Receive, Transfer
  <2>5. r.op \notin {"write", "insert"}
    BY DEF Request, Upload, Delete, Download, Plain
  <2>. QED
    BY <2>1, <2>2, <2>4, <2>5 DEF OnItsWay, Packed, Known
<1>2. CASE HandlerThrows \/ Crash \/ TransferEnds
  BY <1>2 DEF HandlerThrows, Crash, Stops, TransferEnds
<1>3. CASE Restart
  BY <1>3 DEF Restart, files, TInv, Phases
<1>4. CASE UploadCannotOpen \/ DeleteCannotRemove \/ SendCannotOpen \/ SendNothing
  BY <1>4, NoFaultYet
  DEF UploadCannotOpen, DeleteCannotRemove, SendCannotOpen, SendNothing, TInv
<1>5. CASE NotFound \/ ListShow \/ UploadRefused \/ PersistOpens \/ PersistWrites \/ Answer
           \/ DeleteRefused \/ DeleteUnknown \/ DownloadFinds \/ SendUnknown
           \/ SendMissing
  <2>1. /\ pc # "cleanup" /\ pc' \notin {"upload", "write", "insert"}
        /\ UNCHANGED <<low, table, wire>>
        /\ faults' = faults \/ Fault \/ NoFault
    BY <1>5
    DEF NotFound, ListShow, UploadRefused, PersistOpens, PersistWrites, Answer,
        DeleteRefused, DeleteUnknown, DownloadFinds, SendUnknown, SendMissing, files,
        bounds, Finish, Goto
  <2>2. faults = 0
    BY <2>1, NoFaultYet DEF TInv
  <2>. QED
    BY <2>1, <2>2 DEF OnItsWay, Packed, Known
<1>6. CASE UploadOpens \/ UploadWrites
  <2>1. /\ pc \in {"upload", "write"} /\ pc' \in {"write", "insert"} /\ faults = 0
        /\ UNCHANGED <<table, req>>
        /\ \E file \in File : WriteTo(req.type, req.name, file)
        /\ req.name \in Names
    <3>1. CASE UploadOpens
      <4>1. faults = 0
        BY <3>1, NoFaultYet DEF UploadOpens, TInv
      <4>2. req.name \in Names /\ req.type \in {"low", "deep"}
        BY <3>1 DEF UploadOpens, TInv, Phases, Upload, HeaderMissing
      <4>3. OpenedForWriting(Dir(req.type)[req.name]) \in File
        BY <4>2, OpenedIsFile DEF TInv, TypeOK, Dir
      <4>. QED
        BY <3>1, <4>1, <4>2, <4>3 DEF UploadOpens, Goto
    <3>2. CASE UploadWrites
      <4>1. faults = 0 /\ ~Fault
        BY <3>2, NoFaultYet DEF UploadWrites, TInv
      <4>2. /\ req.name \in Names /\ req.body \in Contents
            /\ Dir(req.type)[req.name] \in File /\ clock \in 0..MaxClock
        BY <3>2 DEF UploadWrites, TInv, Phases, TypeOK
      <4>3. [Dir(req.type)[req.name] EXCEPT !.content = req.body, !.mtime = clock] \in File
        BY <4>2 DEF File
      <4>. QED
        BY <3>2, <4>1, <4>2, <4>3 DEF UploadWrites, Goto
    <3>. QED
      BY <1>6, <3>1, <3>2
  <2>2. wire' = wire
    BY <2>1, FileIsNotNoFile DEF WriteTo
  <2>3. wire \in Transfer
    BY <2>2 DEF TInv, TypeOK
  <2>4. wire.name # req.name => low'[wire.name] = low[wire.name]
    <3>1. \A m \in Names \ {req.name} : low'[m] = low[m]
      BY <2>1, WriteToFrame DEF TInv
    <3>. QED
      BY <2>3, <3>1 DEF Transfer
  <2>. QED
    BY <2>1, <2>2, <2>4 DEF OnItsWay, Packed, Known
<1>7. CASE UploadInserts \/ DeleteErases
  <2>1. /\ pc \in {"insert", "erase"} /\ pc' = "persist" /\ req.name \in Names
        /\ UNCHANGED <<low, wire, req, faults>>
        /\ \E info : /\ table' = [table EXCEPT ![req.name] = info]
                     /\ pc = "erase" => info = NoInfo
    BY <1>7 DEF UploadInserts, DeleteErases, TInv, Phases, files, bounds, Goto
  <2>2. wire \in Transfer /\ table \in Table
    BY <2>1 DEF TInv, TypeOK
  <2>3. wire.name # req.name => table'[wire.name] = table[wire.name]
    BY <2>1, <2>2 DEF Transfer, Table
  <2>4. pc = "erase" => ~Packed(req.name)'
    BY <2>1, <2>2 DEF Packed, Known, Table
  <2>. QED
    BY <2>1, <2>3, <2>4 DEF OnItsWay, Packed, Known
<1>8. CASE DeleteRemoves
  <2>1. faults = 0 /\ faults' = 0
    BY <1>8, NoFaultYet DEF DeleteRemoves, TInv
  <2>2. req.name \in Names
    BY <1>8 DEF DeleteRemoves
  <2>. QED
    BY <1>8, <2>1, <2>2, RemovedUnderTransfer DEF DeleteRemoves, Goto
<1>9. CASE DownloadCleans
  <2>1. faults = 0 /\ faults' = 0 /\ ~Fault
    BY <1>9, NoFaultYet DEF DownloadCleans, TInv
  <2>2. req.name \in Names
    BY <1>9 DEF DownloadCleans, TInv, Phases
  <2>. QED
    BY <1>9, <2>1, <2>2, RemovedUnderTransfer DEF DownloadCleans, Goto
<1>10. CASE DownloadUnpacks \/ UnCompress
  <2>1. /\ pc \in {"download", "unpack"} /\ pc' \in {"unpack", "send"}
        /\ Packed(req.name) /\ faults = 0
        /\ UNCHANGED <<wire, table, req>>
        /\ \E file : low' = [low EXCEPT ![req.name] = file]
    <3>1. faults = 0 /\ ~Fault
      BY <1>10, NoFaultYet DEF DownloadUnpacks, UnCompress, TInv
    <3>. QED
      BY <1>10, <3>1 DEF DownloadUnpacks, UnCompress, Goto, TInv, Phases
  <2>2. wire \in Transfer
    BY <2>1 DEF TInv, TypeOK
  <2>3. wire.name # req.name => low'[wire.name] = low[wire.name]
    BY <2>1, <2>2 DEF TInv, TypeOK, Transfer
  <2>. QED
    BY <2>1, <2>3 DEF OnItsWay, Packed, Known
<1>11. CASE SendFile
  <2>1. /\ pc = "send" /\ pc' = IF Packed(req.name) THEN "cleanup" ELSE "idle"
        /\ low[req.name] # NoFile /\ req.name \in Names
        /\ UNCHANGED <<table, req, faults>>
        /\ \E t \in {low[req.name].atime, clock} : low' = [low EXCEPT ![req.name].atime = t]
    BY <1>11 DEF SendFile, TInv, Phases, bounds, Goto
  <2>2. low[req.name] \in File
    BY <2>1 DEF TInv, TypeOK
  <2>3. \A n \in Names : low'[n].content = low[n].content
    BY <2>1, <2>2 DEF TInv, TypeOK, File
  <2>4. CASE wire' = wire
    <3>1. wire \in Transfer
      BY <2>4 DEF TInv, TypeOK
    <3>2. low'[wire.name].content = low[wire.name].content
      BY <2>3, <3>1 DEF Transfer
    <3>. QED
      BY <2>1, <2>4, <3>2 DEF OnItsWay, Packed, Known
  <2>5. CASE wire' # wire
    <3>1. wire' = [name |-> req.name, packed |-> Packed(req.name), inode |-> "linked",
                   promised |-> low[req.name].content, overtaken |-> FALSE]
      BY <1>11, <2>5 DEF SendFile
    <3>2. /\ wire'.name = req.name /\ wire'.packed = Packed(req.name)
          /\ wire'.inode = "linked" /\ wire'.promised = low[req.name].content
          /\ ~wire'.overtaken
      BY <3>1
    <3>. QED
      BY <2>1, <2>3, <3>2 DEF OnItsWay, Packed, Known
  <2>. QED
    BY <2>4, <2>5
<1>12. CASE Tick \/ UNCHANGED vars
  BY <1>12 DEF Tick, vars, files, bounds, OnItsWay, Packed, Known
<1>. QED
  BY <1>1, <1>2, <1>3, <1>4, <1>5, <1>6, <1>7, <1>8, <1>9, <1>10, <1>11, <1>12
  DEF Next, Handler

\* While no file operation fails, what the event loop still has to send is what
\* the download found, unless the file was not packed and has been uploaded
\* again since.
THEOREM TransfersWholeHolds == Spec => []TransfersWhole
<1>1. Init => OnItsWay
  BY DEF Init, OnItsWay
<1>2. OnItsWay => TransfersWhole
  BY DEF OnItsWay, TransfersWhole, OnWire, Idle
<1>. QED
  BY <1>1, <1>2, InitTyped, StepTyped, StepOnItsWay, PTL DEF Spec

=============================================================================
