--------------------------- MODULE SyncClient_proofs ---------------------------
(***************************************************************************)
(* Proofs about SyncClient, for any two sets of files, any contents and    *)
(* any number of edits, lost answers, failed writes and crashes.           *)
(***************************************************************************)
EXTENDS SyncClient, TLAPS

Busy == {"upload", "sent", "taken", "decide", "store", "write"}

\* The loop has a file whenever it works on one.
HasFile == pc \in Busy => current \in Files

TInv == TypeOK /\ HasFile

\* What is known of versions and their identifiers.
LEMMA VersionFacts ==
    ASSUME NEW v \in Version
    PROVE  /\ Identifier(v) \in Identifiers
           /\ Identifier(v).mtime = v.mtime /\ v.mtime \in -1..MaxClock
           /\ v # NoVersion
           /\ Identifier(v) # None
<1>1. CASE v = Gone
  BY <1>1, BoundsAssumption
  DEF Gone, Identifier, Identifiers, Size, NoVersion, None
<1>2. CASE v # Gone
  <2>1. v \in [content : Contents \cup {Empty}, mtime : 0..MaxClock]
    BY <1>2 DEF Version
  <2>. QED
    BY <1>2, <2>1, BoundsAssumption DEF Identifier, Identifiers, Size, NoVersion, None
<1>. QED
  BY <1>1, <1>2

LEMMA RecordFacts ==
    /\ Gone \in Version /\ Gone.mtime = -1
    /\ None \in Identifiers /\ None.mtime = -2
    /\ Junk \in Identifiers /\ Junk.mtime = -3
BY BoundsAssumption DEF Gone, Version, None, Junk, Identifiers

\* What a restart loads of a file is what storage.dat has of it, nothing, or junk.
LEMMA LoadedFacts ==
    ASSUME TypeOK, NEW bad \in SUBSET Damaged
    PROVE  /\ Loaded(bad) \in [Files -> Identifiers]
           /\ \A f \in Files : Survives(f) \in Identifiers
           /\ \A f \in Files : Loaded(bad)[f] \in {Survives(f), Junk}
BY RecordFacts DEF TypeOK, Loaded, Survives

\* The versions a user can make of a file.
LEMMA EditFacts ==
    ASSUME TypeOK, User
    PROVE  \E g \in Files : \E v \in Version :
              Change(g, v) /\ (v = Gone \/ v.mtime = clock)
<1>1. ASSUME NEW g \in Files, NEW c \in Contents \cup {Empty}, Saves(g, c)
      PROVE  \E v \in Version : Change(g, v) /\ (v = Gone \/ v.mtime = clock)
  <2>1. [content |-> c, mtime |-> clock] \in Version
    BY DEF Version, TypeOK
  <2>. QED
    BY <1>1, <2>1 DEF Saves
<1>. QED
  BY <1>1, RecordFacts DEF User

LEMMA InitTyped == Init => TInv
<1>. SUFFICES ASSUME Init PROVE TInv
  OBVIOUS
<1>1. /\ clock \in 0..MaxClock
      /\ file \in [Files -> Version]
  BY SyncAssumption, BoundsAssumption DEF Init, Version
<1>2. /\ table_ \in [Files -> Identifiers] /\ disk \in [Files -> Identifiers]
      /\ body \in Version
      /\ acked \in [Files -> Version \cup {NoVersion}]
  BY RecordFacts DEF Init
<1>4. /\ [place |-> place, word |-> word] \in Namings
      /\ server \in [Places -> Contents \cup {Empty}] /\ up \in BOOLEAN
  <2>1. PICK n \in Namings : place = n.place /\ word = n.word
    BY DEF Init
  <2>2. n = [place |-> place, word |-> word]
    BY <2>1, SyncAssumption
  <2>. QED
    BY <2>2 DEF Init
<1>3. /\ edits \in 0..MaxEdits /\ lost \in 0..MaxLost
      /\ faults \in 0..MaxFaults /\ crashes \in 0..MaxCrashes
  BY BoundsAssumption DEF Init
<1>. QED
  BY <1>1, <1>2, <1>3, <1>4 DEF Init, TypeOK, TInv, HasFile, Busy

LEMMA StepTyped == TInv /\ [Next]_vars => TInv'
<1>. SUFFICES ASSUME TInv, [Next]_vars PROVE TInv'
  OBVIOUS
<1>. USE DEF TInv, TypeOK, HasFile, Busy, user, names, remote, store, iterate, bounds, history
<1>1. CASE ScanLow \/ ScanDeep \/ Sleeps
  <2>1. Existing(Low) \subseteq Files /\ Existing(Deep) \subseteq Files
    BY DEF Existing, Files
  <2>. QED
    BY <1>1, <2>1 DEF ScanLow, ScanDeep, Sleeps
<1>2. ASSUME NEW f \in Files, Skips(f) \/ Begins(f) PROVE TInv'
  BY <1>2 DEF Skips, Begins
<1>3. CASE Sends
  BY <1>3 DEF Sends, GetContent
<1>4. CASE ServerTakes \/ ServerEnds \/ RefusedHalfway
  <2>1. body.content \in Contents \cup {Empty}
    BY DEF Version, Gone
  <2>2. lost' \in 0..MaxLost
    BY <1>4, BoundsAssumption DEF ServerTakes, ServerEnds, RefusedHalfway
  <2>3. server' \in [Places -> Contents \cup {Empty}]
    BY <1>4, <2>1 DEF ServerTakes, ServerEnds, RefusedHalfway
  <2>4. doubtful' \subseteq Files
    BY <1>4 DEF ServerTakes, ServerEnds, RefusedHalfway, Sharing
  <2>. QED
    BY <1>4, <2>2, <2>3, <2>4 DEF ServerTakes, ServerEnds, RefusedHalfway
<1>5. CASE Succeeds
  BY <1>5 DEF Succeeds
<1>6. CASE Refused \/ NoResponse
  <2>1. lost' \in 0..MaxLost
    BY <1>6, BoundsAssumption DEF Refused, NoResponse
  <2>. QED
    BY <1>6, <2>1 DEF Refused, NoResponse
<1>7. CASE Fails
  BY <1>7, RecordFacts DEF Fails, EndIteration
<1>8. CASE Inserts
  <2>1. Identifier(file[current]) \in Identifiers
    BY <1>8, VersionFacts DEF Inserts
  <2>. QED
    BY <1>8, <2>1 DEF Inserts
<1>9. CASE Empties
  BY <1>9, RecordFacts DEF Empties
<1>10. CASE Writes
  BY <1>10, RecordFacts DEF Writes, EndIteration
<1>11. CASE OpenFails \/ WriteFails
  <2>1. faults' \in 0..MaxFaults
    BY <1>11, BoundsAssumption DEF OpenFails, WriteFails
  <2>2. disk' \in [Files -> Identifiers] /\ torn' \in BOOLEAN
    BY <1>11, RecordFacts DEF OpenFails, WriteFails
  <2>. QED
    BY <1>11, <2>1, <2>2, RecordFacts DEF OpenFails, WriteFails, EndIteration
<1>12. CASE Crash
  <2>1. crashes' \in 0..MaxCrashes
    BY <1>12, BoundsAssumption DEF Crash
  <2>2. table_' \in [Files -> Identifiers]
    BY <1>12, LoadedFacts DEF Crash
  <2>3. acked' \in [Files -> Version \cup {NoVersion}]
    BY <1>12 DEF Crash
  <2>4. pc' \in {"scan_low", "ended"}
    BY <1>12 DEF Crash
  <2>. QED
    BY <1>12, <2>1, <2>2, <2>3, <2>4, RecordFacts DEF Crash
<1>13. CASE User
  <2>1. PICK g \in Files, v \in Version : Change(g, v)
    BY <1>13, EditFacts DEF User
  <2>2. edits' \in 0..MaxEdits
    BY <2>1, BoundsAssumption DEF Change
  <2>. QED
    BY <2>1, <2>2 DEF Change
<1>14. CASE Tick
  <2>1. clock' \in 0..MaxClock
    BY <1>14, BoundsAssumption DEF Tick
  <2>. QED
    BY <1>14, <2>1 DEF Tick
<1>15. CASE UNCHANGED vars
  BY <1>15 DEF vars
<1>. QED
  BY <1>1, <1>2, <1>3, <1>4, <1>5, <1>6, <1>7, <1>8, <1>9, <1>10, <1>11, <1>12, <1>13,
     <1>14, <1>15 DEF Next, Client, Server

\* Every variable keeps its type, and the client works on files it knows.
THEOREM TypeCorrect == Spec => []TypeOK
<1>1. TInv => TypeOK
  BY DEF TInv
<1>. QED
  BY <1>1, InitTyped, StepTyped, PTL DEF Spec

-----------------------------------------------------------------------------
(* What is recorded *)

\* While no write has failed and storage.dat is not being written, it has what the
\* table has of every plain file, the one under way excepted.
DiskHasTable ==
    faults = 0 =>
        /\ ~torn
        /\ pc # "write" =>
             \A f \in Plain : disk[f] = table_[f] \/ (pc = "store" /\ current = f)

LEMMA StepDisk == TInv /\ DiskHasTable /\ [Next]_vars => DiskHasTable'
<1>. SUFFICES ASSUME TInv, DiskHasTable, [Next]_vars, faults' = 0 PROVE DiskHasTable'
  BY DEF DiskHasTable
<1>. USE DEF user, names, remote, store, iterate, bounds, history
<1>0. Plain \subseteq Files /\ (UNCHANGED word => Plain' = Plain)
  BY DEF Plain, Spaced
<1>1. CASE ScanLow \/ ScanDeep \/ Sleeps \/ Sends \/ ServerTakes \/ ServerEnds \/ Succeeds
           \/ Refused \/ RefusedHalfway \/ NoResponse \/ Fails \/ Tick \/ UNCHANGED vars
  <2>1. UNCHANGED <<word, table_, disk, torn, faults>>
    BY <1>1
    DEF ScanLow, ScanDeep, Sleeps, Sends, ServerTakes, ServerEnds, Succeeds, Refused,
        RefusedHalfway, NoResponse, Fails, Tick, vars
  <2>2. \/ pc' \notin {"store", "write"} /\ pc \notin {"store", "write"}
        \/ UNCHANGED <<pc, current>>
    BY <1>1
    DEF ScanLow, ScanDeep, Sleeps, Sends, ServerTakes, ServerEnds, Succeeds, Refused,
        RefusedHalfway, NoResponse, Fails, EndIteration, Tick, vars
  <2>. QED
    BY <1>0, <2>1, <2>2 DEF DiskHasTable
<1>2. ASSUME NEW f \in Files, Skips(f) \/ Begins(f) PROVE DiskHasTable'
  BY <1>0, <1>2 DEF Skips, Begins, DiskHasTable
<1>3. CASE Inserts
  <2>1. pc = "decide" /\ pc' = "store" /\ UNCHANGED <<word, disk, torn, current, faults>>
    BY <1>3 DEF Inserts
  <2>2. \A f \in Plain : f # current => table_'[f] = table_[f]
    BY <1>0, <1>3 DEF Inserts, TInv, TypeOK
  <2>. QED
    BY <1>0, <2>1, <2>2 DEF DiskHasTable
<1>4. CASE Empties \/ Writes
  BY <1>0, <1>4 DEF Empties, Writes, EndIteration, DiskHasTable
<1>5. CASE OpenFails \/ WriteFails
  BY <1>5 DEF OpenFails, WriteFails, TInv, TypeOK
<1>6. CASE Crash
  <2>1. /\ \E bad \in SUBSET Damaged : table_' = Loaded(bad)
        /\ UNCHANGED <<word, disk, torn, faults>>
    BY <1>6 DEF Crash
  <2>2. ~torn
    BY <2>1 DEF DiskHasTable
  <2>3. \A f \in Plain : table_'[f] = disk[f]
    BY <1>0, <2>1, <2>2 DEF Loaded, Survives, Damaged, Plain
  <2>. QED
    BY <1>0, <2>1, <2>2, <2>3 DEF DiskHasTable
<1>7. CASE User
  BY <1>0, <1>7, EditFacts DEF TInv, Change, DiskHasTable
<1>. QED
  BY <1>1, <1>2, <1>3, <1>4, <1>5, <1>6, <1>7 DEF Next, Client, Server

\* A client killed at any point but while it rewrites storage.dat has all its
\* records again when it is back, unless a write has failed.
THEOREM RestartForgetsNothingHolds == Spec => RestartForgetsNothing
<1>1. Init => DiskHasTable
  BY DEF Init, DiskHasTable
<1>2. ASSUME TInv, DiskHasTable, Crash, faults = 0, pc \notin {"store", "write"},
             NEW f \in Plain
      PROVE  table_'[f] = table_[f]
  <2>1. PICK bad \in SUBSET Damaged : table_' = Loaded(bad)
    BY <1>2 DEF Crash
  <2>2. f \in Files \ Spaced /\ f \notin Damaged
    BY <1>2 DEF DiskHasTable, Damaged, Plain
  <2>. QED
    BY <1>2, <2>1, <2>2 DEF DiskHasTable, Loaded, Survives
<1>3. TInv /\ DiskHasTable =>
        (Crash /\ faults = 0 /\ pc \notin {"store", "write"} =>
            \A f \in Plain : table_'[f] = table_[f])
  BY <1>2
<1>. QED
  BY <1>1, <1>3, InitTyped, StepTyped, StepDisk, PTL DEF Spec, RestartForgetsNothing

-----------------------------------------------------------------------------
(* What is recorded is stored *)

\* What is recorded of a file that is not in doubt, in the table or in what a
\* restart would load, is of an earlier second, and if it is the identifier of the
\* file the server holds the file.
RecordHolds(f, id) ==
    /\ id.mtime < clock
    /\ file[f] # Gone /\ id = Identifier(file[f]) => Holds(f)

\* An upload that nothing has disturbed so far sends the file as it is, and ends
\* with the flag set only when the server holds it.
Undisturbed ==
    Uploading /\ current \notin doubtful =>
        /\ file[current].mtime < clock
        /\ pc # "upload" => body = file[current]
        /\ pc = "taken" \/ (pc = "decide" /\ if_upload_success) => Holds(current)

Recorded ==
    /\ \A f \in Files \ doubtful : RecordHolds(f, table_[f]) /\ RecordHolds(f, Survives(f))
    /\ Undisturbed

\* None and Junk are of an earlier second than any, and nobody's identifier.
LEMMA NoRecordHolds ==
    ASSUME TypeOK, NEW f \in Files
    PROVE  RecordHolds(f, None) /\ RecordHolds(f, Junk)
<1>1. file[f] \in Version /\ clock \in 0..MaxClock
  BY DEF TypeOK
<1>. QED
  BY <1>1, RecordFacts, VersionFacts, BoundsAssumption DEF RecordHolds

\* A step that leaves the files, what is recorded of them and the upload alone
\* keeps all of it.
LEMMA QuietRecorded ==
    ASSUME TInv, Recorded,
           UNCHANGED <<clock, file, place, word, server, table_, disk, doubtful>>,
           \/ UNCHANGED <<pc, current, body, if_upload_success>>
           \/ ~Uploading'
    PROVE  Recorded'
BY DEF Recorded, RecordHolds, Holds, Survives, Spaced, Undisturbed, Uploading

\* A file that is out of doubt keeps its records when the file, what is recorded of
\* it and what the server holds at its place are the same as before.
LEMMA KeepsRecord ==
    ASSUME NEW f \in Files, RecordHolds(f, table_[f]), RecordHolds(f, Survives(f)),
           UNCHANGED <<clock, place, word, table_, disk>>, file'[f] = file[f],
           Holds(f) => Holds(f)'
    PROVE  RecordHolds(f, table_[f])' /\ RecordHolds(f, Survives(f))'
<1>1. Survives(f)' = Survives(f)
  BY DEF Survives, Spaced
<1>. QED
  BY <1>1 DEF RecordHolds

LEMMA StepRecorded == TInv /\ Recorded /\ [Next]_vars => Recorded'
<1>. SUFFICES ASSUME TInv, Recorded, [Next]_vars PROVE Recorded'
  OBVIOUS
<1>. USE DEF user, names, remote, store, iterate, bounds, history
<1>a. clock \in 0..MaxClock /\ clock \in Int
  BY BoundsAssumption DEF TInv, TypeOK
<1>1. CASE ScanLow \/ ScanDeep \/ Sleeps \/ Fails \/ OpenFails \/ UNCHANGED vars
  BY <1>1, QuietRecorded
  DEF ScanLow, ScanDeep, Sleeps, Fails, OpenFails, EndIteration, Uploading, vars
<1>2. ASSUME NEW f \in Files, Skips(f) PROVE Recorded'
  BY <1>2, QuietRecorded DEF Skips
<1>3. ASSUME NEW f \in Files, Begins(f) PROVE Recorded'
  <2>1. /\ pc' = "upload" /\ current' = f /\ IfNeedUpload(f)
        /\ doubtful' = IF Outdated(f) THEN doubtful \ {f} ELSE doubtful
        /\ UNCHANGED <<clock, file, place, word, server, table_, disk>>
    BY <1>3 DEF Begins
  <2>2. ASSUME NEW g \in Files \ doubtful'
        PROVE  RecordHolds(g, table_[g])' /\ RecordHolds(g, Survives(g))'
    <3>1. RecordHolds(g, table_[g]) /\ RecordHolds(g, Survives(g))
      <4>1. CASE g \notin doubtful
        BY <4>1 DEF Recorded
      <4>2. CASE g \in doubtful
        BY <2>1, <2>2, <4>2 DEF Outdated, RecordHolds
      <4>. QED
        BY <4>1, <4>2
    <3>. QED
      BY <2>1, <3>1, KeepsRecord DEF Holds
  <2>3. file[f].mtime < clock
    BY <1>a, <2>1, SyncAssumption, VersionFacts DEF IfNeedUpload, TInv, TypeOK
  <2>4. Undisturbed'
    BY <2>1, <2>3 DEF Undisturbed
  <2>. QED
    BY <2>2, <2>4 DEF Recorded
<1>4. CASE Sends
  <2>1. /\ pc = "upload" /\ pc' = "sent" /\ body' = file[current]
        /\ UNCHANGED <<clock, file, place, word, server, table_, disk, doubtful, current>>
    BY <1>4 DEF Sends, GetContent
  <2>2. \A f \in Files : Holds(f) => Holds(f)'
    BY <2>1 DEF Holds
  <2>3. \A f \in Files \ doubtful' : RecordHolds(f, table_[f])' /\ RecordHolds(f, Survives(f))'
    BY <2>1, <2>2, KeepsRecord DEF Recorded
  <2>. QED
    BY <2>1, <2>3 DEF Recorded, Undisturbed, Uploading
<1>5. CASE ServerTakes
  <2>1. /\ pc = "sent" /\ pc' = "taken" /\ place[current] \in Places
        /\ server' = [server EXCEPT ![place[current]] = body.content]
        /\ doubtful' = doubtful \cup Sharing
        /\ UNCHANGED <<clock, file, place, word, table_, disk, current, body>>
    BY <1>5 DEF ServerTakes
  <2>2. current \notin doubtful => body = file[current]
    BY <2>1 DEF Recorded, Undisturbed, Uploading
  <2>3. current \in Files
    BY <2>1 DEF TInv, HasFile, Busy
  <2>4. current \notin doubtful => Holds(current)'
    BY <2>1, <2>2 DEF Holds, TInv, TypeOK
  <2>5. ASSUME NEW f \in Files \ doubtful' PROVE Holds(f) => Holds(f)'
    <3>1. CASE f = current
      BY <2>1, <2>4, <2>5, <3>1
    <3>2. CASE f # current
      <4>1. place[f] # place[current]
        BY <2>1, <2>5, <3>2 DEF Sharing
      <4>. QED
        BY <2>1, <4>1 DEF Holds, TInv, TypeOK
    <3>. QED
      BY <3>1, <3>2
  <2>6. \A f \in Files \ doubtful' : RecordHolds(f, table_[f])' /\ RecordHolds(f, Survives(f))'
    BY <2>1, <2>5, KeepsRecord DEF Recorded
  <2>7. Undisturbed'
    BY <2>1, <2>2, <2>4 DEF Recorded, Undisturbed, Uploading
  <2>. QED
    BY <2>6, <2>7 DEF Recorded
<1>6. CASE ServerEnds \/ NoResponse
  <2>1. /\ pc' = "decide" /\ doubtful' = doubtful \cup {current}
        /\ UNCHANGED <<clock, file, place, word, server, table_, disk, current>>
    BY <1>6 DEF ServerEnds, NoResponse
  <2>2. \A f \in Files : Holds(f) => Holds(f)'
    BY <2>1 DEF Holds
  <2>3. \A f \in Files \ doubtful' : RecordHolds(f, table_[f])' /\ RecordHolds(f, Survives(f))'
    BY <2>1, <2>2, KeepsRecord DEF Recorded
  <2>. QED
    BY <2>1, <2>3 DEF Recorded, Undisturbed
<1>7. CASE Succeeds \/ Refused
  <2>1. /\ pc \in {"sent", "taken"} /\ pc' = "decide"
        /\ if_upload_success' => pc = "taken"
        /\ UNCHANGED <<clock, file, place, word, server, table_, disk, doubtful, current, body>>
    BY <1>7 DEF Succeeds, Refused
  <2>2. \A f \in Files : Holds(f) => Holds(f)'
    BY <2>1 DEF Holds
  <2>3. \A f \in Files \ doubtful' : RecordHolds(f, table_[f])' /\ RecordHolds(f, Survives(f))'
    BY <2>1, <2>2, KeepsRecord DEF Recorded
  <2>4. Undisturbed'
    BY <2>1 DEF Recorded, Undisturbed, Uploading, Holds
  <2>. QED
    BY <2>3, <2>4 DEF Recorded
<1>8. CASE RefusedHalfway
  <2>1. /\ pc' = "decide" /\ place[current] \in Places
        /\ server' = [server EXCEPT ![place[current]] = Empty]
        /\ doubtful' = doubtful \cup Sharing \cup {current}
        /\ UNCHANGED <<clock, file, place, word, table_, disk, current>>
    BY <1>8 DEF RefusedHalfway
  <2>2. ASSUME NEW f \in Files \ doubtful' PROVE Holds(f) => Holds(f)'
    <3>1. place[f] # place[current]
      BY <2>1, <2>2 DEF Sharing
    <3>. QED
      BY <2>1, <3>1 DEF Holds, TInv, TypeOK
  <2>3. \A f \in Files \ doubtful' : RecordHolds(f, table_[f])' /\ RecordHolds(f, Survives(f))'
    BY <2>1, <2>2, KeepsRecord DEF Recorded
  <2>. QED
    BY <2>1, <2>3 DEF Recorded, Undisturbed
<1>9. CASE Inserts
  <2>1. /\ pc = "decide" /\ pc' = "store" /\ if_upload_success
        /\ table_' = [table_ EXCEPT ![current] = Identifier(file[current])]
        /\ UNCHANGED <<clock, file, place, word, server, disk, doubtful>>
    BY <1>9 DEF Inserts
  <2>2. current \in Files
    BY <2>1 DEF TInv, HasFile, Busy
  <2>3. current \notin doubtful => RecordHolds(current, Identifier(file[current]))
    BY <2>1, <2>2, VersionFacts DEF Recorded, Undisturbed, Uploading, RecordHolds, TInv, TypeOK
  <2>4. ASSUME NEW f \in Files \ doubtful'
        PROVE  RecordHolds(f, table_[f])' /\ RecordHolds(f, Survives(f))'
    <3>1. RecordHolds(f, table_'[f]) /\ RecordHolds(f, Survives(f))
      BY <2>1, <2>2, <2>3 DEF Recorded, TInv, TypeOK
    <3>2. Survives(f)' = Survives(f) /\ (Holds(f) => Holds(f)')
      BY <2>1 DEF Survives, Spaced, Holds
    <3>. QED
      BY <2>1, <3>1, <3>2 DEF RecordHolds
  <2>. QED
    BY <2>1, <2>4 DEF Recorded, Undisturbed, Uploading
<1>10. CASE Empties \/ Writes \/ WriteFails
  <2>1. /\ ~Uploading'
        /\ \A f \in Files : disk'[f] \in {table_[f], None}
        /\ UNCHANGED <<clock, file, place, word, server, table_, doubtful>>
    BY <1>10 DEF Empties, Writes, WriteFails, EndIteration, Uploading
  <2>2. ASSUME NEW f \in Files \ doubtful'
        PROVE  RecordHolds(f, table_[f])' /\ RecordHolds(f, Survives(f))'
    <3>1. Survives(f)' \in {table_[f], None}
      BY <2>1 DEF Survives
    <3>2. RecordHolds(f, table_[f]) /\ RecordHolds(f, Survives(f)')
      BY <2>1, <3>1, NoRecordHolds DEF Recorded, TInv
    <3>3. Holds(f) => Holds(f)'
      BY <2>1 DEF Holds
    <3>. QED
      BY <2>1, <3>2, <3>3 DEF RecordHolds
  <2>. QED
    BY <2>1, <2>2 DEF Recorded, Undisturbed
<1>11. CASE Crash
  <2>1. PICK bad \in SUBSET Damaged : table_' = Loaded(bad)
    BY <1>11 DEF Crash
  <2>2. ~Uploading' /\ UNCHANGED <<clock, file, place, word, server, disk, doubtful>>
    BY <1>11 DEF Crash, Uploading
  <2>3. ASSUME NEW f \in Files \ doubtful'
        PROVE  RecordHolds(f, table_[f])' /\ RecordHolds(f, Survives(f))'
    <3>1. table_'[f] \in {Survives(f), Junk}
      BY <2>1, LoadedFacts DEF TInv
    <3>2. RecordHolds(f, table_'[f]) /\ RecordHolds(f, Survives(f))
      BY <2>2, <3>1, NoRecordHolds DEF Recorded, TInv
    <3>3. Survives(f)' = Survives(f) /\ (Holds(f) => Holds(f)')
      BY <2>2 DEF Survives, Spaced, Holds
    <3>. QED
      BY <2>2, <3>2, <3>3 DEF RecordHolds
  <2>. QED
    BY <2>2, <2>3 DEF Recorded, Undisturbed
<1>12. CASE User
  <2>1. PICK g \in Files, v \in Version : Change(g, v) /\ (v = Gone \/ v.mtime = clock)
    BY <1>12, EditFacts DEF TInv
  <2>2. /\ file' = [file EXCEPT ![g] = v]
        /\ doubtful \subseteq doubtful'
        /\ Uploading /\ current = g => g \in doubtful'
        /\ UNCHANGED <<clock, place, word, server, table_, disk, pc, current, body,
                       if_upload_success>>
    BY <2>1 DEF Change
  <2>3. file'[g] = v /\ \A f \in Files : f # g => file'[f] = file[f]
    BY <2>2 DEF TInv, TypeOK
  <2>4. \A f \in Files : f # g /\ Holds(f) => Holds(f)'
    BY <2>2, <2>3 DEF Holds
  <2>5. ASSUME NEW f \in Files \ doubtful'
        PROVE  RecordHolds(f, table_[f])' /\ RecordHolds(f, Survives(f))'
    <3>1. RecordHolds(f, table_[f]) /\ RecordHolds(f, Survives(f))
      BY <2>2 DEF Recorded
    <3>2. CASE f # g
      BY <2>2, <2>3, <2>4, <3>1, <3>2, KeepsRecord
    <3>3. CASE f = g
      <4>1. v # Gone => table_[f] # Identifier(v) /\ Survives(f) # Identifier(v)
        BY <1>a, <2>1, <3>1, VersionFacts DEF RecordHolds
      <4>2. Survives(f)' = Survives(f)
        BY <2>2 DEF Survives, Spaced
      <4>. QED
        BY <2>2, <2>3, <3>1, <3>3, <4>1, <4>2 DEF RecordHolds
    <3>. QED
      BY <3>2, <3>3
  <2>6. Undisturbed'
    <3>1. Uploading /\ current \notin doubtful' => current # g /\ current \in Files
      BY <2>2 DEF TInv, HasFile, Busy, Uploading
    <3>. QED
      BY <2>2, <2>3, <2>4, <3>1 DEF Recorded, Undisturbed, Uploading
  <2>. QED
    BY <2>5, <2>6 DEF Recorded
<1>13. CASE Tick
  <2>1. /\ clock' = clock + 1
        /\ UNCHANGED <<file, place, word, server, table_, disk, doubtful, pc, current, body,
                       if_upload_success>>
    BY <1>13 DEF Tick
  <2>2. \A f \in Files : /\ table_[f].mtime \in Int /\ Survives(f).mtime \in Int
                        /\ Survives(f)' = Survives(f) /\ (Holds(f) => Holds(f)')
    BY <2>1, BoundsAssumption, RecordFacts
    DEF TInv, TypeOK, Identifiers, Survives, Spaced, Holds
  <2>3. Uploading => current \in Files /\ file[current].mtime \in Int
    BY VersionFacts, BoundsAssumption DEF TInv, TypeOK, HasFile, Busy, Uploading
  <2>4. \A f \in Files \ doubtful' : RecordHolds(f, table_[f])' /\ RecordHolds(f, Survives(f))'
    BY <1>a, <2>1, <2>2 DEF Recorded, RecordHolds
  <2>5. Undisturbed'
    BY <1>a, <2>1, <2>2, <2>3 DEF Recorded, Undisturbed, Uploading
  <2>. QED
    BY <2>4, <2>5 DEF Recorded
<1>. QED
  BY <1>1, <1>2, <1>3, <1>4, <1>5, <1>6, <1>7, <1>8, <1>9, <1>10, <1>11, <1>12, <1>13
  DEF Next, Client, Server

\* A file the client will skip, because the table has its identifier, is a file
\* the server holds at the place its name leads to, unless an upload of it was
\* disturbed or another took its place since.
THEOREM MarkedIsStoredHolds == Spec => []MarkedIsStored
<1>1. Init => Recorded
  <2>. SUFFICES ASSUME Init PROVE Recorded
    OBVIOUS
  <2>1. \A f \in Files : RecordHolds(f, None)
    BY InitTyped, NoRecordHolds DEF TInv
  <2>. QED
    BY <2>1 DEF Init, Recorded, Survives, Undisturbed, Uploading
<1>2. Recorded => MarkedIsStored
  BY DEF Recorded, RecordHolds, MarkedIsStored, Existing
<1>. QED
  BY <1>1, <1>2, InitTyped, StepTyped, StepRecorded, PTL DEF Spec

-----------------------------------------------------------------------------
(* What is confirmed *)

\* If the server has confirmed a file as it is now, the table says so, or is about
\* to; and an upload begins only when it has not.
Confirmed ==
    /\ \A f \in Files : acked[f] = file[f] =>
          table_[f] = Identifier(file[f])
            \/ (pc = "decide" /\ current = f /\ if_upload_success)
    /\ pc = "upload" => acked[current] # file[current]

LEMMA StepConfirmed == TInv /\ Confirmed /\ [Next]_vars => Confirmed'
<1>. SUFFICES ASSUME TInv, Confirmed, [Next]_vars PROVE Confirmed'
  OBVIOUS
<1>. USE DEF user, names, remote, store, iterate, bounds, history
<1>1. CASE ScanLow \/ ScanDeep \/ Sleeps \/ Sends \/ ServerTakes \/ Tick \/ Empties
           \/ Writes \/ OpenFails \/ WriteFails \/ Fails \/ UNCHANGED vars
  <2>1. /\ UNCHANGED <<file, table_, acked>>
        /\ pc' = "upload" => pc = "upload" /\ current' = current
        /\ \A f \in Files : pc = "decide" /\ current = f /\ if_upload_success =>
              (pc = "decide" /\ current = f /\ if_upload_success)'
    BY <1>1
    DEF ScanLow, ScanDeep, Sleeps, Sends, ServerTakes, Tick, Empties, Writes, OpenFails,
        WriteFails, Fails, EndIteration, vars
  <2>. QED
    BY <2>1 DEF Confirmed
<1>2. ASSUME NEW f \in Files, Skips(f) PROVE Confirmed'
  BY <1>2 DEF Skips, Confirmed
<1>3. ASSUME NEW f \in Files, Begins(f) PROVE Confirmed'
  BY <1>3 DEF Begins, IfNeedUpload, Confirmed
<1>4. CASE Succeeds
  <2>1. current \in Files
    BY <1>4 DEF Succeeds, TInv, HasFile, Busy
  <2>2. \A f \in Files : f # current => acked'[f] = acked[f]
    BY <1>4 DEF Succeeds, TInv, TypeOK
  <2>. QED
    BY <1>4, <2>1, <2>2 DEF Succeeds, Confirmed
<1>5. CASE Refused \/ RefusedHalfway \/ NoResponse \/ ServerEnds
  BY <1>5 DEF Refused, RefusedHalfway, NoResponse, ServerEnds, Confirmed
<1>6. CASE Inserts
  BY <1>6 DEF Inserts, Confirmed, TInv, TypeOK
<1>7. CASE Crash
  <2>1. ASSUME NEW f \in Files, acked'[f] = file'[f] PROVE table_'[f] = Identifier(file'[f])
    <3>1. file'[f] = file[f] /\ file[f] # NoVersion
      BY <1>7, VersionFacts DEF Crash, TInv, TypeOK
    <3>. QED
      BY <1>7, <2>1, <3>1 DEF Crash
  <2>. QED
    BY <1>7, <2>1 DEF Crash, Confirmed
<1>8. CASE User
  <2>1. PICK g \in Files, v \in Version : Change(g, v)
    BY <1>8, EditFacts DEF TInv
  <2>2. v # NoVersion
    BY VersionFacts
  <2>3. /\ file'[g] = v /\ acked'[g] = NoVersion
        /\ \A f \in Files : f # g => file'[f] = file[f] /\ acked'[f] = acked[f]
        /\ UNCHANGED <<table_, pc, current, if_upload_success>>
    BY <2>1 DEF Change, TInv, TypeOK
  <2>4. pc = "upload" => current \in Files
    BY DEF TInv, HasFile, Busy
  <2>. QED
    BY <2>2, <2>3, <2>4 DEF Confirmed
<1>. QED
  BY <1>1, <1>2, <1>3, <1>4, <1>5, <1>6, <1>7, <1>8 DEF Next, Client, Server

\* What the server has confirmed is not sent again until it changes; after a
\* restart neither, if storage.dat has its line and no other line spoils it.
THEOREM ConfirmedIsNotSentAgainHolds == Spec => ConfirmedIsNotSentAgain
<1>1. Init => Confirmed
  BY VersionFacts, InitTyped DEF Init, Confirmed, TInv, TypeOK
<1>2. Confirmed => (pc = "upload" /\ pc' = "sent" => file[current] # acked[current])
  BY DEF Confirmed
<1>. QED
  BY <1>1, <1>2, InitTyped, StepTyped, StepConfirmed, PTL DEF Spec, ConfirmedIsNotSentAgain

=============================================================================
