------------------------------- MODULE LogFlush -------------------------------
(***************************************************************************)
(* Where a logger's batches end: FileFlush, one file, and RollFileFlush,   *)
(* files rolled by size (log_codes/LogFlush.hpp), with the directory that  *)
(* their constructors create (Util::File, log_codes/Util.hpp).             *)
(*                                                                         *)
(* The process may be killed and the machine may lose power between any    *)
(* two steps.  A killed process loses what is in the buffer of its stream; *)
(* a power loss also what was written and not forced to the disk.  The     *)
(* names of files and the directories are assumed to survive it, although  *)
(* the code forces files only and never a directory.                       *)
(***************************************************************************)
EXTENDS Naturals, Sequences, FiniteSets, SequencesExt

CONSTANTS
    Paths,          \* directories, as the names between the separators
    Lens,           \* lengths of batches
    MaxSize,        \* max_size_ of RollFileFlush
    Instants,       \* the times of day that pass, in order
    MaxBatches,     \* bound: batches of one run of the program
    MaxStops,       \* bound: kills and power losses
    MaxFaults       \* bound: failing calls of fopen, fwrite, fflush and fsync

ASSUME SizesAssumption == /\ Paths \subseteq Seq(STRING)
                          /\ Lens \subseteq Nat \ {0}
                          /\ Instants \in Seq([min : 0..59, sec : 0..60]) \ {<<>>}
                          /\ MaxSize \in Nat
                          /\ MaxBatches \in Nat /\ MaxStops \in Nat /\ MaxFaults \in Nat

VARIABLES
    kind,           \* the output: "FileFlush" or "RollFileFlush"
    flush_log,      \* 0: nothing, 1: fflush, 2: fflush and fsync
    path, dirs,     \* the directory of the file name; the directories there are
    pc, index,      \* where the constructor or Flush is; in CreateDirectory
    fs_, buffered,  \* the name of the open file, NULL without; the stream's buffer
    cur_size_, cnt_,
    batch,          \* the batch that Flush writes
    files,          \* name -> [data, synced]: synced batches survive a power loss
    now,            \* index in Instants
    run,            \* history: the runs of the program so far
    stops, losses, faults,  \* counters: stops of any kind, power losses, failed calls
    given,          \* history: batches handed to Flush in each run
    returned,       \* history: how many of them Flush has returned for
    opened          \* history: [run, name] of each file, as it was opened

program == <<pc, index, fs_, buffered, cur_size_, cnt_, batch>>
config  == <<kind, flush_log, path>>
counts  == <<run, stops, losses, faults>>
history == <<given, returned, opened>>
vars == <<config, dirs, program, files, now, counts, history>>

NULL  == [stamp |-> <<>>, cnt |-> 0]
Fixed == [stamp |-> <<0>>, cnt |-> 0]     \* the one file of FileFlush
Batch == [run : 1..MaxStops + 1, k : 1..MaxBatches, len : Lens]
NoBatch == [run |-> 0, k |-> 0, len |-> 0]

Init ==
    /\ kind \in {"FileFlush", "RollFileFlush"}
    /\ flush_log \in 0..2
    /\ path \in Paths
    /\ dirs = {}
    /\ pc = "construct" /\ index = 0
    /\ fs_ = NULL /\ buffered = <<>>
    /\ cur_size_ = 0 /\ cnt_ = 1
    /\ batch = NoBatch
    /\ files = [name \in {} |-> NULL]
    /\ now = 1
    /\ run = 1 /\ stops = 0 /\ losses = 0 /\ faults = 0
    /\ given = [r \in 1..MaxStops + 1 |-> <<>>]
    /\ returned = [r \in 1..MaxStops + 1 |-> 0]
    /\ opened = <<>>

Fault   == faults < MaxFaults /\ faults' = faults + 1
NoFault == faults' = faults

-----------------------------------------------------------------------------
(* Util::File::CreateDirectory *)

\* A path as the kernel resolves it: "a//./b/.." is "a".
Resolved(p) ==
    FoldLeft(LAMBDA dir, name :
                 IF name \in {"", "."} THEN dir
                 ELSE IF name = ".." /\ dir # <<>> /\ Last(dir) # ".."
                      THEN Front(dir)
                      ELSE Append(dir, name),
             <<>>, p)

\* The working directory and what is above it exist.
Present(dir) == dir \in dirs \/ \A i \in 1..Len(dir) : dir[i] = ".."
Exists(p) == \A i \in 1..Len(p) : Present(Resolved(SubSeq(p, 1, i)))

CreateDirectory ==
    /\ pc = "construct"
    /\ index' = 1
    /\ pc' = IF Exists(path) THEN "open" ELSE "mkdir"
    /\ UNCHANGED <<config, dirs, fs_, buffered, cur_size_, cnt_, batch, files, now,
                   counts, history>>

SubPath == SubSeq(path, 1, index)

\* Mutant of Skips: only the last directory of the path is made.
SkipsParents == index < Len(path)

\* An empty name between two separators, "." or ".." at the start of the path,
\* or a directory that exists.
Skips == path[index] = "" \/ SubPath \in {<<".">>, <<"..">>} \/ Exists(SubPath)

\* One round of the loop, for the part of the path up to the next separator.  Every
\* name of a path has a separator behind it (without one the loop does not end), and
\* no mkdir fails: the code does not look at its result.
MakesDirectory ==
    /\ pc = "mkdir" /\ index <= Len(path)
    /\ dirs' = IF ~Skips /\ Exists(Front(SubPath)) THEN dirs \cup {Resolved(SubPath)}
                                                    ELSE dirs
    /\ index' = index + 1
    /\ UNCHANGED <<config, pc, fs_, buffered, cur_size_, cnt_, batch, files, now, counts,
                   history>>

DirectoryMade ==
    /\ pc = "mkdir" /\ index > Len(path)
    /\ pc' = "open"
    /\ UNCHANGED <<config, dirs, index, fs_, buffered, cur_size_, cnt_, batch, files, now,
                   counts, history>>

-----------------------------------------------------------------------------
(* The stream fs_ *)

\* fopen(name, "ab") creates the file or goes on at its end.
Opens(name) ==
    /\ fs_' = name
    /\ files' = IF name \in DOMAIN files THEN files
                ELSE [n \in DOMAIN files \cup {name} |->
                        IF n = name THEN [data |-> <<>>, synced |-> 0] ELSE files[n]]
    /\ opened' = Append(opened, [run |-> run, name |-> name])

OpenFails == Fault /\ fs_' = NULL /\ UNCHANGED <<files, opened>>

Fopen(name) == (Exists(path) /\ NoFault /\ Opens(name)) \/ OpenFails

\* The files once the first k buffered batches are written to fs_.
WrittenOut(k) ==
    [files EXCEPT ![fs_].data = @ \o SubSeq(buffered \o <<batch>>, 1, k)]

\* The library may write out any part of its buffer when it likes.
Fwrite ==
    \/ /\ NoFault
       /\ \E k \in 0..Len(buffered) + 1 :
            /\ files' = WrittenOut(k)
            /\ buffered' = SubSeq(buffered \o <<batch>>, k + 1, Len(buffered) + 1)
    \/ Fault /\ UNCHANGED <<files, buffered>>

\* Mutant of FlushStream: forces to the disk what was written before.
SyncsBeforeFlush ==
    /\ NoFault
    /\ files' = IF flush_log = 0 THEN files
                ELSE [files EXCEPT ![fs_] =
                    [data |-> @.data \o buffered,
                     synced |-> IF flush_log = 2 THEN Len(@.data) ELSE @.synced]]
    /\ buffered' = IF flush_log = 0 THEN buffered ELSE <<>>

Flushed == [data |-> files[fs_].data \o buffered,
            synced |-> IF flush_log = 2 THEN Len(files[fs_].data \o buffered)
                                        ELSE files[fs_].synced]

\* What fflush or fsync returns is reported at most. An fsync that fails after its
\* fflush leaves what there is when Fwrite has written all of it out.
FlushStream ==
    \/ flush_log = 0 /\ NoFault /\ UNCHANGED <<files, buffered>>
    \/ /\ flush_log # 0 /\ NoFault
       /\ files' = [files EXCEPT ![fs_] = Flushed]
       /\ buffered' = <<>>
    \/ flush_log # 0 /\ Fault /\ UNCHANGED <<files, buffered>>

-----------------------------------------------------------------------------
(* FileFlush and RollFileFlush *)

\* FileFlush opens its file in the constructor, RollFileFlush when it is used.
ConstructorOpens ==
    /\ pc = "open"
    /\ IF kind = "FileFlush" THEN Fopen(Fixed)
       ELSE NoFault /\ UNCHANGED <<fs_, files, opened>>
    /\ pc' = "ready"
    /\ UNCHANGED <<config, dirs, index, buffered, cur_size_, cnt_, batch, now, run,
                   stops, losses, given, returned>>

\* RealFlush hands over a batch.
Flush(len) ==
    /\ pc = "ready"
    /\ Len(given[run]) < MaxBatches
    /\ batch' = [run |-> run, k |-> Len(given[run]) + 1, len |-> len]
    /\ given' = [given EXCEPT ![run] = Append(@, batch')]
    /\ pc' = IF kind = "FileFlush" THEN "write" ELSE "init"
    /\ UNCHANGED <<config, dirs, index, fs_, buffered, cur_size_, cnt_, files, now,
                   counts, returned, opened>>

\* Mutant of MustRoll: the size is exceeded before the file is changed.
RollsLate == fs_ = NULL \/ cur_size_ > MaxSize

MustRoll == fs_ = NULL \/ cur_size_ >= MaxSize

Digits(n) == IF n < 10 THEN <<n>> ELSE <<n \div 10, n % 10>>

\* The numbers of the time of day are put together without padding.
CreateFilename ==
    [stamp |-> Digits(Instants[now].min + 1) \o Digits(Instants[now].sec + 1),
     cnt |-> cnt_]

KeepsFile ==
    /\ pc = "init" /\ ~MustRoll
    /\ pc' = "write"
    /\ UNCHANGED <<config, dirs, index, fs_, buffered, cur_size_, cnt_, batch, files,
                   now, counts, history>>

FirstFile ==
    /\ pc = "init" /\ fs_ = NULL
    /\ Fopen(CreateFilename)
    /\ cnt_' = cnt_ + 1 /\ cur_size_' = 0
    /\ pc' = "write"
    /\ UNCHANGED <<config, dirs, index, buffered, batch, now, run, stops, losses, given,
                   returned>>

\* Mutant of Closes: the old stream is forgotten, not closed.
ForgetsStream ==
    /\ pc = "init" /\ fs_ # NULL /\ MustRoll
    /\ fs_' = NULL
    /\ buffered' = <<>>
    /\ UNCHANGED <<config, dirs, pc, index, cur_size_, cnt_, batch, files, now, counts,
                   history>>

\* Mutant of Closes: the buffer is left for the next stream.
KeepsBuffer ==
    /\ pc = "init" /\ fs_ # NULL /\ MustRoll
    /\ fs_' = NULL
    /\ UNCHANGED <<config, dirs, pc, index, buffered, cur_size_, cnt_, batch, files, now,
                   counts, history>>

\* fclose writes the buffer out.
Closes ==
    /\ pc = "init" /\ fs_ # NULL /\ MustRoll
    /\ files' = [files EXCEPT ![fs_].data = @ \o buffered]
    /\ fs_' = NULL
    /\ buffered' = <<>>
    /\ UNCHANGED <<config, dirs, pc, index, cur_size_, cnt_, batch, now, counts, history>>

Writes ==
    /\ pc = "write" /\ fs_ # NULL
    /\ Fwrite
    /\ cur_size_' = IF kind = "RollFileFlush" THEN cur_size_ + batch.len ELSE cur_size_
    /\ pc' = "flush"
    /\ UNCHANGED <<config, dirs, index, fs_, cnt_, batch, now, run, stops, losses, history>>

Flushes ==
    /\ pc = "flush"
    /\ FlushStream
    /\ returned' = [returned EXCEPT ![run] = Len(given[run])]
    /\ pc' = "ready"
    /\ batch' = NoBatch
    /\ UNCHANGED <<config, dirs, index, fs_, cur_size_, cnt_, now, run, stops, losses, given,
                   opened>>

-----------------------------------------------------------------------------
(* The process and the machine *)

Dies ==
    /\ pc' = "down" /\ index' = 0
    /\ fs_' = NULL /\ buffered' = <<>>
    /\ cur_size_' = 0 /\ cnt_' = 1
    /\ batch' = NoBatch

\* fwrite on the NULL that a failed fopen returned ends the process.
WritesToNull ==
    /\ pc = "write" /\ fs_ = NULL
    /\ stops' = stops + 1
    /\ Dies
    /\ UNCHANGED <<config, dirs, files, now, run, losses, faults, history>>

Kill ==
    /\ pc # "down" /\ stops < MaxStops
    /\ stops' = stops + 1
    /\ Dies
    /\ UNCHANGED <<config, dirs, files, now, run, losses, faults, history>>

\* Of each file a part is left that holds at least what was forced to the disk.
PowerLoss ==
    /\ stops < MaxStops
    /\ stops' = stops + 1 /\ losses' = losses + 1
    /\ Dies
    /\ \E left \in [DOMAIN files -> 0..(MaxStops + 1) * MaxBatches] :
         /\ \A n \in DOMAIN files :
              files[n].synced <= left[n] /\ left[n] <= Len(files[n].data)
         /\ files' = [n \in DOMAIN files |->
                [data |-> SubSeq(files[n].data, 1, left[n]), synced |-> left[n]]]
    /\ UNCHANGED <<config, dirs, now, run, faults, history>>

Restart ==
    /\ pc = "down" /\ run <= MaxStops
    /\ pc' = "construct"
    /\ run' = run + 1
    /\ UNCHANGED <<config, dirs, index, fs_, buffered, cur_size_, cnt_, batch, files,
                   now, stops, losses, faults, history>>

Tick ==
    /\ now < Len(Instants)
    /\ now' = now + 1
    /\ UNCHANGED <<config, dirs, program, files, counts, history>>

Constructor == CreateDirectory \/ MakesDirectory \/ DirectoryMade \/ ConstructorOpens

Next ==
    \/ Constructor
    \/ \E len \in Lens : Flush(len)
    \/ KeepsFile \/ Closes \/ FirstFile \/ Writes \/ Flushes
    \/ WritesToNull \/ Kill \/ PowerLoss \/ Restart \/ Tick

\* The constructor runs when nobody stops it.
Spec == Init /\ [][Next]_vars /\ WF_vars(Constructor)

-----------------------------------------------------------------------------
(* Properties *)

\* Every variable keeps its type, only an open stream has a buffer, and nothing
\* is on the disk that was not written.
TypeOK ==
    /\ kind \in {"FileFlush", "RollFileFlush"} /\ flush_log \in 0..2
    /\ path \in Paths
    /\ pc \in {"construct", "mkdir", "open", "ready", "init", "write", "flush", "down"}
    /\ index \in 0..Len(path) + 1
    /\ fs_ \in DOMAIN files \cup {NULL}
    /\ buffered \in Seq(Batch)
    /\ fs_ = NULL => buffered = <<>>
    /\ cur_size_ \in Nat /\ cnt_ \in Nat
    /\ batch \in Batch \cup {NoBatch}
    /\ files \in [DOMAIN files -> [data : Seq(Batch), synced : Nat]]
    /\ \A name \in DOMAIN files : files[name].synced <= Len(files[name].data)
    /\ now \in 1..Len(Instants)
    /\ run \in 1..MaxStops + 1 /\ faults \in 0..MaxFaults
    /\ stops \in Nat /\ losses \in Nat
    /\ given \in [1..MaxStops + 1 -> Seq(Batch)]
    /\ returned \in [1..MaxStops + 1 -> Nat]
    /\ opened \in Seq([run : 1..MaxStops + 1, name : DOMAIN files])

\* What the file holds that was opened i-th, and where batches of run r are in it,
\* if r opened it.
Data(i) == files[opened[i].name].data
Places(i, r) == {j \in 1..Len(Data(i)) : opened[i].run = r /\ Data(i)[j].run = r}

Survives(b) ==
    \E i \in 1..Len(opened) : \E j \in Places(i, b.run) : Data(i)[j] = b

\* Read in the order in which run r opened its files, the batches of r that
\* survive are in the order in which they were given, and none is there twice.
InOrder(r) ==
    \A i1, i2 \in 1..Len(opened) : \A j1 \in Places(i1, r), j2 \in Places(i2, r) :
        i1 < i2 \/ (i1 = i2 /\ j1 < j2) => Data(i1)[j1].k < Data(i2)[j2].k

\* Unless the machine loses power or a call fails, what a run leaves behind is a
\* beginning of what it was given: read over all the files it rolled through,
\* nothing is missing in between, doubled or out of order, whatever flush_log
\* says and wherever it was killed, also when a file goes on an older one of the
\* same name.
PrefixSurvives ==
    losses = 0 /\ faults = 0 =>
        \A r \in 1..run :
            /\ InOrder(r)
            /\ \A i \in 1..Len(opened) : \A j \in Places(i, r) :
                  \E k \in 1..Len(given[r]) : Data(i)[j] = given[r][k]
            /\ \A k \in 1..Len(given[r]) : \A j \in 1..k :
                  Survives(given[r][k]) => Survives(given[r][j])

\* A batch for which Flush has returned survives, in its order, a kill with
\* flush_log 1 and a power loss with flush_log 2 (LogFlush.hpp:31-34), also one in
\* a file that was rolled away since.
ReturnedSurvives ==
    faults = 0 /\ (flush_log = 2 \/ (flush_log = 1 /\ losses = 0)) =>
        \A r \in 1..run :
            /\ InOrder(r)
            /\ \A k \in 1..returned[r] : Survives(given[r][k])

\* How long the batches of these runs are together.
Share(b, runs) == IF b.run \in runs THEN b.len ELSE 0

Size(batches, runs) ==
    LET size[n \in 0..Len(batches)] ==
            IF n = 0 THEN 0 ELSE size[n - 1] + Share(batches[n], runs)
    IN  size[Len(batches)]

Openings(name) == Cardinality({i \in 1..Len(opened) : opened[i].name = name})

\* A rolled file ends by one batch at most past max_size_, once for each time it
\* was opened, and a run leaves it for another only when it is full.
RollsBySize ==
    kind = "RollFileFlush" /\ MaxSize # 0 =>
        /\ \A longest \in Lens : (\A len \in Lens : len <= longest) =>
             \A name \in DOMAIN files :
                Size(files[name].data, Nat) <= Openings(name) * (MaxSize - 1 + longest)
        /\ losses = 0 /\ faults = 0 =>
             \A i, j \in 1..Len(opened) : i < j /\ opened[i].run = opened[j].run =>
                Size(Data(i), {opened[i].run}) >= MaxSize

\* The loop over the parts of the path ends, with the directory of the file there,
\* whatever separators and dots the path has and wherever an earlier run was
\* stopped.
ConstructorReturns == pc = "construct" ~> (pc = "ready" /\ Exists(path)) \/ pc = "down"

=============================================================================
