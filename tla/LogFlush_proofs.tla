--------------------------- MODULE LogFlush_proofs ---------------------------
(***************************************************************************)
(* Proofs about LogFlush, for any paths, lengths of batches, sizes, times  *)
(* of day, and any number of batches, kills, power losses and failed calls.*)
(***************************************************************************)
EXTENDS LogFlush, SequenceTheorems, TLAPS

Starting == {"construct", "mkdir", "open"}
Busy     == {"init", "write", "flush"}

\* What each run was given is numbered, and the last batch is the one that Flush
\* is at work on; no run has been given anything before its constructor returns.
Numbered ==
    /\ \A r \in 1..MaxStops + 1 :
         /\ \A k \in 1..Len(given[r]) : given[r][k].run = r /\ given[r][k].k = k
         /\ r > run \/ (r = run /\ pc \in Starting) => given[r] = <<>> /\ returned[r] = 0
    /\ pc \in Busy => /\ Len(given[run]) # 0
                      /\ batch = given[run][Len(given[run])]

\* Which stream is open, and under which names the run has opened files.
Streams ==
    /\ pc \in Starting \cup {"down"} => fs_ = NULL
    /\ pc = "flush" => fs_ # NULL
    /\ pc = "init" => kind = "RollFileFlush"
    /\ fs_ # NULL => /\ Len(opened) # 0
                     /\ opened[Len(opened)].run = run /\ opened[Len(opened)].name = fs_
    /\ \A i \in 1..Len(opened) :
         /\ opened[i].run <= run
         /\ opened[i].run = run /\ pc # "down" =>
               IF kind = "FileFlush" THEN pc \notin Starting
               ELSE opened[i].name.cnt \in Nat /\ opened[i].name.cnt < cnt_

\* No run opens one file twice.
OpenedOnce ==
    \A i1, i2 \in 1..Len(opened) :
        opened[i1].run = opened[i2].run /\ opened[i1].name = opened[i2].name => i1 = i2

\* A batch that was given.
Given(b) == b.k \in 1..Len(given[b.run]) /\ b = given[b.run][b.k]

\* Whatever is in a file or in the stream's buffer was given, to the run that
\* opened the file.
Genuine ==
    /\ \A name \in DOMAIN files : \A j \in 1..Len(files[name].data) :
         /\ Given(files[name].data[j])
         /\ \E i \in 1..Len(opened) : /\ opened[i].name = name
                                      /\ opened[i].run = files[name].data[j].run
    /\ \A q \in 1..Len(buffered) : Given(buffered[q]) /\ buffered[q].run = run

\* How many batches of the run fwrite has been called for, and how many of them
\* have left the stream's buffer.
Pushed == IF pc \in {"init", "write"} THEN Len(given[run]) - 1 ELSE Len(given[run])
Out    == Pushed - Len(buffered)

\* The run's batches leave the buffer in order, and those that have left it are
\* what the files hold of the run.
Ordered ==
    /\ \A r \in 1..MaxStops + 1 : InOrder(r)
    /\ pc # "down" =>
         /\ Out \in Nat
         /\ \A q \in 1..Len(buffered) : buffered[q].k = Out + q
         /\ \A i \in 1..Len(opened) : \A j \in Places(i, run) : Data(i)[j].k <= Out
         /\ \A k \in 1..Out : Survives(given[run][k])

\* A power loss apart, what survives of a run has no holes.
Whole ==
    losses = 0 =>
        \A r \in 1..MaxStops + 1 : \A k \in 1..Len(given[r]) : \A j \in 1..k :
            Survives(given[r][k]) => Survives(given[r][j])

Synced(b) ==
    \E i \in 1..Len(opened) : \E j \in Places(i, b.run) :
        Data(i)[j] = b /\ j <= files[opened[i].name].synced

\* With flush_log nothing is left in the buffer between two calls of Flush, and
\* Flush has returned for what the run was given.
Position ==
    /\ pc \in {"ready", "init", "write"} => buffered = <<>>
    /\ pc = "ready" => returned[run] = Len(given[run])
    /\ pc \in Busy => returned[run] = Len(given[run]) - 1

\* The batch that is written and not flushed is in no file but the open one.
InLast ==
    pc = "flush" =>
        \A i \in 1..Len(opened) : \A j \in Places(i, run) :
            Data(i)[j].k = Len(given[run]) => i = Len(opened)

\* A batch for which Flush has returned is where flush_log says.
Safe(r, k) ==
    /\ k \in 1..Len(given[r])
    /\ losses = 0 => Survives(given[r][k])
    /\ flush_log = 2 => Synced(given[r][k])

Returned ==
    flush_log # 0 =>
        /\ Position /\ InLast
        /\ \A r \in 1..MaxStops + 1 : \A k \in 1..returned[r] : Safe(r, k)

\* What holds whatever fails.
TInv == TypeOK /\ Numbered /\ Streams /\ OpenedOnce /\ Genuine

\* The inductive invariant of the two theorems on what survives.
IInv == TInv /\ (faults = 0 => Ordered /\ Whole /\ Returned)

-----------------------------------------------------------------------------
(* Types *)

Control ==
    /\ kind \in {"FileFlush", "RollFileFlush"} /\ flush_log \in 0..2
    /\ path \in Paths
    /\ pc \in Starting \cup Busy \cup {"ready", "down"}
    /\ index \in 0..Len(path) + 1
    /\ cur_size_ \in Nat /\ cnt_ \in Nat
    /\ now \in 1..Len(Instants)
    /\ run \in 1..MaxStops + 1 /\ faults \in 0..MaxFaults
    /\ stops \in Nat /\ losses \in Nat

Stream ==
    /\ fs_ \in DOMAIN files \cup {NULL}
    /\ buffered \in Seq(Batch)
    /\ fs_ = NULL => buffered = <<>>
    /\ files \in [DOMAIN files -> [data : Seq(Batch), synced : Nat]]
    /\ \A name \in DOMAIN files : files[name].synced <= Len(files[name].data)
    /\ opened \in Seq([run : 1..MaxStops + 1, name : DOMAIN files])

Handed ==
    /\ batch \in Batch \cup {NoBatch}
    /\ given \in [1..MaxStops + 1 -> Seq(Batch)]
    /\ returned \in [1..MaxStops + 1 -> Nat]

LEMMA TypeParts == TypeOK <=> Control /\ Stream /\ Handed
BY DEF TypeOK, Control, Stream, Handed, Starting, Busy

LEMMA BatchFacts ==
    ASSUME NEW b \in Batch
    PROVE  b.run \in 1..MaxStops + 1 /\ b.k \in Nat /\ b.k >= 1 /\ b.len \in Nat
<1>1. b.run \in 1..MaxStops + 1 /\ b.k \in 1..MaxBatches /\ b.len \in Lens
  BY DEF Batch
<1>2. Lens \subseteq Nat \ {0} /\ MaxBatches \in Nat
  BY SizesAssumption
<1>3. b.len \in Nat
  BY <1>1, <1>2
<1>. QED
  BY <1>1, <1>2, <1>3

LEMMA RunFacts == ASSUME Control PROVE run \in Nat /\ run >= 1 /\ run <= MaxStops + 1
BY SizesAssumption DEF Control

LEMMA FileFacts ==
    ASSUME Stream, NEW name \in DOMAIN files
    PROVE  /\ files[name].data \in Seq(Batch) /\ files[name].synced \in Nat
           /\ files[name].synced <= Len(files[name].data)
           /\ Len(files[name].data) \in Nat
           /\ \A j \in 1..Len(files[name].data) : files[name].data[j] \in Batch
<1>1. files[name] \in [data : Seq(Batch), synced : Nat]
  BY DEF Stream
<1>2. files[name].data \in Seq(Batch) /\ files[name].synced \in Nat
  BY <1>1
<1>. QED
  BY <1>2, LenProperties, ElementOfSeq DEF Stream

LEMMA OpenedFacts ==
    ASSUME Stream
    PROVE  /\ Len(opened) \in Nat
           /\ \A i \in 1..Len(opened) : /\ opened[i].run \in 1..MaxStops + 1
                                        /\ opened[i].name \in DOMAIN files
                                        /\ Data(i) \in Seq(Batch) /\ Len(Data(i)) \in Nat
                                        /\ \A j \in 1..Len(Data(i)) : Data(i)[j] \in Batch
<1>1. Len(opened) \in Nat
  BY LenProperties DEF Stream
<1>2. ASSUME NEW i \in 1..Len(opened)
      PROVE  opened[i].run \in 1..MaxStops + 1 /\ opened[i].name \in DOMAIN files
  <2>1. opened[i] \in [run : 1..MaxStops + 1, name : DOMAIN files]
    BY ElementOfSeq DEF Stream
  <2>. QED
    BY <2>1
<1>. QED
  BY <1>1, <1>2, FileFacts DEF Data

LEMMA GivenFacts ==
    ASSUME Handed, NEW r \in 1..MaxStops + 1
    PROVE  /\ given[r] \in Seq(Batch) /\ Len(given[r]) \in Nat
           /\ \A k \in 1..Len(given[r]) : given[r][k] \in Batch
           /\ returned[r] \in Nat
<1>1. given[r] \in Seq(Batch)
  BY DEF Handed
<1>. QED
  BY <1>1, LenProperties, ElementOfSeq DEF Handed

LEMMA BufferFacts ==
    ASSUME Stream
    PROVE  /\ Len(buffered) \in Nat
           /\ \A q \in 1..Len(buffered) : buffered[q] \in Batch
BY LenProperties, ElementOfSeq DEF Stream

-----------------------------------------------------------------------------
(* What the steps do to the files *)

\* Batches of this run are written at the end of the open file.
Appends(out, s) ==
    /\ fs_ # NULL
    /\ out \in Seq(Batch) /\ \A q \in 1..Len(out) : out[q].run = run
    /\ s \in Nat /\ files[fs_].synced <= s /\ s <= Len(files[fs_].data \o out)
    /\ files' = [files EXCEPT ![fs_] = [data |-> files[fs_].data \o out, synced |-> s]]
    /\ opened' = opened

LEMMA AppendsFacts ==
    ASSUME Stream, NEW out, NEW s, Appends(out, s)
    PROVE  LET old == files[fs_].data
           IN  /\ fs_ \in DOMAIN files /\ DOMAIN files' = DOMAIN files
               /\ files' \in [DOMAIN files -> [data : Seq(Batch), synced : Nat]]
               /\ \A n \in DOMAIN files : n # fs_ => files'[n] = files[n]
               /\ \A n \in DOMAIN files : files[n].synced <= files'[n].synced
               /\ \A n \in DOMAIN files : files'[n].synced <= Len(files'[n].data)
               /\ files'[fs_].synced = s
               /\ Len(old) \in Nat /\ Len(out) \in Nat
               /\ Len(files'[fs_].data) = Len(old) + Len(out)
               /\ \A j \in 1..Len(old) : files'[fs_].data[j] = old[j]
               /\ \A q \in 1..Len(out) : files'[fs_].data[Len(old) + q] = out[q]
               /\ \A j \in 1..Len(old) + Len(out) :
                    j \in 1..Len(old) \/ \E q \in 1..Len(out) : j = Len(old) + q
<1>. DEFINE old == files[fs_].data
            new == old \o out
<1>1. fs_ \in DOMAIN files
  BY DEF Stream, Appends
<1>2. old \in Seq(Batch) /\ Len(old) \in Nat /\ files[fs_].synced \in Nat
  BY <1>1, FileFacts
<1>3. out \in Seq(Batch) /\ Len(out) \in Nat
  BY LenProperties DEF Appends
<1>4. /\ new \in Seq(Batch) /\ Len(new) = Len(old) + Len(out)
      /\ \A i \in 1..Len(old) + Len(out) :
            new[i] = IF i <= Len(old) THEN old[i] ELSE out[i - Len(old)]
  BY <1>2, <1>3, ConcatProperties
<1>5. DOMAIN files' = DOMAIN files
  BY DEF Appends
<1>6. files'[fs_].data = new /\ files'[fs_].synced = s /\ files'[fs_] = [data |-> new, synced |-> s]
  BY <1>1 DEF Appends
<1>7. \A n \in DOMAIN files : n # fs_ => files'[n] = files[n]
  BY DEF Appends
<1>8. s \in Nat /\ files[fs_].synced <= s /\ s <= Len(new)
  BY DEF Appends
<1>. HIDE DEF new, old
<1>9. files' \in [DOMAIN files -> [data : Seq(Batch), synced : Nat]]
  <2>1. files'[fs_] \in [data : Seq(Batch), synced : Nat]
    BY <1>4, <1>6, <1>8
  <2>2. \A n \in DOMAIN files : files'[n] \in [data : Seq(Batch), synced : Nat]
    BY <2>1, <1>7 DEF Stream
  <2>3. files' = [n \in DOMAIN files |-> files'[n]]
    BY DEF Appends, Stream
  <2>. QED
    BY <2>2, <2>3
<1>10. \A n \in DOMAIN files : files[n].synced <= files'[n].synced
  BY <1>6, <1>7, <1>8, FileFacts
<1>11. \A n \in DOMAIN files : files'[n].synced <= Len(files'[n].data)
  BY <1>6, <1>7, <1>8, FileFacts
<1>12. \A j \in 1..Len(old) : new[j] = old[j]
  BY <1>2, <1>3, <1>4
<1>13. \A q \in 1..Len(out) : new[Len(old) + q] = out[q]
  <2>. TAKE q \in 1..Len(out)
  <2>1. /\ Len(old) + q \in 1..Len(old) + Len(out) /\ ~(Len(old) + q <= Len(old))
        /\ (Len(old) + q) - Len(old) = q
    BY <1>2, <1>3
  <2>. QED
    BY <2>1, <1>4
<1>14. \A j \in 1..Len(old) + Len(out) :
          j \in 1..Len(old) \/ \E q \in 1..Len(out) : j = Len(old) + q
  <2>. TAKE j \in 1..Len(old) + Len(out)
  <2>1. CASE j <= Len(old)
    BY <2>1, <1>2, <1>3
  <2>2. CASE j > Len(old)
    <3>1. j - Len(old) \in 1..Len(out) /\ j = Len(old) + (j - Len(old))
      BY <2>2, <1>2, <1>3
    <3>. QED
      BY <3>1
  <2>. QED
    BY <2>1, <2>2, <1>2, <1>3
<1>. QED
  BY <1>1, <1>2, <1>3, <1>4, <1>5, <1>6, <1>7, <1>9, <1>10, <1>11, <1>12, <1>13, <1>14
     DEF old

LEMMA Rewritten ==
    ASSUME Stream, fs_ \in DOMAIN files, NEW d
    PROVE  [files EXCEPT ![fs_].data = d] =
               [files EXCEPT ![fs_] = [data |-> d, synced |-> files[fs_].synced]]
<1>1. files[fs_] \in [data : Seq(Batch), synced : Nat]
  BY DEF Stream
<1>2. [files[fs_] EXCEPT !.data = d] = [data |-> d, synced |-> files[fs_].synced]
  BY <1>1
<1>. QED
  BY <1>2

LEMMA FileAppends ==
    ASSUME Stream, fs_ # NULL, NEW out \in Seq(Batch),
           \A q \in 1..Len(out) : out[q].run = run, opened' = opened,
           NEW s \in Nat, files[fs_].synced <= s, s <= Len(files[fs_].data) + Len(out),
           files' = [files EXCEPT ![fs_] = [data |-> files[fs_].data \o out, synced |-> s]]
    PROVE  Appends(out, s)
<1>1. fs_ \in DOMAIN files
  BY DEF Stream
<1>2. Len(files[fs_].data \o out) = Len(files[fs_].data) + Len(out)
  BY <1>1, FileFacts, ConcatProperties
<1>. QED
  BY <1>2 DEF Appends

\* The buffer with the batch that fwrite adds.
Filled == buffered \o <<batch>>

LEMMA FilledFacts ==
    ASSUME TInv, pc \in Busy
    PROVE  /\ Filled \in Seq(Batch) /\ Len(Filled) = Len(buffered) + 1
           /\ Len(buffered) \in Nat
           /\ \A q \in 1..Len(buffered) : Filled[q] = buffered[q]
           /\ Filled[Len(buffered) + 1] = batch
           /\ \A q \in 1..Len(Filled) : Given(Filled[q]) /\ Filled[q].run = run
           /\ batch = given[run][Len(given[run])] /\ Len(given[run]) >= 1
           /\ batch.run = run /\ batch.k = Len(given[run])
<1>1. Control /\ Stream /\ Handed /\ run \in 1..MaxStops + 1
  BY TypeParts DEF TInv, Control
<1>2. /\ Len(given[run]) \in Nat /\ Len(given[run]) # 0
      /\ batch = given[run][Len(given[run])]
  BY <1>1, GivenFacts DEF TInv, Numbered
<1>3. /\ Len(given[run]) \in 1..Len(given[run])
      /\ batch \in Batch /\ batch.run = run /\ batch.k = Len(given[run])
  <2>1. Len(given[run]) \in 1..Len(given[run])
    BY <1>2
  <2>2. batch \in Batch
    BY <1>1, <1>2, <2>1, GivenFacts
  <2>3. batch.run = run /\ batch.k = Len(given[run])
    BY <1>1, <1>2, <2>1 DEF TInv, Numbered
  <2>. QED
    BY <2>1, <2>2, <2>3
<1>4. Given(batch)
  BY <1>2, <1>3 DEF Given
<1>5. buffered \in Seq(Batch) /\ Len(buffered) \in Nat
  BY <1>1, BufferFacts DEF Stream
<1>6. <<batch>> \in Seq(Batch) /\ Len(<<batch>>) = 1 /\ <<batch>>[1] = batch
  BY <1>3
<1>7. /\ Filled \in Seq(Batch) /\ Len(Filled) = Len(buffered) + 1
      /\ \A i \in 1..Len(buffered) + 1 :
           Filled[i] = IF i <= Len(buffered) THEN buffered[i]
                                             ELSE <<batch>>[i - Len(buffered)]
  BY <1>5, <1>6, ConcatProperties DEF Filled
<1>8. \A q \in 1..Len(buffered) : Filled[q] = buffered[q]
  BY <1>5, <1>7
<1>9. Filled[Len(buffered) + 1] = batch
  <2>1. /\ Len(buffered) + 1 \in 1..Len(buffered) + 1 /\ ~(Len(buffered) + 1 <= Len(buffered))
        /\ (Len(buffered) + 1) - Len(buffered) = 1
    BY <1>5
  <2>. QED
    BY <2>1, <1>6, <1>7
<1>10. ASSUME NEW q \in 1..Len(Filled) PROVE Given(Filled[q]) /\ Filled[q].run = run
  <2>1. q \in 1..Len(buffered) \/ q = Len(buffered) + 1
    BY <1>5, <1>7
  <2>2. CASE q \in 1..Len(buffered)
    BY <2>2, <1>8 DEF TInv, Genuine
  <2>3. CASE q = Len(buffered) + 1
    BY <2>3, <1>3, <1>4, <1>9
  <2>. QED
    BY <2>1, <2>2, <2>3
<1>. QED
  BY <1>2, <1>3, <1>5, <1>7, <1>8, <1>9, <1>10

\* fwrite: a part of the buffer goes to the file, the rest stays.
LEMMA FwriteEffect ==
    ASSUME TInv, Writes
    PROVE  \/ /\ faults' = faults
              /\ \E k \in 0..Len(Filled) : \E out, rest :
                   /\ Appends(out, files[fs_].synced)
                   /\ Len(out) = k /\ \A q \in 1..k : out[q] = Filled[q]
                   /\ buffered' = rest
                   /\ rest \in Seq(Batch) /\ Len(rest) = Len(Filled) - k
                   /\ \A q \in 1..Len(Filled) - k : rest[q] = Filled[k + q]
           \/ faults' = faults + 1 /\ UNCHANGED <<files, buffered, opened>>
<1>1. Stream /\ fs_ # NULL /\ fs_ \in DOMAIN files /\ pc \in Busy /\ opened' = opened
  BY TypeParts DEF TInv, Writes, Busy, Stream, history
<1>2. CASE Fault /\ UNCHANGED <<files, buffered>>
  BY <1>1, <1>2 DEF Fault
<1>3. ASSUME NoFault, NEW k \in 0..Len(buffered) + 1, files' = WrittenOut(k),
             buffered' = SubSeq(buffered \o <<batch>>, k + 1, Len(buffered) + 1)
      PROVE  /\ faults' = faults
             /\ \E k_1 \in 0..Len(Filled) : \E out, rest :
                   /\ Appends(out, files[fs_].synced)
                   /\ Len(out) = k_1 /\ \A q \in 1..k_1 : out[q] = Filled[q]
                   /\ buffered' = rest
                   /\ rest \in Seq(Batch) /\ Len(rest) = Len(Filled) - k_1
                   /\ \A q \in 1..Len(Filled) - k_1 : rest[q] = Filled[k_1 + q]
  <2>. DEFINE out == SubSeq(Filled, 1, k)
              rest == SubSeq(Filled, k + 1, Len(Filled))
  <2>1. /\ Filled \in Seq(Batch) /\ Len(Filled) = Len(buffered) + 1 /\ Len(buffered) \in Nat
        /\ k \in 0..Len(Filled) /\ k \in Int /\ \A q \in 1..Len(Filled) : Filled[q] \in Batch
        /\ \A q \in 1..Len(Filled) : Filled[q].run = run
    BY <1>1, FilledFacts, ElementOfSeq
  <2>2. /\ out \in Seq(Batch) /\ Len(out) = k
        /\ \A q \in 1..k : out[q] = Filled[q]
    <3>1. \A i \in 1..k : Filled[i] \in Batch
      BY <2>1
    <3>2. /\ out \in Seq(Batch) /\ Len(out) = IF 1 <= k THEN k - 1 + 1 ELSE 0
          /\ \A i \in 1..k - 1 + 1 : out[i] = Filled[1 + i - 1]
      BY <2>1, <3>1, SubSeqProperties
    <3>3. \A i \in 1..k : 1 + i - 1 = i /\ i \in 1..k - 1 + 1
      BY <2>1
    <3>4. Len(out) = k
      BY <2>1, <3>2
    <3>. HIDE DEF out
    <3>. QED
      BY <3>2, <3>3, <3>4
  <2>3. /\ rest \in Seq(Batch) /\ Len(rest) = Len(Filled) - k
        /\ \A q \in 1..Len(Filled) - k : rest[q] = Filled[k + q]
    <3>. DEFINE n == Len(Filled)
    <3>1. \A i \in k + 1..n : Filled[i] \in Batch
      BY <2>1
    <3>2. /\ rest \in Seq(Batch) /\ Len(rest) = IF k + 1 <= n THEN n - (k + 1) + 1 ELSE 0
          /\ \A i \in 1..n - (k + 1) + 1 : rest[i] = Filled[(k + 1) + i - 1]
      <4>1. k + 1 \in Int /\ n \in Int
        BY <2>1
      <4>. QED
        BY <3>1, <4>1, SubSeqProperties
    <3>3. n \in Nat /\ k <= n /\ k \in Nat
      BY <2>1
    <3>. HIDE DEF rest, n
    <3>4. Len(rest) = n - k
      BY <3>2, <3>3
    <3>5. ASSUME NEW q \in 1..n - k PROVE rest[q] = Filled[k + q]
      <4>1. q \in 1..n - (k + 1) + 1 /\ (k + 1) + q - 1 = k + q
        BY <3>3
      <4>. QED
        BY <3>2, <4>1
    <3>. QED
      BY <3>2, <3>4, <3>5 DEF n
  <2>4. files' = [files EXCEPT ![fs_] = [data |-> files[fs_].data \o out,
                                         synced |-> files[fs_].synced]]
    <3>1. files' = [files EXCEPT ![fs_].data = files[fs_].data \o out]
      BY <1>3 DEF WrittenOut, Filled
    <3>. QED
      BY <1>1, <3>1, Rewritten
  <2>5. buffered' = rest
    BY <1>3, <2>1 DEF Filled
  <2>. HIDE DEF out, rest
  <2>6. Appends(out, files[fs_].synced)
    <3>1. /\ files[fs_].synced \in Nat /\ files[fs_].synced <= Len(files[fs_].data)
          /\ Len(files[fs_].data) \in Nat
      BY <1>1, FileFacts
    <3>2. /\ files[fs_].synced <= files[fs_].synced
          /\ files[fs_].synced <= Len(files[fs_].data) + Len(out)
      BY <3>1, <2>1, <2>2
    <3>3. \A q \in 1..Len(out) : out[q].run = run
      BY <2>1, <2>2
    <3>. QED
      BY <1>1, <2>2, <2>4, <3>1, <3>2, <3>3, FileAppends
  <2>7. \E out_1, rest_1 :
           /\ Appends(out_1, files[fs_].synced)
           /\ Len(out_1) = k /\ \A q \in 1..k : out_1[q] = Filled[q]
           /\ buffered' = rest_1
           /\ rest_1 \in Seq(Batch) /\ Len(rest_1) = Len(Filled) - k
           /\ \A q \in 1..Len(Filled) - k : rest_1[q] = Filled[k + q]
    <3>. WITNESS out, rest
    <3>. QED
      BY <2>2, <2>3, <2>5, <2>6
  <2>. QED
    BY <1>3, <2>1, <2>7, Zenon DEF NoFault
<1>. QED
  BY <1>2, <1>3 DEF Writes, Fwrite

\* fclose: the buffer goes to the file.
LEMMA ClosesEffect ==
    ASSUME TInv, Closes
    PROVE  Appends(buffered, files[fs_].synced)
<1>1. Stream /\ fs_ # NULL /\ fs_ \in DOMAIN files /\ opened' = opened /\ buffered \in Seq(Batch)
  BY TypeParts DEF TInv, Closes, Stream, history
<1>2. files' = [files EXCEPT ![fs_] = [data |-> files[fs_].data \o buffered,
                                       synced |-> files[fs_].synced]]
  <2>1. files' = [files EXCEPT ![fs_].data = files[fs_].data \o buffered]
    BY DEF Closes
  <2>. QED
    BY <1>1, <2>1, Rewritten
<1>3. /\ files[fs_].synced \in Nat /\ files[fs_].synced <= files[fs_].synced
      /\ files[fs_].synced <= Len(files[fs_].data) + Len(buffered)
  BY <1>1, FileFacts, BufferFacts
<1>4. \A q \in 1..Len(buffered) : buffered[q].run = run
  BY DEF TInv, Genuine
<1>. QED
  BY <1>1, <1>2, <1>3, <1>4, FileAppends

\* fflush and fsync: the buffer goes to the file, and the file to the disk.
LEMMA FlushesEffect ==
    ASSUME TInv, Flushes
    PROVE  \/ /\ UNCHANGED <<files, buffered, opened>>
              /\ (flush_log = 0 /\ faults' = faults) \/ faults' = faults + 1
           \/ /\ flush_log # 0 /\ faults' = faults /\ buffered' = <<>>
              /\ \E s \in Nat : /\ Appends(buffered, s)
                                /\ flush_log = 2 => s = Len(files[fs_].data) + Len(buffered)
<1>1. /\ Stream /\ fs_ # NULL /\ fs_ \in DOMAIN files /\ opened' = opened
      /\ buffered \in Seq(Batch)
  BY TypeParts DEF TInv, Flushes, Stream, Streams
<1>2. CASE flush_log = 0 /\ NoFault /\ UNCHANGED <<files, buffered>>
  BY <1>1, <1>2 DEF NoFault
<1>3. CASE flush_log # 0 /\ Fault /\ UNCHANGED <<files, buffered>>
  BY <1>1, <1>3 DEF Fault
<1>4. CASE /\ flush_log # 0 /\ NoFault
           /\ files' = [files EXCEPT ![fs_] = Flushed]
           /\ buffered' = <<>>
  <2>. DEFINE s == Flushed.synced
              new == Len(files[fs_].data \o buffered)
  <2>1. /\ files[fs_].data \in Seq(Batch) /\ Len(files[fs_].data) \in Nat
        /\ files[fs_].synced \in Nat /\ files[fs_].synced <= Len(files[fs_].data)
        /\ Len(buffered) \in Nat
    BY <1>1, FileFacts, BufferFacts
  <2>2. new = Len(files[fs_].data) + Len(buffered)
    BY <1>1, <2>1, ConcatProperties
  <2>3. /\ Flushed = [data |-> files[fs_].data \o buffered, synced |-> s]
        /\ s = IF flush_log = 2 THEN new ELSE files[fs_].synced
    BY DEF Flushed
  <2>. HIDE DEF new, s
  <2>4. /\ s \in Nat /\ files[fs_].synced <= s
        /\ s <= Len(files[fs_].data) + Len(buffered)
        /\ flush_log = 2 => s = Len(files[fs_].data) + Len(buffered)
    BY <2>1, <2>2, <2>3
  <2>5. \A q \in 1..Len(buffered) : buffered[q].run = run
    BY DEF TInv, Genuine
  <2>6. Appends(buffered, s)
    BY <1>1, <1>4, <2>3, <2>4, <2>5, FileAppends
  <2>. QED
    BY <1>4, <2>4, <2>6 DEF NoFault
<1>. QED
  BY <1>2, <1>3, <1>4 DEF Flushes, FlushStream

\* fopen: a new file is empty, an old one is as it was.
LEMMA OpensFacts ==
    ASSUME Stream, Control, NEW name, Opens(name)
    PROVE  /\ fs_' = name /\ name \in DOMAIN files'
           /\ DOMAIN files' = DOMAIN files \cup {name}
           /\ files' \in [DOMAIN files' -> [data : Seq(Batch), synced : Nat]]
           /\ \A n \in DOMAIN files : files'[n] = files[n]
           /\ name \notin DOMAIN files => files'[name] = [data |-> <<>>, synced |-> 0]
           /\ opened' \in Seq([run : 1..MaxStops + 1, name : DOMAIN files'])
           /\ Len(opened) \in Nat /\ Len(opened') = Len(opened) + 1
           /\ \A i \in 1..Len(opened) : opened'[i] = opened[i]
           /\ opened'[Len(opened) + 1] = [run |-> run, name |-> name]
           /\ \A i \in 1..Len(opened') : i \in 1..Len(opened) \/ i = Len(opened) + 1
<1>1. /\ DOMAIN files' = DOMAIN files \cup {name}
      /\ \A n \in DOMAIN files : files'[n] = files[n]
      /\ name \notin DOMAIN files => files'[name] = [data |-> <<>>, synced |-> 0]
  <2>1. CASE name \in DOMAIN files
    BY <2>1 DEF Opens
  <2>2. CASE name \notin DOMAIN files
    <3>1. files' = [n \in DOMAIN files \cup {name} |->
                        IF n = name THEN [data |-> <<>>, synced |-> 0] ELSE files[n]]
      BY <2>2 DEF Opens
    <3>. QED
      BY <2>2, <3>1
  <2>. QED
    BY <2>1, <2>2
<1>2. files' \in [DOMAIN files' -> [data : Seq(Batch), synced : Nat]]
  <2>1. [data |-> <<>>, synced |-> 0] \in [data : Seq(Batch), synced : Nat]
    BY EmptySeq
  <2>2. \A n \in DOMAIN files' : files'[n] \in [data : Seq(Batch), synced : Nat]
    BY <1>1, <2>1 DEF Stream
  <2>3. files' = [n \in DOMAIN files' |-> files'[n]]
    BY DEF Opens, Stream
  <2>. QED
    BY <2>2, <2>3
<1>. DEFINE S == [run : 1..MaxStops + 1, name : DOMAIN files']
            new == [run |-> run, name |-> name]
<1>4. opened \in Seq(S)
  <2>1. [run : 1..MaxStops + 1, name : DOMAIN files] \subseteq S
    BY <1>1
  <2>. QED
    BY <2>1, SeqMonotonic DEF Stream
<1>5. new \in S
  BY <1>1 DEF Control
<1>6. opened' = Append(opened, new)
  BY DEF Opens
<1>7. /\ opened' \in Seq(S) /\ Len(opened) \in Nat /\ Len(opened') = Len(opened) + 1
      /\ \A i \in 1..Len(opened) : opened'[i] = opened[i]
      /\ opened'[Len(opened) + 1] = new
  <2>. HIDE DEF S, new
  <2>. QED
    BY <1>4, <1>5, <1>6, AppendProperties, LenProperties
<1>8. \A i \in 1..Len(opened') : i \in 1..Len(opened) \/ i = Len(opened) + 1
  BY <1>7
<1>. QED
  BY <1>1, <1>2, <1>7, <1>8 DEF Opens

\* A power loss leaves a beginning of every file, with what was forced to the disk.
LEMMA PowerLossFacts ==
    ASSUME Stream, PowerLoss
    PROVE  /\ DOMAIN files' = DOMAIN files
           /\ files' \in [DOMAIN files -> [data : Seq(Batch), synced : Nat]]
           /\ \A n \in DOMAIN files :
                /\ Len(files'[n].data) \in Nat /\ Len(files'[n].data) <= Len(files[n].data)
                /\ files[n].synced <= files'[n].synced
                /\ files'[n].synced = Len(files'[n].data)
                /\ \A j \in 1..Len(files'[n].data) : files'[n].data[j] = files[n].data[j]
<1>1. PICK left \in [DOMAIN files -> 0..(MaxStops + 1) * MaxBatches] :
         /\ \A n \in DOMAIN files :
              files[n].synced <= left[n] /\ left[n] <= Len(files[n].data)
         /\ files' = [n \in DOMAIN files |->
                [data |-> SubSeq(files[n].data, 1, left[n]), synced |-> left[n]]]
  BY DEF PowerLoss
<1>2. DOMAIN files' = DOMAIN files
  BY <1>1
<1>3. ASSUME NEW n \in DOMAIN files
      PROVE  /\ files'[n] \in [data : Seq(Batch), synced : Nat]
             /\ Len(files'[n].data) \in Nat /\ Len(files'[n].data) <= Len(files[n].data)
             /\ files[n].synced <= files'[n].synced
             /\ files'[n].synced = Len(files'[n].data)
             /\ \A j \in 1..Len(files'[n].data) : files'[n].data[j] = files[n].data[j]
  <2>. DEFINE old == files[n].data
              new == SubSeq(old, 1, left[n])
  <2>1. /\ old \in Seq(Batch) /\ Len(old) \in Nat
        /\ \A j \in 1..Len(old) : old[j] \in Batch
        /\ files[n].synced \in Nat
    BY FileFacts
  <2>2. left[n] \in Nat /\ left[n] <= Len(old) /\ files[n].synced <= left[n]
    <3>1. left[n] \in 0..(MaxStops + 1) * MaxBatches
      BY <1>1
    <3>2. left[n] \in Nat
      BY <3>1
    <3>. QED
      BY <1>1, <3>2
  <2>3. files'[n] = [data |-> new, synced |-> left[n]]
    BY <1>1
  <2>. HIDE DEF old
  <2>4. /\ new \in Seq(Batch) /\ Len(new) = left[n]
        /\ \A j \in 1..left[n] : new[j] = old[j]
    <3>1. \A i \in 1..left[n] : old[i] \in Batch
      BY <2>1, <2>2
    <3>2. /\ new \in Seq(Batch)
          /\ Len(new) = IF 1 <= left[n] THEN left[n] - 1 + 1 ELSE 0
          /\ \A i \in 1..left[n] - 1 + 1 : new[i] = old[1 + i - 1]
      <4>1. left[n] \in Int /\ 1 \in Int
        BY <2>2
      <4>. QED
        BY <3>1, <4>1, SubSeqProperties
    <3>3. \A i \in 1..left[n] : 1 + i - 1 = i /\ i \in 1..left[n] - 1 + 1
      BY <2>2
    <3>. HIDE DEF new
    <3>4. Len(new) = left[n]
      BY <2>2, <3>2
    <3>. QED
      BY <3>2, <3>3, <3>4
  <2>. HIDE DEF new
  <2>5. files'[n] \in [data : Seq(Batch), synced : Nat]
    BY <2>2, <2>3, <2>4
  <2>6. files'[n].data = new /\ files'[n].synced = left[n]
    BY <2>3
  <2>. QED
    BY <2>1, <2>2, <2>4, <2>5, <2>6 DEF old
<1>4. files' = [n \in DOMAIN files |-> files'[n]]
  BY <1>1
<1>. QED
  BY <1>2, <1>3, <1>4

-----------------------------------------------------------------------------
(* Types and what belongs to which run: every step *)

Untouched == UNCHANGED <<kind, flush_log, buffered, batch, given, returned, run, stops, losses>>

\* A step that leaves the stream and the files alone.
Idles ==
    /\ Untouched /\ UNCHANGED <<fs_, files, opened, cnt_, faults>>
    /\ \/ pc' = pc
       \/ pc \in Starting /\ pc' \in Starting
       \/ pc = "open" /\ kind = "RollFileFlush" /\ pc' = "ready"
       \/ pc = "init" /\ fs_ # NULL /\ pc' = "write"

\* The constructor of FileFlush, or the first batch for a file that is rolled.
OpensFile(name) ==
    /\ Untouched
    /\ \/ Opens(name) /\ faults' = faults
       \/ fs_' = NULL /\ faults' = faults + 1 /\ UNCHANGED <<files, opened>>
    /\ \/ pc = "open" /\ kind = "FileFlush" /\ name = Fixed /\ pc' = "ready" /\ cnt_' = cnt_
       \/ /\ pc = "init" /\ fs_ = NULL /\ name.cnt = cnt_ /\ pc' = "write"
          /\ cnt_' = cnt_ + 1

LEMMA StepCases ==
    ASSUME Control, [Next]_vars
    PROVE  \/ Idles \/ (\E name : OpensFile(name)) \/ (\E len \in Lens : Flush(len))
           \/ Closes \/ Writes \/ Flushes \/ WritesToNull \/ Kill \/ PowerLoss \/ Restart
<1>1. CASE CreateDirectory
  BY <1>1 DEF CreateDirectory, Idles, Untouched, Starting, config, counts, history
<1>2. CASE MakesDirectory
  BY <1>2 DEF MakesDirectory, Idles, Untouched, config, counts, history
<1>3. CASE DirectoryMade
  BY <1>3 DEF DirectoryMade, Idles, Untouched, Starting, config, counts, history
<1>4. CASE ConstructorOpens
  <2>1. CASE kind = "FileFlush"
    <3>1. /\ Untouched /\ pc = "open" /\ pc' = "ready" /\ cnt_' = cnt_ /\ Fopen(Fixed)
      BY <1>4, <2>1 DEF ConstructorOpens, Untouched, config
    <3>2. \/ Opens(Fixed) /\ faults' = faults
          \/ fs_' = NULL /\ faults' = faults + 1 /\ UNCHANGED <<files, opened>>
      BY <3>1 DEF Fopen, OpenFails, Fault, NoFault
    <3>3. OpensFile(Fixed)
      BY <2>1, <3>1, <3>2 DEF OpensFile
    <3>. QED
      BY <3>3
  <2>2. CASE kind # "FileFlush"
    <3>1. kind = "RollFileFlush"
      BY <2>2 DEF Control
    <3>2. /\ Untouched /\ UNCHANGED <<fs_, files, opened, cnt_, faults>>
          /\ pc = "open" /\ pc' = "ready"
      BY <1>4, <2>2 DEF ConstructorOpens, Untouched, NoFault, config
    <3>. QED
      BY <3>1, <3>2 DEF Idles
  <2>. QED
    BY <2>1, <2>2
<1>5. CASE KeepsFile
  BY <1>5 DEF KeepsFile, MustRoll, Idles, Untouched, config, counts, history
<1>6. CASE FirstFile
  <2>1. /\ Untouched /\ pc = "init" /\ pc' = "write" /\ fs_ = NULL /\ cnt_' = cnt_ + 1
        /\ Fopen(CreateFilename)
    BY <1>6 DEF FirstFile, Untouched, config
  <2>2. \/ Opens(CreateFilename) /\ faults' = faults
        \/ fs_' = NULL /\ faults' = faults + 1 /\ UNCHANGED <<files, opened>>
    BY <2>1 DEF Fopen, OpenFails, Fault, NoFault
  <2>3. CreateFilename.cnt = cnt_
    BY DEF CreateFilename
  <2>4. OpensFile(CreateFilename)
    BY <2>1, <2>2, <2>3 DEF OpensFile
  <2>. QED
    BY <2>4
<1>7. CASE Tick
  BY <1>7 DEF Tick, Idles, Untouched, config, program, counts, history
<1>8. CASE UNCHANGED vars
  BY <1>8 DEF vars, Idles, Untouched, config, program, counts, history
<1>. QED
  BY <1>1, <1>2, <1>3, <1>4, <1>5, <1>6, <1>7, <1>8 DEF Next, Constructor

LEMMA ControlStays == ASSUME TypeOK, [Next]_vars PROVE Control'
<1>. DEFINE Places_ == Starting \cup Busy \cup {"ready", "down"}
<1>1. /\ Control /\ run \in Nat /\ faults \in Nat /\ MaxStops \in Nat /\ MaxFaults \in Nat
      /\ path \in Seq(STRING) /\ Len(path) \in Nat /\ Len(Instants) \in Nat
  BY TypeParts, RunFacts, SizesAssumption, LenProperties DEF Control
<1>2. /\ kind' = kind /\ flush_log' = flush_log /\ path' = path
  <2>1. CASE UNCHANGED vars
    BY <2>1 DEF vars, config
  <2>2. CASE Next
    BY <2>2 DEF Next, Constructor, CreateDirectory, MakesDirectory, DirectoryMade,
          ConstructorOpens, Flush, KeepsFile, Closes, FirstFile, Writes, Flushes,
          WritesToNull, Kill, PowerLoss, Restart, Tick, config
  <2>. QED
    BY <2>1, <2>2
<1>3. pc' \in Places_ /\ index' \in 0..Len(path) + 1
  <2>1. CASE UNCHANGED vars
    BY <1>1, <2>1 DEF vars, program, Control
  <2>2. CASE Constructor
    BY <1>1, <2>2 DEF Control, Constructor, CreateDirectory, MakesDirectory, DirectoryMade,
          ConstructorOpens, Starting
  <2>3. CASE \E len \in Lens : Flush(len)
    BY <1>1, <2>3 DEF Control, Flush, Busy
  <2>4. CASE KeepsFile \/ Closes \/ FirstFile \/ Writes \/ Flushes \/ Restart \/ Tick
    BY <1>1, <2>4 DEF Control, KeepsFile, Closes, FirstFile, Writes, Flushes, Restart, Tick,
          Busy, Starting, program
  <2>5. CASE WritesToNull \/ Kill \/ PowerLoss
    BY <1>1, <2>5 DEF WritesToNull, Kill, PowerLoss, Dies
  <2>. QED
    BY <2>1, <2>2, <2>3, <2>4, <2>5 DEF Next
<1>4. cnt_' \in Nat /\ now' \in 1..Len(Instants) /\ run' \in 1..MaxStops + 1
  <2>0. /\ cnt_ \in Nat /\ now \in 1..Len(Instants) /\ run \in 1..MaxStops + 1
        /\ Len(Instants) \in Nat /\ MaxStops \in Nat
    BY <1>1 DEF Control
  <2>1. CASE UNCHANGED <<cnt_, now, run>>
    BY <2>0, <2>1
  <2>2. CASE UNCHANGED vars \/ Constructor \/ \E len \in Lens : Flush(len)
    <3>1. UNCHANGED <<cnt_, now, run>>
      BY <2>2, Zenon DEF vars, program, counts, Constructor, CreateDirectory, MakesDirectory,
            DirectoryMade, ConstructorOpens, Flush
    <3>. QED
      BY <2>1, <3>1
  <2>3. CASE KeepsFile \/ Closes \/ Writes \/ Flushes
    <3>1. UNCHANGED <<cnt_, now, run>>
      BY <2>3, Zenon DEF KeepsFile, Closes, Writes, Flushes, counts
    <3>. QED
      BY <2>1, <3>1
  <2>4. CASE FirstFile
    <3>1. cnt_' = cnt_ + 1 /\ UNCHANGED <<now, run>>
      BY <2>4, Zenon DEF FirstFile, counts
    <3>. QED
      BY <2>0, <3>1
  <2>5. CASE Restart
    <3>1. run <= MaxStops /\ run' = run + 1 /\ UNCHANGED <<cnt_, now>>
      BY <2>5, Zenon DEF Restart
    <3>. QED
      BY <2>0, <3>1
  <2>6. CASE Tick
    <3>1. now < Len(Instants) /\ now' = now + 1 /\ UNCHANGED <<cnt_, run>>
      BY <2>6, Zenon DEF Tick, program, counts
    <3>. QED
      BY <2>0, <3>1
  <2>7. CASE WritesToNull \/ Kill \/ PowerLoss
    <3>1. cnt_' = 1 /\ UNCHANGED <<now, run>>
      BY <2>7, Zenon DEF WritesToNull, Kill, PowerLoss, Dies
    <3>. QED
      BY <2>0, <3>1
  <2>. QED
    BY <2>2, <2>3, <2>4, <2>5, <2>6, <2>7, Zenon DEF Next
<1>5. faults' \in 0..MaxFaults
  <2>1. CASE UNCHANGED vars
    BY <1>1, <2>1 DEF vars, counts, Control
  <2>2. CASE Constructor
    BY <1>1, <2>2 DEF Control, Constructor, CreateDirectory, MakesDirectory, DirectoryMade,
          ConstructorOpens, counts, Fopen, OpenFails, Fault, NoFault
  <2>3. CASE \E len \in Lens : Flush(len)
    BY <1>1, <2>3 DEF Control, Flush, counts
  <2>4. CASE FirstFile \/ Writes
    BY <1>1, <2>4 DEF Control, FirstFile, Writes, Fwrite, Fopen, OpenFails, Fault, NoFault
  <2>5. CASE Flushes
    BY <1>1, <2>5 DEF Control, Flushes, FlushStream, Fault, NoFault
  <2>6. CASE KeepsFile \/ Closes \/ Restart \/ Tick \/ WritesToNull \/ Kill \/ PowerLoss
    BY <1>1, <2>6 DEF Control, KeepsFile, Closes, Restart, Tick, WritesToNull, Kill,
          PowerLoss, counts
  <2>. QED
    BY <2>1, <2>2, <2>3, <2>4, <2>5, <2>6 DEF Next
<1>6. stops' \in Nat /\ losses' \in Nat
  <2>1. CASE UNCHANGED vars
    BY <1>1, <2>1 DEF vars, counts, Control
  <2>2. CASE Constructor
    BY <1>1, <2>2 DEF Control, Constructor, CreateDirectory, MakesDirectory, DirectoryMade,
          ConstructorOpens, counts
  <2>3. CASE \E len \in Lens : Flush(len)
    BY <1>1, <2>3 DEF Control, Flush, counts
  <2>4. CASE KeepsFile \/ Closes \/ FirstFile \/ Writes \/ Flushes \/ Restart \/ Tick
    BY <1>1, <2>4 DEF Control, KeepsFile, Closes, FirstFile, Writes, Flushes, Restart, Tick,
          counts
  <2>5. CASE WritesToNull \/ Kill \/ PowerLoss
    <3>1. stops' = stops + 1 /\ (losses' = losses \/ losses' = losses + 1)
      BY <2>5, Zenon DEF WritesToNull, Kill, PowerLoss
    <3>. QED
      BY <1>1, <3>1 DEF Control
  <2>. QED
    BY <2>1, <2>2, <2>3, <2>4, <2>5 DEF Next
<1>7. cur_size_' \in Nat
  <2>1. CASE UNCHANGED vars
    BY <1>1, <2>1 DEF vars, program, Control
  <2>2. CASE Constructor
    BY <1>1, <2>2 DEF Control, Constructor, CreateDirectory, MakesDirectory, DirectoryMade,
          ConstructorOpens
  <2>3. CASE \E len \in Lens : Flush(len)
    BY <1>1, <2>3 DEF Control, Flush
  <2>4. CASE Writes
    <3>1. batch.len \in Nat
      <4>1. batch \in Batch \/ batch = NoBatch
        BY TypeParts DEF Handed
      <4>. QED
        BY <4>1, BatchFacts DEF NoBatch
    <3>. QED
      BY <1>1, <2>4, <3>1 DEF Control, Writes
  <2>5. CASE KeepsFile \/ Closes \/ FirstFile \/ Flushes \/ Restart \/ Tick
    BY <1>1, <2>5 DEF Control, KeepsFile, Closes, FirstFile, Flushes, Restart, Tick, program
  <2>6. CASE WritesToNull \/ Kill \/ PowerLoss
    BY <2>6 DEF WritesToNull, Kill, PowerLoss, Dies
  <2>. QED
    BY <2>1, <2>2, <2>3, <2>4, <2>5, <2>6 DEF Next
<1>. QED
  BY <1>1, <1>2, <1>3, <1>4, <1>5, <1>6, <1>7 DEF Control

LEMMA Hands ==
    ASSUME Handed, Numbered, Control, NEW len \in Lens, Flush(len)
    PROVE  /\ batch' \in Batch /\ batch'.run = run /\ batch'.k = Len(given[run]) + 1
           /\ \A r \in 1..MaxStops + 1 : r # run => given'[r] = given[r]
           /\ given' \in [1..MaxStops + 1 -> Seq(Batch)]
           /\ Len(given[run]) \in Nat /\ Len(given'[run]) = Len(given[run]) + 1
           /\ \A k \in 1..Len(given[run]) : given'[run][k] = given[run][k]
           /\ given'[run][Len(given[run]) + 1] = batch'
<1>1. /\ given[run] \in Seq(Batch) /\ Len(given[run]) \in Nat /\ run \in 1..MaxStops + 1
      /\ given \in [1..MaxStops + 1 -> Seq(Batch)]
  BY GivenFacts DEF Control, Handed
<1>2. batch' = [run |-> run, k |-> Len(given[run]) + 1, len |-> len]
  BY DEF Flush
<1>3. Len(given[run]) + 1 \in 1..MaxBatches
  <2>1. Len(given[run]) < MaxBatches /\ MaxBatches \in Nat
    BY SizesAssumption DEF Flush
  <2>. QED
    BY <1>1, <2>1
<1>4. batch' \in Batch
  BY <1>1, <1>2, <1>3 DEF Batch
<1>5. given' = [given EXCEPT ![run] = Append(given[run], batch')]
  BY DEF Flush
<1>6. /\ Append(given[run], batch') \in Seq(Batch)
      /\ Len(Append(given[run], batch')) = Len(given[run]) + 1
      /\ \A k \in 1..Len(given[run]) : Append(given[run], batch')[k] = given[run][k]
      /\ Append(given[run], batch')[Len(given[run]) + 1] = batch'
  BY <1>1, <1>4, AppendProperties
<1>7. given'[run] = Append(given[run], batch') /\ \A r \in 1..MaxStops + 1 : r # run => given'[r] = given[r]
  BY <1>1, <1>5
<1>8. given' \in [1..MaxStops + 1 -> Seq(Batch)]
  BY <1>1, <1>5, <1>6
<1>. QED
  BY <1>1, <1>2, <1>4, <1>6, <1>7, <1>8

LEMMA HandedStays == ASSUME TInv, [Next]_vars PROVE Handed'
<1>1. Control /\ Handed /\ Numbered /\ run \in 1..MaxStops + 1
  BY TypeParts DEF TInv, Control
<1>2. CASE Idles \/ \E name : OpensFile(name)
  BY <1>1, <1>2 DEF Handed, Idles, OpensFile, Untouched
<1>3. ASSUME NEW len \in Lens, Flush(len) PROVE Handed'
  <2>1. returned' = returned
    BY <1>3 DEF Flush
  <2>. QED
    BY <1>1, <1>3, <2>1, Hands DEF Handed
<1>4. CASE Closes
  BY <1>1, <1>4 DEF Handed, Closes, history
<1>5. CASE Writes
  BY <1>1, <1>5 DEF Handed, Writes, history
<1>6. CASE Flushes
  <2>1. Len(given[run]) \in Nat
    BY <1>1, GivenFacts
  <2>2. /\ given' = given /\ batch' = NoBatch
        /\ returned' = [returned EXCEPT ![run] = Len(given[run])]
    BY <1>6 DEF Flushes
  <2>. QED
    BY <1>1, <2>1, <2>2 DEF Handed
<1>7. CASE WritesToNull \/ Kill \/ PowerLoss
  <2>1. given' = given /\ returned' = returned /\ batch' = NoBatch
    BY <1>7, Zenon DEF WritesToNull, Kill, PowerLoss, Dies, history
  <2>. QED
    BY <1>1, <2>1 DEF Handed
<1>8. CASE Restart
  BY <1>1, <1>8 DEF Handed, Restart, history
<1>. QED
  BY <1>1, <1>2, <1>3, <1>4, <1>5, <1>6, <1>7, <1>8, StepCases

LEMMA StreamAfter ==
    ASSUME Stream, DOMAIN files' = DOMAIN files, opened' = opened,
           files' \in [DOMAIN files -> [data : Seq(Batch), synced : Nat]],
           \A n \in DOMAIN files : files'[n].synced <= Len(files'[n].data),
           fs_' \in {fs_, NULL}, buffered' \in Seq(Batch), fs_' = NULL => buffered' = <<>>
    PROVE  Stream'
<1>1. /\ fs_ \in DOMAIN files \cup {NULL}
      /\ opened \in Seq([run : 1..MaxStops + 1, name : DOMAIN files])
  BY DEF Stream
<1>2. fs_' \in DOMAIN files' \cup {NULL}
  BY <1>1
<1>3. opened' \in Seq([run : 1..MaxStops + 1, name : DOMAIN files'])
  BY <1>1
<1>4. files' \in [DOMAIN files' -> [data : Seq(Batch), synced : Nat]]
  OBVIOUS
<1>5. \A n \in DOMAIN files' : files'[n].synced <= Len(files'[n].data)
  OBVIOUS
<1>. QED
  BY <1>2, <1>3, <1>4, <1>5 DEF Stream

LEMMA StreamUntouched ==
    ASSUME Stream, UNCHANGED <<files, opened>>,
           fs_' \in {fs_, NULL}, buffered' \in Seq(Batch), fs_' = NULL => buffered' = <<>>
    PROVE  Stream'
BY DEF Stream

LEMMA StreamAppended ==
    ASSUME Stream, NEW out, NEW s, Appends(out, s),
           fs_' \in {fs_, NULL}, buffered' \in Seq(Batch), fs_' = NULL => buffered' = <<>>
    PROVE  Stream'
<1>1. opened' = opened
  BY DEF Appends
<1>. QED
  BY <1>1, AppendsFacts, StreamAfter

LEMMA StreamStays == ASSUME TInv, [Next]_vars PROVE Stream'
<1>1. /\ Control /\ Stream /\ Streams /\ buffered \in Seq(Batch)
      /\ fs_ = NULL => buffered = <<>>
  BY TypeParts DEF TInv, Stream
<1>2. <<>> \in Seq(Batch)
  BY EmptySeq
<1>3. CASE Idles
  BY <1>1, <1>3, StreamUntouched DEF Idles, Untouched
<1>4. ASSUME NEW name, OpensFile(name) PROVE Stream'
  <2>1. fs_ = NULL /\ buffered' = buffered
    BY <1>1, <1>4 DEF OpensFile, Streams, Untouched, Starting
  <2>2. CASE fs_' = NULL /\ UNCHANGED <<files, opened>>
    BY <1>1, <2>1, <2>2, StreamUntouched
  <2>3. CASE Opens(name)
    <3>1. ASSUME NEW n \in DOMAIN files' PROVE files'[n].synced <= Len(files'[n].data)
      <4>1. n \in DOMAIN files \/ (n \notin DOMAIN files /\ n = name)
        BY <1>1, <2>3, OpensFacts
      <4>2. CASE n \in DOMAIN files
        <5>1. files'[n] = files[n]
          BY <1>1, <2>3, <4>2, OpensFacts
        <5>. QED
          BY <1>1, <4>2, <5>1 DEF Stream
      <4>3. CASE n \notin DOMAIN files /\ n = name
        <5>1. files'[n] = [data |-> <<>>, synced |-> 0]
          BY <1>1, <2>3, <4>3, OpensFacts
        <5>. QED
          BY <5>1, EmptySeq
      <4>. QED
        BY <4>1, <4>2, <4>3
    <3>. QED
      BY <1>1, <2>1, <2>3, <3>1, OpensFacts DEF Stream
  <2>. QED
    BY <1>4, <2>2, <2>3 DEF OpensFile
<1>5. ASSUME NEW len \in Lens, Flush(len) PROVE Stream'
  BY <1>1, <1>5, StreamUntouched DEF Flush
<1>6. CASE Closes
  <2>1. fs_' = NULL /\ buffered' = <<>> /\ Appends(buffered, files[fs_].synced)
    BY <1>6, ClosesEffect DEF Closes
  <2>. QED
    BY <1>1, <1>2, <2>1, StreamAppended
<1>7. CASE Writes
  <2>1. fs_' = fs_ /\ fs_ # NULL
    BY <1>7 DEF Writes
  <2>2. CASE UNCHANGED <<files, buffered, opened>>
    BY <1>1, <2>1, <2>2, StreamUntouched
  <2>3. ASSUME NEW out, NEW rest, Appends(out, files[fs_].synced), buffered' = rest,
               rest \in Seq(Batch)
        PROVE  Stream'
    BY <1>1, <2>1, <2>3, StreamAppended
  <2>. QED
    BY <1>7, <2>2, <2>3, FwriteEffect
<1>8. CASE Flushes
  <2>1. fs_' = fs_ /\ fs_ # NULL
    BY <1>1, <1>8 DEF Flushes, Streams
  <2>2. CASE UNCHANGED <<files, buffered, opened>>
    BY <1>1, <2>1, <2>2, StreamUntouched
  <2>3. ASSUME NEW s \in Nat, Appends(buffered, s), buffered' = <<>>
        PROVE  Stream'
    BY <1>1, <1>2, <2>1, <2>3, StreamAppended
  <2>. QED
    BY <1>8, <2>2, <2>3, FlushesEffect
<1>9. CASE WritesToNull \/ Kill
  <2>1. fs_' = NULL /\ buffered' = <<>> /\ UNCHANGED <<files, opened>>
    BY <1>9 DEF WritesToNull, Kill, Dies, history
  <2>. QED
    BY <1>1, <1>2, <2>1, StreamUntouched
<1>10. CASE PowerLoss
  <2>1. fs_' = NULL /\ buffered' = <<>> /\ opened' = opened
    BY <1>10, Zenon DEF PowerLoss, Dies, history
  <2>2. \A n \in DOMAIN files : files'[n].synced <= Len(files'[n].data)
    BY <1>1, <1>10, PowerLossFacts
  <2>. QED
    BY <1>1, <1>2, <1>10, <2>1, <2>2, PowerLossFacts, StreamAfter
<1>11. CASE Restart
  BY <1>1, <1>11, StreamUntouched DEF Restart, history
<1>. QED
  BY <1>1, <1>3, <1>4, <1>5, <1>6, <1>7, <1>8, <1>9, <1>10, <1>11, StepCases

LEMMA NumberedStays == ASSUME TInv, [Next]_vars PROVE Numbered'
<1>1. Control /\ Handed /\ Numbered /\ run \in 1..MaxStops + 1 /\ run \in Nat
  BY TypeParts, RunFacts DEF TInv, Control
<1>2. ASSUME UNCHANGED <<given, returned, run, batch>>,
             pc' \in Starting => pc \in Starting, pc' \in Busy => pc \in Busy
      PROVE  Numbered'
  BY <1>1, <1>2 DEF Numbered
<1>3. CASE Idles \/ \E name : OpensFile(name)
  <2>1. /\ UNCHANGED <<given, returned, run, batch>>
        /\ pc' = pc \/ (pc \in Starting /\ pc' \in Starting) \/ pc' = "ready"
           \/ (pc = "init" /\ pc' = "write")
    BY <1>3, Zenon DEF Idles, OpensFile, Untouched
  <2>. QED
    BY <1>2, <2>1 DEF Starting, Busy
<1>4. ASSUME NEW len \in Lens, Flush(len) PROVE Numbered'
  <2>1. run' = run /\ returned' = returned /\ pc = "ready" /\ pc' \in {"init", "write"}
    BY <1>4 DEF Flush, counts
  <2>2. \A r \in 1..MaxStops + 1 : \A k \in 1..Len(given'[r]) :
            given'[r][k].run = r /\ given'[r][k].k = k
    <3>. TAKE r \in 1..MaxStops + 1
    <3>1. CASE r # run
      BY <1>1, <1>4, <3>1, Hands DEF Numbered
    <3>2. CASE r = run
      <4>1. /\ batch'.run = run /\ batch'.k = Len(given[run]) + 1
            /\ Len(given[run]) \in Nat /\ Len(given'[run]) = Len(given[run]) + 1
            /\ \A k \in 1..Len(given[run]) : given'[run][k] = given[run][k]
            /\ given'[run][Len(given[run]) + 1] = batch'
        BY <1>1, <1>4, Hands
      <4>2. \A k \in 1..Len(given'[run]) : k \in 1..Len(given[run]) \/ k = Len(given[run]) + 1
        BY <4>1
      <4>. QED
        BY <1>1, <3>2, <4>1, <4>2 DEF Numbered
    <3>. QED
      BY <3>1, <3>2
  <2>3. \A r \in 1..MaxStops + 1 : r > run' => given'[r] = <<>> /\ returned'[r] = 0
    <3>. TAKE r \in 1..MaxStops + 1
    <3>. HAVE r > run'
    <3>1. r > run /\ r # run
      BY <1>1, <2>1
    <3>2. given'[r] = given[r]
      BY <1>1, <1>4, <3>1, Hands
    <3>. QED
      BY <1>1, <2>1, <3>1, <3>2 DEF Numbered
  <2>4. Len(given'[run']) # 0 /\ batch' = given'[run'][Len(given'[run'])]
    <3>1. /\ Len(given[run]) \in Nat /\ Len(given'[run]) = Len(given[run]) + 1
          /\ given'[run][Len(given[run]) + 1] = batch'
      BY <1>1, <1>4, Hands
    <3>. QED
      BY <2>1, <3>1
  <2>5. pc' \notin Starting
    BY <2>1 DEF Starting
  <2>. QED
    BY <2>2, <2>3, <2>4, <2>5 DEF Numbered
<1>5. CASE Closes
  BY <1>2, <1>5 DEF Closes, counts, history
<1>6. CASE Writes
  BY <1>2, <1>6 DEF Writes, history, Starting, Busy
<1>7. CASE Flushes
  <2>1. /\ run' = run /\ given' = given /\ pc' = "ready"
        /\ returned' = [returned EXCEPT ![run] = Len(given[run])]
    BY <1>7 DEF Flushes
  <2>2. \A r \in 1..MaxStops + 1 : r > run => returned'[r] = returned[r]
    BY <1>1, <2>1 DEF Handed
  <2>. QED
    BY <1>1, <2>1, <2>2 DEF Numbered, Starting, Busy
<1>8. CASE WritesToNull \/ Kill \/ PowerLoss
  <2>1. run' = run /\ given' = given /\ returned' = returned /\ pc' = "down"
    BY <1>8, Zenon DEF WritesToNull, Kill, PowerLoss, Dies, history
  <2>. QED
    BY <1>1, <2>1 DEF Numbered, Starting, Busy
<1>9. CASE Restart
  <2>1. run' = run + 1 /\ given' = given /\ returned' = returned /\ pc' = "construct"
    BY <1>9 DEF Restart, history
  <2>2. \A r \in 1..MaxStops + 1 : r > run' \/ r = run' => r > run
    BY <1>1, <2>1
  <2>. QED
    BY <1>1, <2>1, <2>2 DEF Numbered, Starting, Busy
<1>. QED
  BY <1>1, <1>2, <1>3, <1>4, <1>5, <1>6, <1>7, <1>8, <1>9, StepCases

\* The files of a run are opened under different names.
LEMMA NewName ==
    ASSUME TInv, NEW name, OpensFile(name), NEW i \in 1..Len(opened), opened[i].run = run
    PROVE  opened[i].name # name
<1>1. Control /\ Streams /\ cnt_ \in Nat
  BY TypeParts DEF TInv, Control
<1>2. CASE pc = "open"
  <2>1. kind = "FileFlush"
    BY <1>2 DEF OpensFile
  <2>2. pc # "down" /\ pc \in Starting
    BY <1>2 DEF Starting
  <2>. QED
    BY <1>1, <2>1, <2>2 DEF Streams
<1>3. CASE pc = "init"
  <2>1. kind = "RollFileFlush" /\ name.cnt = cnt_
    BY <1>1, <1>3 DEF Streams, OpensFile
  <2>2. opened[i].name.cnt \in Nat /\ opened[i].name.cnt < cnt_
    BY <1>1, <1>3, <2>1 DEF Streams
  <2>. QED
    BY <1>1, <2>1, <2>2
<1>. QED
  BY <1>2, <1>3 DEF OpensFile

LEMMA OpenedOnceStays == ASSUME TInv, [Next]_vars PROVE OpenedOnce'
<1>1. Control /\ Stream /\ OpenedOnce
  BY TypeParts DEF TInv
<1>2. ASSUME opened' = opened PROVE OpenedOnce'
  BY <1>1, <1>2 DEF OpenedOnce
<1>3. ASSUME NEW name, OpensFile(name) PROVE OpenedOnce'
  <2>1. CASE Opens(name)
    <3>. DEFINE n == Len(opened) + 1
    <3>1. /\ \A i \in 1..Len(opened) : opened'[i] = opened[i]
          /\ opened'[n].run = run /\ opened'[n].name = name
          /\ \A i \in 1..Len(opened') : i \in 1..Len(opened) \/ i = n
      <4>1. opened'[n] = [run |-> run, name |-> name]
        BY <1>1, <2>1, OpensFacts
      <4>2. /\ \A i \in 1..Len(opened) : opened'[i] = opened[i]
            /\ \A i \in 1..Len(opened') : i \in 1..Len(opened) \/ i = n
        BY <1>1, <2>1, OpensFacts
      <4>. QED
        BY <4>1, <4>2
    <3>2. \A i \in 1..Len(opened) : opened[i].run = run => opened[i].name # name
      BY <1>3, NewName
    <3>. HIDE DEF n
    <3>. QED
      BY <1>1, <3>1, <3>2 DEF OpenedOnce
  <2>. QED
    BY <1>2, <1>3, <2>1 DEF OpensFile
<1>4. CASE WritesToNull \/ Kill \/ PowerLoss
  <2>1. opened' = opened
    BY <1>4, Zenon DEF WritesToNull, Kill, PowerLoss, history
  <2>. QED
    BY <1>2, <2>1
<1>5. CASE Idles \/ (\E len \in Lens : Flush(len)) \/ Closes \/ Writes \/ Flushes \/ Restart
  <2>1. opened' = opened
    BY <1>5 DEF Idles, Flush, Closes, Writes, Flushes, Restart, history
  <2>. QED
    BY <1>2, <2>1
<1>. QED
  BY <1>1, <1>3, <1>4, <1>5, StepCases

LEMMA StreamsStay == ASSUME TInv, [Next]_vars PROVE Streams'
<1>1. Control /\ Stream /\ Streams /\ run \in Nat /\ cnt_ \in Nat
  BY TypeParts, RunFacts DEF TInv, Control
<1>2. ASSUME UNCHANGED <<kind, opened, run>>, cnt_' = cnt_, fs_' \in {fs_, NULL},
             pc' # "down" => pc # "down", pc' \in Starting => pc \in Starting,
             pc' \in Starting \cup {"down"} => fs_' = NULL,
             pc' = "flush" => fs_' # NULL, pc' = "init" => kind = "RollFileFlush"
      PROVE  Streams'
  BY <1>1, <1>2 DEF Streams
<1>3. CASE Idles
  <2>1. /\ UNCHANGED <<kind, opened, run, cnt_, fs_>>
        /\ \/ pc' = pc
           \/ pc \in Starting /\ pc' \in Starting
           \/ pc = "open" /\ kind = "RollFileFlush" /\ pc' = "ready"
           \/ pc = "init" /\ fs_ # NULL /\ pc' = "write"
    BY <1>3, Zenon DEF Idles, Untouched
  <2>2. /\ pc' # "down" => pc # "down"
        /\ pc' \in Starting => pc \in Starting
        /\ pc' \in Starting \cup {"down"} => fs_' = NULL
        /\ pc' = "flush" => fs_' # NULL
        /\ pc' = "init" => kind = "RollFileFlush"
    BY <1>1, <2>1 DEF Starting, Streams
  <2>. QED
    BY <1>2, <2>1, <2>2
<1>4. ASSUME NEW name, OpensFile(name) PROVE Streams'
  <2>1. /\ kind' = kind /\ run' = run /\ pc' \in {"ready", "write"} /\ fs_ = NULL
        /\ pc # "down" /\ pc' \notin Starting
    BY <1>1, <1>4 DEF OpensFile, Untouched, Streams, Starting
  <2>2. cnt_' \in Nat /\ cnt_ <= cnt_' /\ (pc = "init" => name.cnt = cnt_ /\ cnt_ < cnt_')
    BY <1>1, <1>4 DEF OpensFile
  <2>3. \A i \in 1..Len(opened) :
            /\ opened[i].run <= run
            /\ opened[i].run = run /\ kind # "FileFlush" =>
                 opened[i].name.cnt \in Nat /\ opened[i].name.cnt < cnt_'
    <3>. TAKE i \in 1..Len(opened)
    <3>1. opened[i].run <= run
      BY <1>1 DEF Streams
    <3>2. ASSUME opened[i].run = run, kind # "FileFlush"
          PROVE  opened[i].name.cnt \in Nat /\ opened[i].name.cnt < cnt_'
      <4>1. opened[i].name.cnt \in Nat /\ opened[i].name.cnt < cnt_
        BY <1>1, <2>1, <3>2 DEF Streams
      <4>. QED
        BY <1>1, <2>2, <4>1
    <3>. QED
      BY <3>1, <3>2
  <2>4. CASE fs_' = NULL /\ opened' = opened
    BY <2>1, <2>3, <2>4 DEF Streams
  <2>5. CASE Opens(name)
    <3>1. /\ fs_' = name /\ Len(opened') = Len(opened) + 1 /\ Len(opened) \in Nat
          /\ \A i \in 1..Len(opened) : opened'[i] = opened[i]
          /\ opened'[Len(opened) + 1].run = run /\ opened'[Len(opened) + 1].name = name
          /\ \A i \in 1..Len(opened') : i \in 1..Len(opened) \/ i = Len(opened) + 1
      <4>1. opened'[Len(opened) + 1] = [run |-> run, name |-> name]
        BY <1>1, <2>5, OpensFacts
      <4>2. /\ fs_' = name /\ Len(opened') = Len(opened) + 1 /\ Len(opened) \in Nat
            /\ \A i \in 1..Len(opened) : opened'[i] = opened[i]
            /\ \A i \in 1..Len(opened') : i \in 1..Len(opened) \/ i = Len(opened) + 1
        BY <1>1, <2>5, OpensFacts
      <4>. QED
        BY <4>1, <4>2
    <3>2. kind # "FileFlush" => pc = "init"
      BY <1>4 DEF OpensFile
    <3>3. ASSUME NEW i \in 1..Len(opened')
          PROVE  /\ opened'[i].run <= run
                 /\ opened'[i].run = run /\ kind # "FileFlush" =>
                      opened'[i].name.cnt \in Nat /\ opened'[i].name.cnt < cnt_'
      <4>1. CASE i \in 1..Len(opened)
        BY <2>3, <3>1, <4>1
      <4>2. CASE i = Len(opened) + 1
        BY <1>1, <2>2, <3>1, <3>2, <4>2
      <4>. QED
        BY <3>1, <4>1, <4>2
    <3>4. /\ Len(opened') # 0
          /\ opened'[Len(opened')].run = run /\ opened'[Len(opened')].name = fs_'
      BY <3>1
    <3>. QED
      BY <2>1, <3>3, <3>4 DEF Streams, Starting
  <2>. QED
    BY <1>4, <2>4, <2>5 DEF OpensFile
<1>5. ASSUME NEW len \in Lens, Flush(len) PROVE Streams'
  <2>1. /\ UNCHANGED <<kind, opened, run, cnt_, fs_>> /\ pc = "ready"
        /\ pc' = IF kind = "FileFlush" THEN "write" ELSE "init"
    BY <1>5 DEF Flush, config, counts
  <2>2. kind \in {"FileFlush", "RollFileFlush"}
    BY <1>1 DEF Control
  <2>. QED
    BY <1>2, <2>1, <2>2 DEF Starting
<1>6. CASE Closes
  <2>1. /\ UNCHANGED <<kind, opened, run, cnt_, pc>> /\ fs_' = NULL /\ pc = "init"
    BY <1>6 DEF Closes, config, counts, history
  <2>2. kind = "RollFileFlush"
    BY <1>1, <2>1 DEF Streams
  <2>. QED
    BY <1>2, <2>1, <2>2
<1>7. CASE Writes
  BY <1>1, <1>2, <1>7 DEF Writes, config, counts, history, Starting
<1>8. CASE Flushes
  BY <1>1, <1>2, <1>8 DEF Flushes, config, Starting
<1>9. CASE WritesToNull \/ Kill \/ PowerLoss
  <2>1. /\ UNCHANGED <<kind, opened, run>> /\ fs_' = NULL /\ pc' = "down"
    BY <1>9, Zenon DEF WritesToNull, Kill, PowerLoss, Dies, config, history
  <2>. QED
    BY <1>1, <2>1 DEF Streams
<1>10. CASE Restart
  <2>1. /\ UNCHANGED <<kind, opened, fs_>> /\ run' = run + 1 /\ pc = "down" /\ pc' = "construct"
    BY <1>10 DEF Restart, config, history
  <2>2. \A i \in 1..Len(opened) : opened[i].run <= run /\ opened[i].run \in Nat
    <3>1. \A i \in 1..Len(opened) : opened[i].run \in 1..MaxStops + 1
      BY <1>1, OpenedFacts
    <3>. QED
      BY <1>1, <3>1 DEF Streams
  <2>3. \A i \in 1..Len(opened) : opened[i].run <= run + 1 /\ opened[i].run # run + 1
    BY <1>1, <2>2
  <2>. QED
    BY <1>1, <2>1, <2>3 DEF Streams
<1>. QED
  BY <1>1, <1>3, <1>4, <1>5, <1>6, <1>7, <1>8, <1>9, <1>10, StepCases

LEMMA GivenStays == ASSUME [Next]_vars, Control, ~ \E len \in Lens : Flush(len) PROVE given' = given
<1>1. CASE Idles \/ \E name : OpensFile(name)
  BY <1>1 DEF Idles, OpensFile, Untouched
<1>2. CASE Closes \/ Writes \/ Flushes \/ Restart
  BY <1>2 DEF Closes, Writes, Flushes, Restart, history
<1>3. CASE WritesToNull \/ Kill \/ PowerLoss
  BY <1>3, Zenon DEF WritesToNull, Kill, PowerLoss, history
<1>. QED
  BY <1>1, <1>2, <1>3, StepCases

LEMMA GivenGrows ==
    ASSUME TInv, [Next]_vars, NEW r \in 1..MaxStops + 1
    PROVE  /\ Len(given[r]) \in Nat /\ Len(given'[r]) \in Nat
           /\ Len(given[r]) <= Len(given'[r])
           /\ \A k \in 1..Len(given[r]) : k \in 1..Len(given'[r]) /\ given'[r][k] = given[r][k]
<1>1. Control /\ Handed /\ Numbered
  BY TypeParts DEF TInv
<1>2. Len(given[r]) \in Nat
  BY <1>1, GivenFacts
<1>3. CASE given' = given
  BY <1>2, <1>3
<1>4. ASSUME NEW len \in Lens, Flush(len)
      PROVE  /\ Len(given'[r]) \in Nat /\ Len(given[r]) <= Len(given'[r])
             /\ \A k \in 1..Len(given[r]) : given'[r][k] = given[r][k]
  <2>1. CASE r = run
    BY <1>1, <1>2, <1>4, <2>1, Hands
  <2>2. CASE r # run
    <3>1. given'[r] = given[r]
      BY <1>1, <1>4, <2>2, Hands
    <3>. QED
      BY <1>2, <3>1
  <2>. QED
    BY <2>1, <2>2
<1>. QED
  BY <1>1, <1>2, <1>3, <1>4, GivenStays

LEMMA StillGiven ==
    ASSUME TInv, [Next]_vars, NEW b \in Batch, Given(b)
    PROVE  Given(b)'
<1>1. b.run \in 1..MaxStops + 1
  BY BatchFacts
<1>. QED
  BY <1>1, GivenGrows DEF Given

LEMMA GenuineAfter ==
    ASSUME TInv, [Next]_vars,
           \A i \in 1..Len(opened) : i \in 1..Len(opened') /\ opened'[i] = opened[i],
           \A name \in DOMAIN files' : \A j \in 1..Len(files'[name].data) :
               \/ /\ name \in DOMAIN files /\ j \in 1..Len(files[name].data)
                  /\ files'[name].data[j] = files[name].data[j]
               \/ /\ fs_ # NULL /\ name = fs_ /\ files'[name].data[j] \in Batch
                  /\ Given(files'[name].data[j]) /\ files'[name].data[j].run = run,
           (\A q \in 1..Len(buffered) : Given(buffered[q]) /\ buffered[q].run = run)'
    PROVE  Genuine'
<1>1. Stream /\ Streams /\ Genuine
  BY TypeParts DEF TInv
<1>2. ASSUME NEW name \in DOMAIN files', NEW j \in 1..Len(files'[name].data)
      PROVE  /\ (Given(files[name].data[j]))'
             /\ \E i \in 1..Len(opened') : /\ opened'[i].name = name
                                           /\ opened'[i].run = files'[name].data[j].run
  <2>1. /\ files'[name].data[j] \in Batch /\ Given(files'[name].data[j])
        /\ \E i \in 1..Len(opened) : /\ opened[i].name = name
                                     /\ opened[i].run = files'[name].data[j].run
    <3>1. CASE /\ name \in DOMAIN files /\ j \in 1..Len(files[name].data)
               /\ files'[name].data[j] = files[name].data[j]
      <4>1. files[name].data[j] \in Batch
        BY <1>1, <3>1, FileFacts
      <4>. QED
        BY <1>1, <3>1, <4>1 DEF Genuine
    <3>2. CASE /\ fs_ # NULL /\ name = fs_ /\ files'[name].data[j] \in Batch
               /\ Given(files'[name].data[j]) /\ files'[name].data[j].run = run
      <4>1. Len(opened) \in 1..Len(opened)
        BY <1>1, <3>2, OpenedFacts DEF Streams
      <4>. QED
        BY <1>1, <3>2, <4>1 DEF Streams
    <3>. QED
      BY <3>1, <3>2
  <2>2. ASSUME NEW b \in Batch, Given(b), b = files'[name].data[j]
        PROVE  (Given(files[name].data[j]))'
    <3>1. Given(b)'
      BY <2>2, StillGiven
    <3>. QED
      BY <2>2, <3>1 DEF Given
  <2>. QED
    BY <2>1, <2>2
<1>. QED
  BY <1>2 DEF Genuine

LEMMA BufferGenuine ==
    ASSUME TInv, [Next]_vars
    PROVE  (\A q \in 1..Len(buffered) : Given(buffered[q]) /\ buffered[q].run = run)'
<1>1. /\ Control /\ Stream /\ Streams /\ Genuine
      /\ \A q \in 1..Len(buffered) : buffered[q] \in Batch
  BY TypeParts, BufferFacts DEF TInv
<1>2. ASSUME buffered' = buffered, run' = run
      PROVE  (\A q \in 1..Len(buffered) : Given(buffered[q]) /\ buffered[q].run = run)'
  <2>1. ASSUME NEW q \in 1..Len(buffered) PROVE (Given(buffered[q]))'
    <3>1. ASSUME NEW b \in Batch, b = buffered[q], Given(b) PROVE (Given(buffered[q]))'
      <4>1. Given(b)'
        BY <3>1, StillGiven
      <4>. QED
        BY <1>2, <3>1, <4>1 DEF Given
    <3>. QED
      BY <1>1, <3>1 DEF Genuine
  <2>. QED
    BY <1>1, <1>2, <2>1 DEF Genuine
<1>3. ASSUME buffered' = <<>>
      PROVE  (\A q \in 1..Len(buffered) : Given(buffered[q]) /\ buffered[q].run = run)'
  <2>1. 1..Len(buffered') = {}
    BY <1>3
  <2>. QED
    BY <2>1
<1>4. CASE Idles \/ (\E name : OpensFile(name)) \/ (\E len \in Lens : Flush(len))
  BY <1>2, <1>4 DEF Idles, OpensFile, Untouched, Flush, counts
<1>5. CASE Closes \/ WritesToNull \/ Kill \/ PowerLoss
  <2>1. buffered' = <<>>
    BY <1>5, Zenon DEF Closes, WritesToNull, Kill, PowerLoss, Dies
  <2>. QED
    BY <1>3, <2>1
<1>6. CASE Restart
  <2>1. buffered' = <<>>
    BY <1>1, <1>6 DEF Restart, Streams, Stream
  <2>. QED
    BY <1>3, <2>1
<1>7. CASE Flushes
  <2>1. run' = run
    BY <1>7 DEF Flushes
  <2>2. buffered' = buffered \/ buffered' = <<>>
    BY <1>7, FlushesEffect
  <2>. QED
    BY <1>2, <1>3, <2>1, <2>2
<1>8. CASE Writes
  <2>1. run' = run /\ given' = given /\ pc \in Busy
    BY <1>8 DEF Writes, history, Busy
  <2>2. CASE buffered' = buffered
    BY <1>2, <2>1, <2>2
  <2>3. ASSUME NEW k \in 0..Len(Filled), NEW rest, buffered' = rest,
               rest \in Seq(Batch), Len(rest) = Len(Filled) - k,
               \A q \in 1..Len(Filled) - k : rest[q] = Filled[k + q]
        PROVE  (\A q \in 1..Len(buffered) : Given(buffered[q]) /\ buffered[q].run = run)'
    <3>1. Len(Filled) \in Nat /\ \A q \in 1..Len(Filled) : Given(Filled[q]) /\ Filled[q].run = run
      BY <2>1, FilledFacts
    <3>2. \A q \in 1..Len(Filled) - k : Given(rest[q]) /\ rest[q].run = run
      <4>. TAKE q \in 1..Len(Filled) - k
      <4>1. k + q \in 1..Len(Filled)
        BY <3>1
      <4>. QED
        BY <2>3, <3>1, <4>1
    <3>. QED
      BY <2>1, <2>3, <3>2 DEF Given
  <2>. QED
    BY <1>8, <2>2, <2>3, FwriteEffect
<1>. QED
  BY <1>1, <1>4, <1>5, <1>6, <1>7, <1>8, StepCases

\* What a step adds to a file is in the buffer, or is the batch of Flush.
LEMMA AddsGiven ==
    ASSUME Stream, NEW out, NEW s, Appends(out, s), \A q \in 1..Len(out) : Given(out[q])
    PROVE  /\ \A i \in 1..Len(opened) : i \in 1..Len(opened') /\ opened'[i] = opened[i]
           /\ \A name \in DOMAIN files' : \A j \in 1..Len(files'[name].data) :
               \/ /\ name \in DOMAIN files /\ j \in 1..Len(files[name].data)
                  /\ files'[name].data[j] = files[name].data[j]
               \/ /\ fs_ # NULL /\ name = fs_ /\ files'[name].data[j] \in Batch
                  /\ Given(files'[name].data[j]) /\ files'[name].data[j].run = run
<1>1. /\ opened' = opened /\ fs_ # NULL /\ \A q \in 1..Len(out) : out[q].run = run
      /\ out \in Seq(Batch) /\ \A q \in 1..Len(out) : out[q] \in Batch
  BY ElementOfSeq DEF Appends
<1>2. ASSUME NEW name \in DOMAIN files', NEW j \in 1..Len(files'[name].data)
      PROVE  \/ /\ name \in DOMAIN files /\ j \in 1..Len(files[name].data)
                /\ files'[name].data[j] = files[name].data[j]
             \/ /\ fs_ # NULL /\ name = fs_ /\ files'[name].data[j] \in Batch
                /\ Given(files'[name].data[j]) /\ files'[name].data[j].run = run
  <2>1. name \in DOMAIN files
    BY AppendsFacts
  <2>2. CASE name # fs_
    BY <2>1, <2>2, AppendsFacts
  <2>3. CASE name = fs_
    <3>1. j \in 1..Len(files[fs_].data) + Len(out)
      BY <2>3, AppendsFacts
    <3>2. CASE j \in 1..Len(files[fs_].data)
      BY <2>1, <2>3, <3>2, AppendsFacts
    <3>3. ASSUME NEW q \in 1..Len(out), j = Len(files[fs_].data) + q
          PROVE  files'[name].data[j] = out[q]
      BY <2>3, <3>3, AppendsFacts
    <3>4. CASE \E q \in 1..Len(out) : j = Len(files[fs_].data) + q
      BY <1>1, <2>3, <3>3, <3>4
    <3>. QED
      BY <3>1, <3>2, <3>4, AppendsFacts
  <2>. QED
    BY <2>2, <2>3
<1>. QED
  BY <1>1, <1>2

LEMMA GenuineStays == ASSUME TInv, [Next]_vars PROVE Genuine'
<1>1. /\ Control /\ Stream /\ Streams /\ Genuine
      /\ (\A q \in 1..Len(buffered) : Given(buffered[q]) /\ buffered[q].run = run)'
  BY TypeParts, BufferGenuine DEF TInv
<1>2. ASSUME UNCHANGED <<files, opened>> PROVE Genuine'
  BY <1>1, <1>2, GenuineAfter
<1>3. ASSUME NEW out, NEW s, Appends(out, s), \A q \in 1..Len(out) : Given(out[q])
      PROVE  Genuine'
  BY <1>1, <1>3, AddsGiven, GenuineAfter
<1>4. ASSUME NEW name, Opens(name) PROVE Genuine'
  <2>1. \A i \in 1..Len(opened) : i \in 1..Len(opened') /\ opened'[i] = opened[i]
    <3>1. /\ Len(opened) \in Nat /\ Len(opened') = Len(opened) + 1
          /\ \A i \in 1..Len(opened) : opened'[i] = opened[i]
      BY <1>1, <1>4, OpensFacts
    <3>. QED
      BY <3>1
  <2>2. ASSUME NEW n \in DOMAIN files', NEW j \in 1..Len(files'[n].data)
        PROVE  /\ n \in DOMAIN files /\ j \in 1..Len(files[n].data)
               /\ files'[n].data[j] = files[n].data[j]
    <3>1. CASE n \in DOMAIN files
      <4>1. files'[n] = files[n]
        BY <1>1, <1>4, <3>1, OpensFacts
      <4>. QED
        BY <3>1, <4>1
    <3>2. CASE n \notin DOMAIN files
      <4>1. n = name
        BY <1>1, <1>4, <3>2, OpensFacts
      <4>2. files'[n] = [data |-> <<>>, synced |-> 0]
        BY <1>1, <1>4, <3>2, <4>1, OpensFacts
      <4>3. files'[n].data = <<>>
        BY <4>2
      <4>. QED
        BY <4>3
    <3>. QED
      BY <3>1, <3>2
  <2>. QED
    BY <1>1, <2>1, <2>2, GenuineAfter
<1>5. CASE Idles \/ (\E len \in Lens : Flush(len)) \/ WritesToNull \/ Kill \/ Restart
  BY <1>2, <1>5 DEF Idles, Untouched, Flush, WritesToNull, Kill, Restart, history
<1>6. CASE \E name : OpensFile(name)
  BY <1>2, <1>4, <1>6 DEF OpensFile
<1>7. CASE Closes
  BY <1>1, <1>3, <1>7, ClosesEffect DEF Genuine
<1>8. CASE Flushes
  BY <1>1, <1>2, <1>3, <1>8, FlushesEffect DEF Genuine
<1>9. CASE Writes
  <2>1. pc \in Busy
    BY <1>9 DEF Writes, Busy
  <2>2. \A q \in 1..Len(Filled) : Given(Filled[q])
    BY <2>1, FilledFacts
  <2>3. ASSUME NEW k \in 0..Len(Filled), NEW out, Appends(out, files[fs_].synced),
               Len(out) = k, \A q \in 1..k : out[q] = Filled[q]
        PROVE  Genuine'
    <3>1. \A q \in 1..Len(out) : q \in 1..Len(Filled)
      BY <2>1, <2>3, FilledFacts
    <3>. QED
      BY <1>3, <2>2, <2>3, <3>1
  <2>. QED
    BY <1>2, <1>9, <2>3, FwriteEffect
<1>10. CASE PowerLoss
  <2>1. opened' = opened
    BY <1>10, Zenon DEF PowerLoss, history
  <2>2. ASSUME NEW n \in DOMAIN files', NEW j \in 1..Len(files'[n].data)
        PROVE  /\ n \in DOMAIN files /\ j \in 1..Len(files[n].data)
               /\ files'[n].data[j] = files[n].data[j]
    <3>1. /\ n \in DOMAIN files /\ Len(files'[n].data) \in Nat
          /\ Len(files'[n].data) <= Len(files[n].data)
          /\ files'[n].data[j] = files[n].data[j]
      BY <1>1, <1>10, PowerLossFacts
    <3>2. Len(files[n].data) \in Nat
      BY <1>1, <3>1, FileFacts
    <3>. QED
      BY <3>1, <3>2
  <2>. QED
    BY <1>1, <2>1, <2>2, GenuineAfter
<1>. QED
  BY <1>1, <1>5, <1>6, <1>7, <1>8, <1>9, <1>10, StepCases

LEMMA InitTyped == Init => TInv
<1>. SUFFICES ASSUME Init PROVE TInv
  OBVIOUS
<1>1. /\ MaxStops \in Nat /\ MaxFaults \in Nat /\ Paths \subseteq Seq(STRING)
      /\ Instants \in Seq([min : 0..59, sec : 0..60]) \ {<<>>}
  BY SizesAssumption
<1>2. Len(Instants) \in Nat /\ Len(Instants) # 0
  BY <1>1, EmptySeq, LenProperties
<1>3. Control
  <2>1. path \in Paths /\ Len(path) \in Nat
    BY <1>1, LenProperties DEF Init
  <2>. QED
    BY <1>1, <1>2, <2>1 DEF Init, Control, Starting
<1>4. DOMAIN files = {} /\ opened = <<>> /\ buffered = <<>> /\ Len(opened) = 0 /\ Len(buffered) = 0
  BY DEF Init
<1>5. Stream
  <2>1. files \in [DOMAIN files -> [data : Seq(Batch), synced : Nat]]
    BY <1>4 DEF Init
  <2>2. opened \in Seq([run : 1..MaxStops + 1, name : DOMAIN files]) /\ buffered \in Seq(Batch)
    BY <1>4, EmptySeq
  <2>. QED
    BY <1>4, <2>1, <2>2 DEF Init, Stream
<1>6. Handed
  <2>1. <<>> \in Seq(Batch)
    BY EmptySeq
  <2>. QED
    BY <2>1 DEF Init, Handed
<1>7. Numbered
  BY <1>1 DEF Init, Numbered, Busy
<1>8. Streams /\ OpenedOnce /\ Genuine
  BY <1>4 DEF Init, Streams, OpenedOnce, Genuine
<1>. QED
  BY <1>3, <1>5, <1>6, <1>7, <1>8, TypeParts DEF TInv

LEMMA TypedStays == ASSUME TInv, [Next]_vars PROVE TInv'
<1>1. TypeOK
  BY DEF TInv
<1>2. Control' /\ Stream' /\ Handed'
  BY <1>1, ControlStays, StreamStays, HandedStays
<1>3. TypeOK'
  BY <1>2 DEF TypeOK, Control, Stream, Handed, Starting, Busy
<1>. QED
  BY <1>3, NumberedStays, StreamsStay, OpenedOnceStays, GenuineStays DEF TInv

\* Whatever is in a file was given to the run that opened it, no run opens a file
\* twice, and the stream, the buffer and the counters fit the place where the
\* program is.
LEMMA Typed == Spec => []TInv
<1>1. TInv /\ [Next]_vars => TInv'
  BY TypedStays
<1>. QED
  BY InitTyped, <1>1, PTL DEF Spec

\* Every variable of the outputs keeps its type, only an open stream has a buffer,
\* and no more is forced to the disk than a file holds, whatever is killed, loses
\* power or fails.
THEOREM TypeCorrect == Spec => []TypeOK
<1>1. TInv => TypeOK
  BY DEF TInv
<1>. QED
  BY Typed, <1>1, PTL

-----------------------------------------------------------------------------
(* Where the batches of a run are *)

LEMMA PlaceFacts ==
    ASSUME TInv, NEW i \in 1..Len(opened), NEW r, NEW j \in Places(i, r)
    PROVE  /\ Len(Data(i)) \in Nat /\ j \in 1..Len(Data(i)) /\ Data(i)[j] \in Batch
           /\ opened[i].run = r /\ Data(i)[j].run = r /\ r \in 1..MaxStops + 1 /\ r <= run
           /\ Data(i)[j].k \in 1..Len(given[r]) /\ Data(i)[j] = given[r][Data(i)[j].k]
<1>1. /\ Stream /\ Genuine /\ Streams
      /\ j \in 1..Len(Data(i)) /\ opened[i].run = r /\ Data(i)[j].run = r
  BY TypeParts DEF TInv, Places
<1>2. /\ Len(Data(i)) \in Nat /\ Data(i)[j] \in Batch
      /\ opened[i].name \in DOMAIN files /\ r \in 1..MaxStops + 1
  BY <1>1, OpenedFacts
<1>3. Given(Data(i)[j])
  BY <1>1, <1>2 DEF Genuine, Data
<1>4. r <= run
  BY <1>1 DEF Streams
<1>. QED
  BY <1>1, <1>2, <1>3, <1>4 DEF Given

\* Every place stays one, and on the disk if it was.
KeepsPlaces ==
    \A i \in 1..Len(opened) :
        /\ i \in 1..Len(opened')
        /\ \A r : \A j \in Places(i, r) :
             /\ j \in Places(i, r)' /\ Data(i)'[j] = Data(i)[j]
             /\ j <= files[opened[i].name].synced => j <= files'[opened'[i].name].synced

\* No place is new.
AddsNoPlace ==
    \A i \in 1..Len(opened') : \A r : \A j \in Places(i, r)' :
        i \in 1..Len(opened) /\ j \in Places(i, r) /\ Data(i)'[j] = Data(i)[j]

\* The new places are at the end of the file that run me opened last, as the n-th.
AddsPlaces(n, me, out) ==
    LET end == Len(Data(n))
    IN  /\ n \in Nat /\ n \in 1..n /\ n = Len(opened) /\ me = run
        /\ end \in Nat /\ Len(out) \in Nat
        /\ opened' = opened /\ Data(n)' = files'[fs_].data
        /\ Len(Data(n)') = end + Len(out)
        /\ \A j \in Places(n, me) : j \in Nat /\ j <= end
        /\ \A i \in 1..n : \A r : \A j \in Places(i, r)' :
             \/ j \in Places(i, r) /\ Data(i)'[j] = Data(i)[j]
             \/ /\ r = me /\ i = n
                /\ \E q \in 1..Len(out) : j = end + q /\ Data(i)'[j] = out[q]
        /\ \A q \in 1..Len(out) : end + q \in Places(n, me)' /\ Data(n)'[end + q] = out[q]

LEMMA SamePlaces ==
    ASSUME UNCHANGED <<files, opened>>
    PROVE  KeepsPlaces /\ AddsNoPlace
BY DEF KeepsPlaces, AddsNoPlace, Places, Data

LEMMA OpensPlaces ==
    ASSUME TInv, NEW name, OpensFile(name)
    PROVE  KeepsPlaces /\ AddsNoPlace
<1>1. Stream /\ Control /\ Genuine
  BY TypeParts DEF TInv
<1>2. CASE UNCHANGED <<files, opened>>
  BY <1>2, SamePlaces
<1>3. CASE Opens(name)
  <2>0. PICK n : n = Len(opened)
    OBVIOUS
  <2>1. /\ n \in Nat /\ Len(opened') = n + 1
        /\ \A i \in 1..n : opened'[i] = opened[i]
        /\ \A f \in DOMAIN files : files'[f] = files[f]
        /\ \A i \in 1..Len(opened') : i \in 1..n \/ i = n + 1
    BY <1>1, <1>3, <2>0, OpensFacts
  <2>2. opened'[n + 1].run = run /\ opened'[n + 1].name = name
    <3>1. opened'[n + 1] = [run |-> run, name |-> name]
      BY <1>1, <1>3, <2>0, OpensFacts
    <3>. QED
      BY <3>1
  <2>3. \A i \in 1..n : opened[i].name \in DOMAIN files
    BY <1>1, <2>0, OpenedFacts
  <2>4. \A i \in 1..n : /\ Data(i)' = Data(i) /\ \A r : Places(i, r)' = Places(i, r)
                        /\ files'[opened'[i].name].synced = files[opened[i].name].synced
    <3>. TAKE i \in 1..n
    <3>1. opened'[i] = opened[i] /\ files'[opened'[i].name] = files[opened[i].name]
      BY <2>1, <2>3
    <3>2. Data(i)' = Data(i)
      BY <3>1 DEF Data
    <3>. QED
      BY <3>1, <3>2 DEF Places
  <2>5. ASSUME NEW r, NEW j \in Places(n + 1, r)' PROVE FALSE
    <3>1. /\ j \in 1..Len(files'[name].data) /\ r = run /\ files'[name].data[j].run = run
      <4>1. /\ j \in 1..Len(Data(n + 1)') /\ opened'[n + 1].run = r
            /\ Data(n + 1)'[j].run = r
        BY DEF Places
      <4>2. Data(n + 1)' = files'[name].data
        BY <2>2 DEF Data
      <4>. QED
        BY <2>2, <4>1, <4>2
    <3>2. CASE name \notin DOMAIN files
      <4>1. files'[name] = [data |-> <<>>, synced |-> 0]
        BY <1>1, <1>3, <3>2, OpensFacts
      <4>2. files'[name].data = <<>>
        BY <4>1
      <4>. QED
        BY <3>1, <4>2
    <3>3. CASE name \in DOMAIN files
      <4>1. files'[name] = files[name]
        BY <2>1, <3>3
      <4>2. \E i \in 1..Len(opened) : opened[i].name = name /\ opened[i].run = run
        BY <1>1, <3>1, <3>3, <4>1 DEF Genuine
      <4>. QED
        BY <4>2, NewName
    <3>. QED
      BY <3>2, <3>3
  <2>6. KeepsPlaces
    <3>1. \A i \in 1..n : i \in 1..Len(opened')
      BY <2>1
    <3>. QED
      BY <2>0, <2>4, <3>1 DEF KeepsPlaces
  <2>7. AddsNoPlace
    <3>1. ASSUME NEW i \in 1..Len(opened'), NEW r, NEW j \in Places(i, r)'
          PROVE  i \in 1..n /\ j \in Places(i, r) /\ Data(i)'[j] = Data(i)[j]
      <4>1. i \in 1..n \/ i = n + 1
        BY <2>1
      <4>2. i # n + 1
        BY <2>5, <3>1
      <4>. QED
        BY <2>4, <3>1, <4>1, <4>2
    <3>. QED
      BY <2>0, <3>1 DEF AddsNoPlace
  <2>. QED
    BY <2>6, <2>7
<1>. QED
  BY <1>2, <1>3 DEF OpensFile

LEMMA AppendsPlaces ==
    ASSUME TInv, NEW out, NEW s, Appends(out, s), NEW n, n = Len(opened), NEW me, me = run
    PROVE  KeepsPlaces /\ AddsPlaces(n, me, out)
<1>. DEFINE end == Len(Data(n))
<1>1. /\ Stream /\ Control /\ Streams /\ OpenedOnce /\ fs_ # NULL /\ opened' = opened
      /\ \A q \in 1..Len(out) : out[q].run = me
  BY TypeParts DEF TInv, Appends
<1>2. n \in Nat /\ n \in 1..n /\ opened[n].run = me /\ opened[n].name = fs_
  BY <1>1, OpenedFacts DEF Streams
<1>3. \A i \in 1..n : /\ opened[i].name \in DOMAIN files /\ Len(Data(i)) \in Nat
                      /\ opened[i].run = me /\ opened[i].name = fs_ => i = n
  BY <1>1, <1>2, OpenedFacts DEF OpenedOnce
<1>4. Data(n) = files[fs_].data /\ Data(n)' = files'[fs_].data
  BY <1>1, <1>2 DEF Data
<1>5. /\ end \in Nat /\ Len(out) \in Nat /\ Len(Data(n)') = end + Len(out)
      /\ \A j \in 1..end : Data(n)'[j] = Data(n)[j]
      /\ \A q \in 1..Len(out) : Data(n)'[end + q] = out[q]
      /\ \A j \in 1..end + Len(out) : j \in 1..end \/ \E q \in 1..Len(out) : j = end + q
  BY <1>1, <1>4, AppendsFacts
<1>6. \A i \in 1..n : opened[i].name # fs_ => Data(i)' = Data(i)
  BY <1>1, <1>3, AppendsFacts DEF Data
<1>7. \A i \in 1..n : opened[i].name = fs_ => Data(i) = Data(n) /\ Data(i)' = Data(n)'
  BY <1>1, <1>4 DEF Data
<1>8. \A i \in 1..n : /\ files[opened[i].name].synced <= files'[opened'[i].name].synced
                      /\ files[opened[i].name].synced \in Nat
                      /\ files'[opened'[i].name].synced \in Nat
  <2>. TAKE i \in 1..n
  <2>1. /\ files[opened[i].name].synced <= files'[opened[i].name].synced
        /\ files'[opened[i].name] \in [data : Seq(Batch), synced : Nat]
    BY <1>1, <1>3, AppendsFacts
  <2>2. files[opened[i].name].synced \in Nat
    BY <1>1, <1>3, FileFacts
  <2>. QED
    BY <1>1, <2>1, <2>2
<1>9. ASSUME NEW i \in 1..n, NEW r, NEW j \in Places(i, r)
      PROVE  /\ j \in Places(i, r)' /\ Data(i)'[j] = Data(i)[j] /\ j \in Nat
             /\ j <= Len(Data(i))
  <2>1. j \in 1..Len(Data(i)) /\ opened[i].run = r /\ Data(i)[j].run = r /\ Len(Data(i)) \in Nat
    BY <1>3 DEF Places
  <2>2. CASE opened[i].name = fs_
    <3>1. j \in 1..end /\ Data(i)'[j] = Data(i)[j] /\ Len(Data(i)') = end + Len(out)
      BY <1>5, <1>7, <2>1, <2>2
    <3>2. j \in 1..Len(Data(i)')
      BY <1>5, <3>1
    <3>. QED
      BY <1>1, <2>1, <3>1, <3>2 DEF Places
  <2>3. CASE opened[i].name # fs_
    BY <1>1, <1>6, <2>1, <2>3 DEF Places
  <2>. QED
    BY <2>2, <2>3
<1>10. KeepsPlaces
  <2>1. ASSUME NEW i \in 1..n, NEW r, NEW j \in Places(i, r), j <= files[opened[i].name].synced
        PROVE  j <= files'[opened'[i].name].synced
    <3>1. j \in Nat
      BY <1>9
    <3>. QED
      BY <1>8, <2>1, <3>1
  <2>. QED
    BY <1>1, <1>9, <2>1 DEF KeepsPlaces
<1>11. ASSUME NEW i \in 1..n, NEW r, NEW j \in Places(i, r)'
       PROVE  \/ j \in Places(i, r) /\ Data(i)'[j] = Data(i)[j]
              \/ /\ r = me /\ i = n
                 /\ \E q \in 1..Len(out) : j = end + q /\ Data(i)'[j] = out[q]
  <2>1. j \in 1..Len(Data(i)') /\ opened[i].run = r /\ Data(i)'[j].run = r
    BY <1>1 DEF Places
  <2>2. CASE opened[i].name # fs_
    BY <1>6, <2>1, <2>2 DEF Places
  <2>3. CASE opened[i].name = fs_ /\ j \in 1..end
    BY <1>5, <1>7, <2>1, <2>3 DEF Places
  <2>4. ASSUME opened[i].name = fs_, NEW q \in 1..Len(out), j = end + q
        PROVE  r = me /\ i = n /\ Data(i)'[j] = out[q]
    <3>1. Data(i)'[j] = out[q]
      BY <1>5, <1>7, <2>4
    <3>. QED
      BY <1>1, <1>3, <2>1, <2>4, <3>1
  <2>5. opened[i].name = fs_ => j \in 1..end \/ \E q \in 1..Len(out) : j = end + q
    BY <1>5, <1>7, <2>1
  <2>. QED
    BY <2>2, <2>3, <2>4, <2>5
<1>12. \A q \in 1..Len(out) : end + q \in Places(n, me)' /\ Data(n)'[end + q] = out[q]
  <2>. TAKE q \in 1..Len(out)
  <2>1. end + q \in 1..Len(Data(n)') /\ Data(n)'[end + q] = out[q]
    BY <1>5
  <2>2. opened'[n].run = me /\ Data(n)'[end + q].run = me
    BY <1>1, <1>2, <2>1
  <2>. HIDE DEF end
  <2>. QED
    BY <2>1, <2>2 DEF Places
<1>13. \A j \in Places(n, me) : j \in Nat /\ j <= end
  BY <1>2, <1>9
<1>14. AddsPlaces(n, me, out)
  BY <1>1, <1>2, <1>4, <1>5, <1>11, <1>12, <1>13 DEF AddsPlaces
<1>. QED
  BY <1>10, <1>14

LEMMA LosesPlaces ==
    ASSUME TInv, PowerLoss
    PROVE  /\ AddsNoPlace /\ opened' = opened
           /\ \A i \in 1..Len(opened) : \A r : \A j \in Places(i, r) :
                 j <= files[opened[i].name].synced =>
                    /\ j \in Places(i, r)' /\ Data(i)'[j] = Data(i)[j]
                    /\ j <= files'[opened'[i].name].synced
<1>1. Stream /\ opened' = opened
  BY TypeParts, Zenon DEF TInv, PowerLoss, history
<1>2. ASSUME NEW i \in 1..Len(opened)
      PROVE  /\ Len(Data(i)) \in Nat /\ Len(Data(i)') \in Nat /\ Len(Data(i)') <= Len(Data(i))
             /\ \A j \in 1..Len(Data(i)') : Data(i)'[j] = Data(i)[j]
             /\ files[opened[i].name].synced <= files'[opened'[i].name].synced
             /\ files'[opened'[i].name].synced = Len(Data(i)')
             /\ files[opened[i].name].synced \in Nat
  <2>1. opened[i].name \in DOMAIN files /\ Len(Data(i)) \in Nat
    BY <1>1, OpenedFacts
  <2>2. files[opened[i].name].synced \in Nat
    BY <1>1, <2>1, FileFacts
  <2>. QED
    BY <1>1, <2>1, <2>2, PowerLossFacts DEF Data
<1>3. AddsNoPlace
  <2>1. ASSUME NEW i \in 1..Len(opened), NEW r, NEW j \in Places(i, r)'
        PROVE  j \in Places(i, r) /\ Data(i)'[j] = Data(i)[j]
    <3>1. j \in 1..Len(Data(i)') /\ opened[i].run = r /\ Data(i)'[j].run = r
      BY <1>1 DEF Places
    <3>2. j \in 1..Len(Data(i)) /\ Data(i)'[j] = Data(i)[j]
      BY <1>2, <3>1
    <3>. QED
      BY <3>1, <3>2 DEF Places
  <2>. QED
    BY <1>1, <2>1 DEF AddsNoPlace
<1>4. ASSUME NEW i \in 1..Len(opened), NEW r, NEW j \in Places(i, r),
             j <= files[opened[i].name].synced
      PROVE  /\ j \in Places(i, r)' /\ Data(i)'[j] = Data(i)[j]
             /\ j <= files'[opened'[i].name].synced
  <2>1. j \in 1..Len(Data(i)) /\ opened[i].run = r /\ Data(i)[j].run = r
    BY DEF Places
  <2>2. j <= files'[opened'[i].name].synced /\ j \in 1..Len(Data(i)')
    <3>1. /\ j \in Nat /\ j >= 1 /\ Len(Data(i)') \in Nat
          /\ files'[opened'[i].name].synced = Len(Data(i)')
          /\ files[opened[i].name].synced \in Nat
          /\ files[opened[i].name].synced <= files'[opened'[i].name].synced
      BY <1>2, <2>1
    <3>. QED
      BY <1>4, <3>1
  <2>3. Data(i)'[j] = Data(i)[j]
    BY <1>2, <2>2
  <2>. QED
    BY <1>1, <2>1, <2>2, <2>3 DEF Places
<1>. QED
  BY <1>1, <1>3, <1>4

LEMMA StillThere ==
    ASSUME TInv, KeepsPlaces, NEW b
    PROVE  (Survives(b) => Survives(b)') /\ (Synced(b) => Synced(b)')
BY DEF KeepsPlaces, Survives, Synced

LEMMA WasThere ==
    ASSUME TInv, AddsNoPlace, NEW b
    PROVE  Survives(b)' => Survives(b)
BY DEF AddsNoPlace, Survives

LEMMA OrderStays ==
    ASSUME TInv, AddsNoPlace, NEW r, InOrder(r)
    PROVE  InOrder(r)'
BY DEF AddsNoPlace, InOrder

LEMMA SyncedSurvives == ASSUME NEW b, Synced(b) PROVE Survives(b)
BY DEF Synced, Survives

\* Every step keeps the places, but for a power loss, and no step makes a new one,
\* but for those that write.
LEMMA PlacesStay ==
    ASSUME TInv, [Next]_vars
    PROVE  /\ PowerLoss \/ KeepsPlaces
           /\ Closes \/ Writes \/ Flushes \/ AddsNoPlace
<1>1. CASE Idles \/ (\E len \in Lens : Flush(len)) \/ WritesToNull \/ Kill \/ Restart
  <2>1. UNCHANGED <<files, opened>>
    BY <1>1 DEF Idles, Untouched, Flush, WritesToNull, Kill, Restart, history
  <2>. QED
    BY <2>1, SamePlaces
<1>2. CASE \E name : OpensFile(name)
  BY <1>2, OpensPlaces
<1>3. CASE PowerLoss
  BY <1>3, LosesPlaces
<1>4. ASSUME NEW out, NEW s, Appends(out, s) PROVE KeepsPlaces
  BY <1>4, AppendsPlaces
<1>5. CASE Closes
  BY <1>4, <1>5, ClosesEffect
<1>6. CASE Writes
  BY <1>4, <1>6, FwriteEffect, SamePlaces
<1>7. CASE Flushes
  BY <1>4, <1>7, FlushesEffect, SamePlaces
<1>8. Control
  BY TypeParts DEF TInv
<1>. QED
  BY <1>1, <1>2, <1>3, <1>5, <1>6, <1>7, <1>8, StepCases

-----------------------------------------------------------------------------
(* What survives of a run *)

\* Where the run is: how many of its batches are in its files.
Reached(me, out) ==
    /\ out \in Nat
    /\ \A q \in 1..Len(buffered) : buffered[q].k = out + q
    /\ \A i \in 1..Len(opened) : \A j \in Places(i, me) : Data(i)[j].k <= out
    /\ \A k \in 1..out : Survives(given[me][k])

LEMMA OrderedParts ==
    Ordered <=> /\ \A r \in 1..MaxStops + 1 : InOrder(r)
                /\ pc # "down" => Reached(run, Out)
BY DEF Ordered, Reached

LEMMA CountsFacts ==
    ASSUME TInv
    PROVE  /\ run \in 1..MaxStops + 1 /\ Len(given[run]) \in Nat /\ Len(buffered) \in Nat
           /\ Pushed \in Int /\ Out \in Int /\ Out = Pushed - Len(buffered)
           /\ Pushed <= Len(given[run])
           /\ pc \in {"init", "write"} => Pushed = Len(given[run]) - 1
           /\ pc \notin {"init", "write"} => Pushed = Len(given[run])
<1>1. Control /\ Stream /\ Handed /\ run \in 1..MaxStops + 1
  BY TypeParts DEF TInv, Control
<1>2. Len(given[run]) \in Nat /\ Len(buffered) \in Nat
  BY <1>1, GivenFacts, BufferFacts
<1>. QED
  BY <1>1, <1>2 DEF Pushed, Out

\* The next batches are written at the end.
LEMMA OrderedAppends ==
    ASSUME TInv, Ordered, pc # "down", NEW out, NEW s, Appends(out, s),
           UNCHANGED <<given, run>>,
           \A q \in 1..Len(out) : Given(out[q]) /\ out[q].k = Out + q,
           Out' = Out + Len(out),
           (\A q \in 1..Len(buffered) : buffered[q].k = Out + q)'
    PROVE  Ordered'
<1>0. PICK n, me, o : n = Len(opened) /\ me = run /\ o = Out
  OBVIOUS
<1>1. /\ \A r \in 1..MaxStops + 1 : InOrder(r)
      /\ o \in Nat
      /\ \A i \in 1..Len(opened) : \A j \in Places(i, me) : Data(i)[j].k <= o
      /\ \A k \in 1..o : Survives(given[me][k])
      /\ me \in 1..MaxStops + 1
  BY <1>0, CountsFacts DEF Ordered
<1>2. KeepsPlaces /\ AddsPlaces(n, me, out)
  BY <1>0, AppendsPlaces
<1>3. \A q \in 1..Len(out) : out[q].k = o + q
  BY <1>0
<1>. DEFINE end == Len(Data(n))
<1>4. /\ n \in Nat /\ n \in 1..n /\ end \in Nat /\ Len(out) \in Nat /\ Len(opened) = n
      /\ Len(opened') = n
      /\ \A j \in Places(n, me) : j \in Nat /\ j <= end
      /\ \A i \in 1..n : \A r : \A j \in Places(i, r)' :
           \/ j \in Places(i, r) /\ Data(i)'[j] = Data(i)[j]
           \/ /\ r = me /\ i = n
              /\ \E q \in 1..Len(out) : j = end + q /\ Data(i)'[j] = out[q]
      /\ \A q \in 1..Len(out) : end + q \in Places(n, me)' /\ Data(n)'[end + q] = out[q]
  BY <1>2 DEF AddsPlaces
<1>. HIDE DEF end
<1>5. \A i \in 1..n : \A r : \A j \in Places(i, r) :
         /\ i \in 1..Len(opened) /\ opened[i].run = r /\ j \in 1..Len(Data(i))
         /\ Data(i)[j].k \in Nat
  <2>. TAKE i \in 1..n
  <2>. TAKE r
  <2>. TAKE j \in Places(i, r)
  <2>1. i \in 1..Len(opened)
    BY <1>4
  <2>2. Data(i)[j] \in Batch /\ opened[i].run = r /\ j \in 1..Len(Data(i))
    BY <2>1, PlaceFacts
  <2>. QED
    BY <2>1, <2>2, BatchFacts
<1>6. ASSUME NEW r \in 1..MaxStops + 1 PROVE InOrder(r)'
  <2>1. ASSUME NEW i1 \in 1..n, NEW i2 \in 1..n,
               NEW j1 \in Places(i1, r)', NEW j2 \in Places(i2, r)',
               i1 < i2 \/ (i1 = i2 /\ j1 < j2)
        PROVE  Data(i1)'[j1].k < Data(i2)'[j2].k
    <3>1. CASE /\ j1 \in Places(i1, r) /\ Data(i1)'[j1] = Data(i1)[j1]
               /\ j2 \in Places(i2, r) /\ Data(i2)'[j2] = Data(i2)[j2]
      <4>1. InOrder(r)
        BY <1>1
      <4>2. i1 \in 1..Len(opened) /\ i2 \in 1..Len(opened)
        BY <1>4
      <4>3. Data(i1)[j1].k < Data(i2)[j2].k
        BY <2>1, <3>1, <4>1, <4>2 DEF InOrder
      <4>. QED
        BY <3>1, <4>3
    <3>2. ASSUME j1 \in Places(i1, r), Data(i1)'[j1] = Data(i1)[j1], r = me, i2 = n,
                 NEW q \in 1..Len(out), j2 = end + q, Data(i2)'[j2] = out[q]
          PROVE  Data(i1)'[j1].k < Data(i2)'[j2].k
      <4>1. Data(i1)[j1].k <= o /\ Data(i1)[j1].k \in Nat
        BY <1>1, <1>4, <1>5, <3>2
      <4>2. out[q].k = o + q
        BY <1>3
      <4>. QED
        BY <1>1, <1>4, <3>2, <4>1, <4>2
    <3>3. ASSUME r = me, i1 = n, NEW q \in 1..Len(out), j1 = end + q,
                 j2 \in Places(i2, r)
          PROVE  FALSE
      <4>1. i2 = n /\ j1 < j2
        BY <1>4, <2>1, <3>3
      <4>2. j2 \in Nat /\ j2 <= end
        BY <1>4, <3>3, <4>1
      <4>. QED
        BY <1>4, <3>3, <4>1, <4>2
    <3>4. ASSUME r = me, i1 = n, i2 = n, NEW q1 \in 1..Len(out), NEW q2 \in 1..Len(out),
                 j1 = end + q1, j2 = end + q2,
                 Data(i1)'[j1] = out[q1], Data(i2)'[j2] = out[q2]
          PROVE  Data(i1)'[j1].k < Data(i2)'[j2].k
      <4>1. q1 < q2
        BY <1>4, <2>1, <3>4
      <4>2. out[q1].k = o + q1 /\ out[q2].k = o + q2
        BY <1>3
      <4>. QED
        BY <1>1, <1>4, <3>4, <4>1, <4>2
    <3>5. \/ j1 \in Places(i1, r) /\ Data(i1)'[j1] = Data(i1)[j1]
          \/ /\ r = me /\ i1 = n
             /\ \E q \in 1..Len(out) : j1 = end + q /\ Data(i1)'[j1] = out[q]
      BY <1>4
    <3>6. \/ j2 \in Places(i2, r) /\ Data(i2)'[j2] = Data(i2)[j2]
          \/ /\ r = me /\ i2 = n
             /\ \E q \in 1..Len(out) : j2 = end + q /\ Data(i2)'[j2] = out[q]
      BY <1>4
    <3>. QED
      BY <3>1, <3>2, <3>3, <3>4, <3>5, <3>6
  <2>. QED
    BY <1>4, <2>1 DEF InOrder
<1>7. ASSUME NEW i \in 1..n, NEW j \in Places(i, me)'
      PROVE  Data(i)'[j].k <= o + Len(out)
  <2>1. CASE j \in Places(i, me) /\ Data(i)'[j] = Data(i)[j]
    <3>1. Data(i)[j].k <= o /\ Data(i)[j].k \in Nat
      BY <1>1, <1>4, <1>5, <2>1
    <3>. QED
      BY <1>1, <1>4, <2>1, <3>1
  <2>2. ASSUME NEW q \in 1..Len(out), Data(i)'[j] = out[q]
        PROVE  Data(i)'[j].k <= o + Len(out)
    BY <1>1, <1>3, <1>4, <2>2
  <2>. QED
    BY <1>4, <2>1, <2>2
<1>8. ASSUME NEW k \in 1..o + Len(out), NEW b, b = given[me][k] PROVE Survives(b)'
  <2>1. CASE k <= o
    <3>1. Survives(b)
      BY <1>1, <1>8, <2>1
    <3>. QED
      BY <1>2, <3>1, StillThere
  <2>2. CASE k > o
    <3>1. PICK q \in 1..Len(out) : k = o + q
      <4>1. k - o \in 1..Len(out) /\ k = o + (k - o)
        BY <1>1, <1>4, <2>2
      <4>. QED
        BY <4>1
    <3>2. out[q].k = k /\ Given(out[q]) /\ out[q].run = me
      BY <1>0, <1>3, <3>1 DEF Appends
    <3>3. out[q] = b /\ b.run = me
      BY <1>8, <3>2 DEF Given
    <3>4. end + q \in Places(n, b.run)' /\ Data(n)'[end + q] = b
      BY <1>4, <3>3
    <3>. QED
      BY <1>4, <3>4 DEF Survives
  <2>. QED
    BY <1>1, <1>4, <2>1, <2>2
<1>9. me = run' /\ Out' = o + Len(out) /\ given' = given
  BY <1>0
<1>10. Reached(me, o + Len(out))'
  <2>1. \A q \in 1..Len(buffered') : buffered'[q].k = o + Len(out) + q
    BY <1>9
  <2>2. \A k \in 1..o + Len(out) : Survives(given[me][k])'
    <3>. TAKE k \in 1..o + Len(out)
    <3>1. PICK b : b = given[me][k]
      OBVIOUS
    <3>2. Survives(b)'
      BY <1>8, <3>1
    <3>. QED
      BY <1>9, <3>1, <3>2 DEF Survives
  <2>. QED
    BY <1>1, <1>4, <1>7, <2>1, <2>2 DEF Reached
<1>11. Reached(run, Out)'
  BY <1>9, <1>10 DEF Reached
<1>. QED
  BY <1>6, <1>11 DEF Ordered, Reached

\* Nothing is written.
LEMMA OrderedKeeps ==
    ASSUME TInv, [Next]_vars, Ordered, KeepsPlaces, AddsNoPlace,
           pc' # "down" => /\ pc # "down" /\ run' = run /\ buffered' = buffered
                           /\ Pushed' = Pushed
    PROVE  Ordered'
<1>1. ASSUME NEW r \in 1..MaxStops + 1 PROVE InOrder(r)'
  BY <1>1, OrderStays DEF Ordered
<1>2. ASSUME pc' # "down" PROVE Reached(run, Out)'
  <2>1. PICK me, o : me = run /\ o = Out
    OBVIOUS
  <2>2. /\ pc # "down" /\ run' = me /\ buffered' = buffered /\ Out' = o
        /\ me \in 1..MaxStops + 1
    BY <1>2, <2>1, CountsFacts DEF Out
  <2>3. /\ o \in Nat /\ o <= Len(given[me])
        /\ \A q \in 1..Len(buffered) : buffered[q].k = o + q
        /\ \A i \in 1..Len(opened) : \A j \in Places(i, me) : Data(i)[j].k <= o
        /\ \A k \in 1..o : Survives(given[me][k])
    BY <2>1, <2>2, CountsFacts DEF Ordered
  <2>4. \A i \in 1..Len(opened') : \A j \in Places(i, me)' : Data(i)'[j].k <= o
    BY <2>3 DEF AddsNoPlace
  <2>5. \A k \in 1..o : Survives(given[me][k])'
    <3>. TAKE k \in 1..o
    <3>1. k \in 1..Len(given[me])
      BY <2>2, <2>3, GivenGrows
    <3>2. PICK b : b = given[me][k]
      OBVIOUS
    <3>3. given'[me][k] = b
      BY <2>2, <3>1, <3>2, GivenGrows
    <3>4. Survives(b)'
      BY <2>3, <3>2, StillThere
    <3>. QED
      BY <3>3, <3>4 DEF Survives
  <2>6. Reached(me, o)'
    BY <2>2, <2>3, <2>4, <2>5 DEF Reached
  <2>. QED
    BY <2>2, <2>6 DEF Reached
<1>. QED
  BY <1>1, <1>2 DEF Ordered, Reached

\* The buffered batches are the next of the run.
LEMMA BufferedNext ==
    ASSUME TInv, Ordered, pc # "down"
    PROVE  \A q \in 1..Len(buffered) : Given(buffered[q]) /\ buffered[q].k = Out + q
BY DEF TInv, Genuine, Ordered

\* Nothing is in the buffer afterwards.
LEMMA OrderedEmpties ==
    ASSUME TInv, Ordered, pc # "down", NEW s, Appends(buffered, s), buffered' = <<>>,
           UNCHANGED <<given, run>>, Pushed' = Pushed
    PROVE  Ordered'
<1>1. Out' = Out + Len(buffered)
  BY CountsFacts DEF Out
<1>2. (\A q \in 1..Len(buffered) : buffered[q].k = Out + q)'
  <2>1. 1..Len(buffered') = {}
    OBVIOUS
  <2>. QED
    BY <2>1
<1>. QED
  BY <1>1, <1>2, BufferedNext, OrderedAppends

LEMMA OrderedStays ==
    ASSUME TInv, [Next]_vars, Ordered, faults' = faults
    PROVE  Ordered'
<1>1. Control /\ Stream /\ Streams /\ Numbered /\ faults \in Nat
  <2>1. faults \in 0..MaxFaults /\ MaxFaults \in Nat
    BY SizesAssumption, TypeParts DEF TInv, Control
  <2>. QED
    BY <2>1, TypeParts DEF TInv
<1>2. CASE Idles
  <2>1. KeepsPlaces /\ AddsNoPlace
    BY <1>2, SamePlaces DEF Idles
  <2>2. /\ UNCHANGED <<run, buffered, given>> /\ (pc' # "down" => pc # "down")
        /\ (pc \in {"init", "write"} <=> pc' \in {"init", "write"})
    BY <1>2 DEF Idles, Untouched, Starting
  <2>3. Pushed' = Pushed
    BY <2>2 DEF Pushed
  <2>. QED
    BY <2>1, <2>2, <2>3, OrderedKeeps
<1>3. CASE \E name : OpensFile(name)
  <2>1. KeepsPlaces /\ AddsNoPlace
    BY <1>3, OpensPlaces
  <2>2. /\ UNCHANGED <<run, buffered, given>> /\ pc # "down"
        /\ (pc \in {"init", "write"} <=> pc' \in {"init", "write"})
    BY <1>3 DEF OpensFile, Untouched
  <2>3. Pushed' = Pushed
    BY <2>2 DEF Pushed
  <2>. QED
    BY <2>1, <2>2, <2>3, OrderedKeeps
<1>4. ASSUME NEW len \in Lens, Flush(len) PROVE Ordered'
  <2>1. /\ UNCHANGED <<run, buffered, files, opened>> /\ pc = "ready"
        /\ pc' \in {"init", "write"}
    BY <1>4 DEF Flush, counts
  <2>2. KeepsPlaces /\ AddsNoPlace
    BY <2>1, SamePlaces
  <2>3. Len(given'[run]) = Len(given[run]) + 1 /\ Len(given[run]) \in Nat
    <3>1. Handed
      BY TypeParts DEF TInv
    <3>. QED
      BY <1>1, <1>4, <3>1, Hands
  <2>4. Pushed' = Pushed
    <3>1. Pushed' = Len(given'[run]) - 1 /\ Pushed = Len(given[run])
      BY <2>1 DEF Pushed
    <3>. QED
      BY <2>3, <3>1
  <2>. QED
    BY <2>1, <2>2, <2>4, OrderedKeeps
<1>5. CASE Closes
  <2>1. UNCHANGED <<pc, run, given>> /\ pc = "init" /\ buffered' = <<>>
    BY <1>5 DEF Closes, counts, history
  <2>2. Pushed' = Pushed
    BY <2>1 DEF Pushed
  <2>. QED
    BY <1>5, <2>1, <2>2, ClosesEffect, OrderedEmpties
<1>6. CASE Writes
  <2>1. UNCHANGED <<run, given>> /\ pc = "write" /\ pc' = "flush" /\ pc \in Busy
    BY <1>6 DEF Writes, history, Busy
  <2>2. /\ Len(given[run]) \in Nat /\ Pushed = Len(given[run]) - 1
        /\ Pushed' = Pushed + 1 /\ Out = Pushed - Len(buffered) /\ Len(buffered) \in Nat
        /\ Pushed \in Int /\ Out \in Int /\ Pushed' \in Int
    <3>1. Pushed' = Len(given[run])
      BY <2>1 DEF Pushed
    <3>2. /\ Len(given[run]) \in Nat /\ Pushed = Len(given[run]) - 1
          /\ Out = Pushed - Len(buffered) /\ Len(buffered) \in Nat
          /\ Pushed \in Int /\ Out \in Int
      BY <2>1, CountsFacts
    <3>. QED
      BY <3>1, <3>2
  <2>3. ASSUME NEW q \in 1..Len(Filled) PROVE Given(Filled[q]) /\ Filled[q].k = Out + q
    <3>1. q \in 1..Len(buffered) \/ q = Len(buffered) + 1
      BY <2>1, FilledFacts
    <3>2. CASE q \in 1..Len(buffered)
      <4>1. Filled[q] = buffered[q]
        BY <2>1, <3>2, FilledFacts
      <4>. QED
        BY <2>1, <3>2, <4>1, BufferedNext
    <3>3. CASE q = Len(buffered) + 1
      <4>1. Filled[q] = batch /\ batch.k = Len(given[run]) /\ Given(Filled[q])
        BY <2>1, <3>3, FilledFacts
      <4>2. Len(given[run]) = Out + q
        <5>1. PICK l, o, b : l = Len(given[run]) /\ o = Out /\ b = Len(buffered)
          OBVIOUS
        <5>2. l \in Nat /\ b \in Nat /\ o \in Int /\ o = l - 1 - b /\ q = b + 1
          BY <2>2, <3>3, <5>1
        <5>3. o + q = l
          BY <5>2
        <5>. QED
          BY <5>1, <5>3
      <4>. QED
        BY <4>1, <4>2
    <3>. QED
      BY <3>1, <3>2, <3>3
  <2>4. ASSUME NEW k \in 0..Len(Filled), NEW out, NEW rest, Appends(out, files[fs_].synced),
               Len(out) = k, \A q \in 1..k : out[q] = Filled[q], buffered' = rest,
               rest \in Seq(Batch), Len(rest) = Len(Filled) - k,
               \A q \in 1..Len(Filled) - k : rest[q] = Filled[k + q]
        PROVE  Ordered'
    <3>1. Len(Filled) = Len(buffered) + 1 /\ k \in Nat /\ k <= Len(Filled)
      BY <2>1, <2>2, FilledFacts
    <3>2. /\ Out' = Out + Len(out) /\ Out' = Out + k /\ Len(out) = k
          /\ Len(rest) = Len(buffered) + 1 - k
      <4>1. Out' = Pushed' - Len(rest)
        BY <2>4 DEF Out
      <4>2. Len(rest) = Len(buffered) + 1 - k /\ Len(out) = k
        BY <2>4, <3>1
      <4>. QED
        BY <2>2, <3>1, <4>1, <4>2
    <3>3. \A q \in 1..Len(out) : Given(out[q]) /\ out[q].k = Out + q
      <4>. TAKE q \in 1..Len(out)
      <4>1. q \in 1..k /\ q \in 1..Len(Filled)
        BY <2>2, <2>4, <3>1
      <4>. QED
        BY <2>3, <2>4, <4>1
    <3>4. (\A q \in 1..Len(buffered) : buffered[q].k = Out + q)'
      <4>1. ASSUME NEW q \in 1..Len(rest) PROVE rest[q].k = Out' + q
        <5>1. /\ q \in 1..Len(Filled) - k /\ k + q \in 1..Len(Filled) /\ q \in Nat
          BY <2>2, <3>1, <3>2
        <5>2. rest[q].k = Out + (k + q)
          BY <2>3, <2>4, <5>1
        <5>3. PICK o : o = Out
          OBVIOUS
        <5>4. o \in Int /\ Out' = o + k /\ rest[q].k = o + (k + q)
          BY <2>2, <3>2, <5>2, <5>3
        <5>5. o + (k + q) = (o + k) + q
          BY <3>1, <5>1, <5>4
        <5>. QED
          BY <5>4, <5>5
      <4>. QED
        BY <2>4, <4>1
    <3>. QED
      BY <2>1, <2>4, <3>2, <3>3, <3>4, OrderedAppends
  <2>5. faults' # faults + 1
    BY <1>1
  <2>. QED
    BY <1>6, <2>4, <2>5, FwriteEffect
<1>7. CASE Flushes
  <2>1. UNCHANGED <<run, given>> /\ pc = "flush" /\ pc' = "ready"
    BY <1>7 DEF Flushes
  <2>2. Pushed' = Pushed
    BY <2>1 DEF Pushed
  <2>3. CASE UNCHANGED <<files, buffered, opened>>
    <3>1. KeepsPlaces /\ AddsNoPlace
      BY <2>3, SamePlaces
    <3>. QED
      BY <2>1, <2>2, <2>3, <3>1, OrderedKeeps
  <2>4. ASSUME NEW s \in Nat, Appends(buffered, s), buffered' = <<>>
        PROVE  Ordered'
    BY <2>1, <2>2, <2>4, OrderedEmpties
  <2>. QED
    BY <1>7, <2>3, <2>4, FlushesEffect
<1>8. CASE WritesToNull \/ Kill \/ PowerLoss
  <2>1. pc' = "down"
    BY <1>8, Zenon DEF WritesToNull, Kill, PowerLoss, Dies
  <2>2. AddsNoPlace
    <3>1. CASE PowerLoss
      BY <3>1, LosesPlaces
    <3>2. CASE WritesToNull \/ Kill
      BY <3>2, SamePlaces DEF WritesToNull, Kill, history
    <3>. QED
      BY <1>8, <3>1, <3>2
  <2>3. ASSUME NEW r \in 1..MaxStops + 1 PROVE InOrder(r)'
    BY <2>2, <2>3, OrderStays DEF Ordered
  <2>. QED
    BY <2>1, <2>3 DEF Ordered
<1>9. CASE Restart
  <2>1. /\ UNCHANGED <<files, opened, given, buffered>> /\ run' = run + 1 /\ pc = "down"
        /\ pc' = "construct" /\ run <= MaxStops
    BY <1>9 DEF Restart, history
  <2>2. PICK me : me = run + 1
    OBVIOUS
  <2>3. me \in 1..MaxStops + 1 /\ me > run
    BY <1>1, <2>1, <2>2, RunFacts, SizesAssumption
  <2>4. given'[me] = <<>> /\ buffered' = <<>>
    BY <1>1, <2>1, <2>3 DEF Numbered, Streams, Stream
  <2>5. Out' = 0
    <3>1. Pushed' = Len(given'[me])
      BY <2>1, <2>2 DEF Pushed
    <3>. QED
      BY <2>4, <3>1 DEF Out
  <2>6. \A i \in 1..Len(opened) : Places(i, me) = {}
    <3>1. \A i \in 1..Len(opened) : opened[i].run <= run /\ opened[i].run \in 1..MaxStops + 1
      BY <1>1, OpenedFacts DEF Streams
    <3>2. run \in Nat /\ MaxStops \in Nat
      BY <1>1, RunFacts, SizesAssumption
    <3>3. \A i \in 1..Len(opened) : opened[i].run # me
      BY <2>3, <3>1, <3>2
    <3>. QED
      BY <3>3 DEF Places
  <2>7. \A i \in 1..Len(opened') : Places(i, me)' = {}
    BY <2>1, <2>6 DEF Places, Data
  <2>8. Reached(me, 0)'
    <3>1. 1..Len(buffered') = {} /\ 1..0 = {}
      BY <2>4
    <3>. QED
      BY <2>7, <3>1 DEF Reached
  <2>9. Reached(run, Out)'
    BY <2>1, <2>2, <2>5, <2>8 DEF Reached
  <2>10. ASSUME NEW r \in 1..MaxStops + 1 PROVE InOrder(r)'
    BY <2>1, <2>10, SamePlaces, OrderStays DEF Ordered
  <2>. QED
    BY <2>9, <2>10 DEF Ordered, Reached
<1>. QED
  BY <1>1, <1>2, <1>3, <1>4, <1>5, <1>6, <1>7, <1>8, <1>9, StepCases

\* Only the run that is on its way has new batches in its files.
LEMMA WasThereBefore ==
    ASSUME TInv, [Next]_vars, NEW b, b.run # run \/ ~(Closes \/ Writes \/ Flushes)
    PROVE  Survives(b)' => Survives(b)
<1>1. CASE AddsNoPlace
  BY <1>1, WasThere
<1>2. PICK n, me : n = Len(opened) /\ me = run
  OBVIOUS
<1>3. ASSUME NEW out, NEW s, Appends(out, s), b.run # run
      PROVE  Survives(b)' => Survives(b)
  <2>1. AddsPlaces(n, me, out) /\ b.run # me
    BY <1>2, <1>3, AppendsPlaces
  <2>2. /\ Len(opened') = n /\ Len(opened) = n
        /\ \A i \in 1..n : \A j \in Places(i, b.run)' :
              j \in Places(i, b.run) /\ Data(i)'[j] = Data(i)[j]
    BY <2>1 DEF AddsPlaces
  <2>. QED
    BY <2>2 DEF Survives
<1>4. CASE b.run # run /\ Closes
  BY <1>3, <1>4, ClosesEffect
<1>5. CASE b.run # run /\ Writes
  BY <1>1, <1>3, <1>5, FwriteEffect, SamePlaces
<1>6. CASE b.run # run /\ Flushes
  BY <1>1, <1>3, <1>6, FlushesEffect, SamePlaces
<1>. QED
  BY <1>1, <1>4, <1>5, <1>6, PlacesStay

\* What survives of the run that is on its way has no holes.
Unbroken == \A k \in 1..Len(given[run]) : \A j \in 1..k :
                Survives(given[run][k]) => Survives(given[run][j])

LEMMA NoHoles == TInv /\ Ordered /\ pc # "down" => Unbroken
<1>. SUFFICES ASSUME TInv, Ordered, pc # "down", NEW k \in 1..Len(given[run]), NEW j \in 1..k,
                     Survives(given[run][k])
              PROVE  Survives(given[run][j])
  BY DEF Unbroken
<1>1. run \in 1..MaxStops + 1 /\ Len(given[run]) \in Nat /\ Numbered
  BY CountsFacts DEF TInv
<1>2. given[run][k].run = run /\ given[run][k].k = k
  BY <1>1 DEF Numbered
<1>3. k <= Out /\ Out \in Nat
  <2>1. PICK i \in 1..Len(opened) : \E p \in Places(i, run) : Data(i)[p] = given[run][k]
    BY <1>2 DEF Survives
  <2>. QED
    BY <1>2, <2>1 DEF Ordered
<1>4. j \in 1..Out
  BY <1>1, <1>3
<1>. QED
  BY <1>4 DEF Ordered

LEMMA SameGiven ==
    ASSUME TInv, [Next]_vars, NEW r \in 1..MaxStops + 1, r # run' \/ pc' = "down"
    PROVE  given'[r] = given[r]
<1>1. ASSUME NEW len \in Lens, Flush(len) PROVE given'[r] = given[r]
  <2>1. run' = run /\ pc' # "down"
    BY <1>1 DEF Flush, counts
  <2>2. Handed /\ Numbered /\ Control
    BY TypeParts DEF TInv
  <2>. QED
    BY <1>1, <2>1, <2>2, Hands
<1>2. Control
  BY TypeParts DEF TInv
<1>. QED
  BY <1>1, <1>2, GivenStays

LEMMA NoLoss == ASSUME TInv, [Next]_vars, losses' = 0 PROVE losses = 0 /\ ~PowerLoss
<1>1. losses \in Nat
  BY TypeParts DEF TInv, Control
<1>2. PowerLoss => losses' = losses + 1
  BY Zenon DEF PowerLoss
<1>3. losses' = losses \/ losses' = losses + 1
  <2>1. CASE Idles \/ (\E name : OpensFile(name)) \/ (\E len \in Lens : Flush(len))
    BY <2>1 DEF Idles, OpensFile, Untouched, Flush, counts
  <2>2. CASE Closes \/ Writes \/ Flushes \/ WritesToNull \/ Kill \/ Restart
    BY <2>2 DEF Closes, Writes, Flushes, WritesToNull, Kill, Restart, counts
  <2>3. CASE PowerLoss
    BY <1>2, <2>3
  <2>4. Control
    BY TypeParts DEF TInv
  <2>. QED
    BY <2>1, <2>2, <2>3, <2>4, StepCases
<1>. QED
  BY <1>1, <1>2, <1>3

LEMMA WholeStays ==
    ASSUME TInv, TInv', Ordered', Whole, [Next]_vars
    PROVE  Whole'
<1>. SUFFICES ASSUME losses' = 0, NEW r \in 1..MaxStops + 1,
                     NEW k \in 1..Len(given'[r]), NEW j \in 1..k,
                     Survives(given[r][k])'
              PROVE  Survives(given[r][j])'
  BY DEF Whole
<1>1. CASE r = run' /\ pc' # "down"
  <2>1. Unbroken'
    <3>1. (TInv /\ Ordered /\ pc # "down" => Unbroken)'
      BY NoHoles, PTL
    <3>. QED
      BY <1>1, <3>1
  <2>. QED
    BY <1>1, <2>1 DEF Unbroken, Survives
<1>2. CASE r # run' \/ pc' = "down"
  <2>1. losses = 0 /\ ~PowerLoss
    BY NoLoss
  <2>2. KeepsPlaces
    BY <2>1, PlacesStay
  <2>3. given'[r] = given[r] /\ k \in 1..Len(given[r]) /\ j \in 1..Len(given[r])
    <3>1. given'[r] = given[r] /\ Len(given[r]) \in Nat
      BY <1>2, SameGiven, GivenGrows
    <3>. QED
      BY <3>1
  <2>4. PICK b, c : b = given[r][k] /\ c = given[r][j]
    OBVIOUS
  <2>5. b.run = r
    BY <2>3, <2>4 DEF TInv, Numbered
  <2>6. r # run \/ ~(Closes \/ Writes \/ Flushes)
    <3>1. Closes \/ Writes \/ Flushes => run' = run /\ pc' # "down"
      BY DEF Closes, Writes, Flushes, counts
    <3>. QED
      BY <1>2, <3>1
  <2>7. Survives(b)'
    BY <2>3, <2>4 DEF Survives
  <2>8. Survives(b)
    BY <2>5, <2>6, <2>7, WasThereBefore
  <2>9. Survives(c)
    BY <2>1, <2>3, <2>4, <2>8 DEF Whole
  <2>10. Survives(c)'
    BY <2>2, <2>9, StillThere
  <2>. QED
    BY <2>3, <2>4, <2>10 DEF Survives
<1>. QED
  BY <1>1, <1>2

LEMMA PositionStays ==
    ASSUME TInv, [Next]_vars, flush_log # 0, Position, faults' = faults
    PROVE  Position'
<1>1. /\ Control /\ Stream /\ Handed /\ Streams /\ Numbered /\ run \in 1..MaxStops + 1
      /\ faults \in Nat
  <2>1. Control /\ Stream /\ Handed /\ Streams /\ Numbered
    BY TypeParts DEF TInv
  <2>2. faults \in 0..MaxFaults /\ MaxFaults \in Nat
    BY <2>1, SizesAssumption DEF Control
  <2>. QED
    BY <2>1, <2>2 DEF Control
<1>2. CASE Idles \/ \E name : OpensFile(name)
  <2>1. /\ UNCHANGED <<run, buffered, given, returned>>
        /\ \/ pc' = pc
           \/ pc' \in Starting
           \/ pc \in Starting /\ pc' = "ready"
           \/ pc = "init" /\ pc' = "write"
    BY <1>2 DEF Idles, OpensFile, Untouched, Starting
  <2>2. CASE pc' = pc \/ (pc = "init" /\ pc' = "write")
    BY <2>1, <2>2 DEF Position, Busy
  <2>3. CASE pc' \in Starting
    BY <2>3 DEF Position, Busy, Starting
  <2>4. CASE pc \in Starting /\ pc' = "ready"
    <3>1. buffered = <<>>
      BY <1>1, <2>4 DEF Streams, Stream
    <3>2. given[run] = <<>> /\ returned[run] = 0
      BY <1>1, <2>4 DEF Numbered
    <3>. QED
      BY <2>1, <2>4, <3>1, <3>2 DEF Position, Busy
  <2>. QED
    BY <2>1, <2>2, <2>3, <2>4
<1>3. ASSUME NEW len \in Lens, Flush(len) PROVE Position'
  <2>1. UNCHANGED <<run, buffered, returned>> /\ pc = "ready" /\ pc' \in {"init", "write"}
    BY <1>3 DEF Flush, counts
  <2>2. Len(given[run]) \in Nat /\ Len(given'[run]) = Len(given[run]) + 1
    BY <1>1, <1>3, Hands
  <2>3. buffered = <<>> /\ returned[run] = Len(given[run])
    BY <2>1 DEF Position
  <2>4. Len(given[run]) = Len(given'[run]) - 1
    BY <2>2
  <2>. QED
    BY <2>1, <2>3, <2>4 DEF Position
<1>4. CASE Closes
  <2>1. UNCHANGED <<pc, run, given, returned>> /\ buffered' = <<>>
    BY <1>4 DEF Closes, counts, history
  <2>. QED
    BY <2>1 DEF Position
<1>5. CASE Writes
  <2>1. UNCHANGED <<run, given, returned>> /\ pc = "write" /\ pc' = "flush"
    BY <1>5 DEF Writes, history
  <2>. QED
    BY <2>1 DEF Position, Busy
<1>6. CASE Flushes
  <2>1. /\ UNCHANGED <<run, given>> /\ pc' = "ready"
        /\ returned' = [returned EXCEPT ![run] = Len(given[run])]
    BY <1>6 DEF Flushes
  <2>2. returned'[run] = Len(given[run])
    BY <1>1, <2>1 DEF Handed
  <2>3. buffered' = <<>>
    <3>1. faults' # faults + 1
      BY <1>1
    <3>. QED
      BY <1>6, <3>1, FlushesEffect
  <2>. QED
    BY <2>1, <2>2, <2>3 DEF Position, Busy
<1>7. CASE WritesToNull \/ Kill \/ PowerLoss \/ Restart
  <2>1. pc' \in {"down", "construct"}
    BY <1>7, Zenon DEF WritesToNull, Kill, PowerLoss, Restart, Dies
  <2>. QED
    BY <2>1 DEF Position, Busy
<1>. QED
  BY <1>1, <1>2, <1>3, <1>4, <1>5, <1>6, <1>7, StepCases

LEMMA InLastStays ==
    ASSUME TInv, [Next]_vars, Ordered, InLast, faults' = faults
    PROVE  InLast'
<1>1. Control /\ faults \in Nat
  <2>1. Control
    BY TypeParts DEF TInv
  <2>2. faults \in 0..MaxFaults /\ MaxFaults \in Nat
    BY <2>1, SizesAssumption DEF Control
  <2>. QED
    BY <2>1, <2>2
<1>2. CASE pc' # "flush"
  BY <1>2 DEF InLast
<1>3. CASE Writes
  <2>1. PICK n, me, g : n = Len(opened) /\ me = run /\ g = Len(given[run])
    OBVIOUS
  <2>2. /\ UNCHANGED <<run, given>> /\ pc = "write" /\ pc' = "flush"
        /\ Len(given'[run']) = g /\ run' = me
    BY <1>3, <2>1 DEF Writes, history
  <2>3. \A i \in 1..Len(opened) : \A j \in Places(i, me) : Data(i)[j].k # g
    <3>1. Out \in Int /\ Out <= g - 1 /\ g \in Nat
      <4>1. PICK p, b, o : p = Pushed /\ b = Len(buffered) /\ o = Out
        OBVIOUS
      <4>2. b \in Nat /\ g \in Nat /\ p = g - 1 /\ o = p - b
        BY <2>1, <2>2, <4>1, CountsFacts
      <4>. QED
        BY <4>1, <4>2
    <3>2. \A i \in 1..Len(opened) : \A j \in Places(i, me) : Data(i)[j].k <= Out
      BY <2>1, <2>2 DEF Ordered
    <3>3. \A i \in 1..Len(opened) : \A j \in Places(i, me) : Data(i)[j].k \in Nat
      BY PlaceFacts, BatchFacts
    <3>. QED
      BY <3>1, <3>2, <3>3
  <2>4. ASSUME NEW out, NEW s, Appends(out, s)
        PROVE  InLast'
    <3>1. AddsPlaces(n, me, out)
      BY <2>1, <2>4, AppendsPlaces
    <3>2. /\ Len(opened') = n /\ Len(opened) = n
          /\ \A i \in 1..n : \A j \in Places(i, me)' :
               (j \in Places(i, me) /\ Data(i)'[j] = Data(i)[j]) \/ i = n
      BY <3>1 DEF AddsPlaces
    <3>3. \A i \in 1..Len(opened') : \A j \in Places(i, me)' :
              Data(i)'[j].k = g => i = Len(opened')
      BY <2>3, <3>2
    <3>. QED
      BY <2>2, <3>3 DEF InLast, Places
  <2>5. faults' # faults + 1
    BY <1>1
  <2>. QED
    BY <1>3, <2>4, <2>5, FwriteEffect
<1>4. CASE Idles /\ pc' = "flush"
  <2>1. UNCHANGED <<pc, run, given, files, opened>>
    BY <1>4 DEF Idles, Untouched, Starting
  <2>. QED
    BY <2>1 DEF InLast, Places, Data
<1>5. Idles \/ Writes \/ pc' # "flush"
  <2>1. CASE (\E name : OpensFile(name)) \/ (\E len \in Lens : Flush(len)) \/ Closes \/ Flushes
             \/ Restart
    BY <2>1 DEF OpensFile, Flush, Closes, Flushes, Restart
  <2>2. CASE WritesToNull \/ Kill \/ PowerLoss
    BY <2>2, Zenon DEF WritesToNull, Kill, PowerLoss, Dies
  <2>. QED
    BY <1>1, <2>1, <2>2, StepCases
<1>. QED
  BY <1>2, <1>3, <1>4, <1>5

LEMMA ConfigStays == ASSUME [Next]_vars PROVE kind' = kind /\ flush_log' = flush_log
<1>1. CASE UNCHANGED vars
  BY <1>1 DEF vars, config
<1>2. CASE Next
  BY <1>2 DEF Next, Constructor, CreateDirectory, MakesDirectory, DirectoryMade,
        ConstructorOpens, Flush, KeepsFile, Closes, FirstFile, Writes, Flushes,
        WritesToNull, Kill, PowerLoss, Restart, Tick, config
<1>. QED
  BY <1>1, <1>2

\* What was forced to the disk stays there.
LEMMA StillSynced ==
    ASSUME TInv, [Next]_vars, NEW b, Synced(b)
    PROVE  Synced(b)'
<1>1. CASE KeepsPlaces
  BY <1>1, StillThere
<1>2. CASE PowerLoss
  BY <1>2, LosesPlaces DEF Synced
<1>. QED
  BY <1>1, <1>2, PlacesStay

LEMMA SafeStays ==
    ASSUME TInv, [Next]_vars, NEW r \in 1..MaxStops + 1, NEW k, Safe(r, k)
    PROVE  Safe(r, k)'
<1>1. k \in 1..Len(given[r])
  BY DEF Safe
<1>2. k \in 1..Len(given'[r]) /\ given'[r][k] = given[r][k]
  BY <1>1, GivenGrows
<1>3. PICK b : b = given[r][k]
  OBVIOUS
<1>4. ASSUME losses' = 0 PROVE Survives(b)'
  <2>1. losses = 0 /\ KeepsPlaces
    BY <1>4, NoLoss, PlacesStay
  <2>. QED
    BY <1>3, <2>1, StillThere DEF Safe
<1>5. ASSUME flush_log' = 2 PROVE Synced(b)'
  BY <1>3, <1>5, ConfigStays, StillSynced DEF Safe
<1>. QED
  BY <1>2, <1>3, <1>4, <1>5 DEF Safe, Survives, Synced

\* When Flush returns, its batch is where flush_log says.
LEMMA FlushedIsSafe ==
    ASSUME TInv, Ordered, Ordered', InLast, flush_log # 0, Flushes, faults' = faults
    PROVE  Safe(run, Len(given[run]))'
<1>1. /\ Control /\ Stream /\ Numbered /\ faults \in Nat /\ run \in 1..MaxStops + 1
      /\ pc = "flush" /\ pc' = "ready" /\ UNCHANGED <<run, given>>
  <2>1. Control /\ Stream
    BY TypeParts DEF TInv
  <2>2. faults \in 0..MaxFaults /\ MaxFaults \in Nat
    BY <2>1, SizesAssumption DEF Control
  <2>. QED
    BY <2>1, <2>2 DEF TInv, Control, Flushes
<1>2. PICK n, me, g, b : /\ n = Len(opened) /\ me = run /\ g = Len(given[run])
                         /\ b = given[run][Len(given[run])]
  OBVIOUS
<1>3. g \in 1..g /\ g \in Nat /\ b.run = me /\ b.k = g
  <2>1. g \in Nat /\ g # 0
    BY <1>1, <1>2, CountsFacts DEF Numbered, Busy
  <2>2. g \in 1..g
    BY <2>1
  <2>. QED
    BY <1>1, <1>2, <2>1, <2>2 DEF Numbered
<1>4. faults' # faults + 1
  BY <1>1
<1>5. PICK s \in Nat : /\ buffered' = <<>> /\ Appends(buffered, s)
                       /\ flush_log = 2 => s = Len(files[fs_].data) + Len(buffered)
  BY <1>4, FlushesEffect
<1>6. /\ AddsPlaces(n, me, buffered) /\ files'[fs_].synced = s
      /\ opened[n].name = fs_ /\ opened' = opened
  <2>1. files'[fs_].synced = s
    BY <1>1, <1>5, AppendsFacts
  <2>2. opened[n].name = fs_
    BY <1>2, <1>5 DEF TInv, Streams, Appends
  <2>. QED
    BY <1>2, <1>5, <2>1, <2>2, AppendsPlaces DEF Appends
<1>7. Survives(b)'
  <2>1. Out' = g
    <3>1. Pushed' = g
      BY <1>1, <1>2 DEF Pushed
    <3>2. Len(buffered') = 0
      BY <1>5
    <3>. QED
      BY <1>3, <3>1, <3>2 DEF Out
  <2>2. \A k \in 1..g : Survives(given[me][k])'
    BY <1>1, <1>2, <2>1 DEF Ordered, Survives
  <2>. QED
    BY <1>1, <1>2, <1>3, <2>2 DEF Survives
<1>8. ASSUME flush_log = 2 PROVE Synced(b)'
  <2>1. PICK i \in 1..Len(opened') : \E j \in Places(i, me)' : Data(i)'[j] = b
    BY <1>3, <1>7 DEF Survives
  <2>2. PICK j \in Places(i, me)' : Data(i)'[j] = b
    BY <2>1
  <2>. DEFINE end == Len(Data(n))
  <2>3. /\ Len(opened) = n /\ n \in 1..n /\ end \in Nat /\ Len(buffered) \in Nat
        /\ Len(Data(n)') = end + Len(buffered) /\ Len(opened') = n
        /\ \A i_1 \in 1..n : \A j_1 \in Places(i_1, me)' :
             \/ j_1 \in Places(i_1, me) /\ Data(i_1)'[j_1] = Data(i_1)[j_1]
             \/ i_1 = n
    BY <1>6 DEF AddsPlaces
  <2>4. Data(n) = files[fs_].data
    BY <1>6 DEF Data
  <2>5. i = n
    <3>1. CASE j \in Places(i, me) /\ Data(i)'[j] = Data(i)[j]
      <4>1. i \in 1..Len(opened) /\ Data(i)[j].k = Len(given[run])
        BY <1>2, <1>3, <2>2, <2>3, <3>1
      <4>. QED
        BY <1>1, <1>2, <2>3, <3>1, <4>1 DEF InLast
    <3>. QED
      BY <2>2, <2>3, <3>1
  <2>6. j \in 1..Len(Data(n)')
    BY <2>2, <2>5 DEF Places
  <2>7. files'[opened'[i].name].synced = end + Len(buffered)
    BY <1>5, <1>6, <1>8, <2>4, <2>5
  <2>8. j <= files'[opened'[i].name].synced
    BY <2>3, <2>6, <2>7
  <2>. QED
    BY <1>3, <2>2, <2>8 DEF Synced
<1>9. flush_log' = flush_log
  BY DEF Flushes, config
<1>10. given'[run'] = given[run] /\ Len(given'[run']) = g /\ given'[run'][g] = b
  BY <1>1, <1>2
<1>11. Safe(me, g)'
  <2>1. given'[me][g] = b /\ Len(given'[me]) = g
    BY <1>1, <1>2
  <2>. QED
    BY <1>3, <1>7, <1>8, <1>9, <2>1 DEF Safe, Survives, Synced
<1>. QED
  BY <1>1, <1>2, <1>11 DEF Safe, Survives, Synced

LEMMA ReturnedStays ==
    ASSUME TInv, [Next]_vars, Ordered, Ordered', Returned, faults' = faults
    PROVE  Returned'
<1>. SUFFICES ASSUME flush_log' # 0
              PROVE  /\ Position' /\ InLast'
                     /\ \A r \in 1..MaxStops + 1 : \A k \in 1..returned'[r] : Safe(r, k)'
  BY DEF Returned
<1>1. /\ flush_log # 0 /\ Position /\ InLast
      /\ \A r \in 1..MaxStops + 1 : \A k \in 1..returned[r] : Safe(r, k)
  BY ConfigStays DEF Returned
<1>2. Position' /\ InLast'
  BY <1>1, PositionStays, InLastStays
<1>3. Control /\ Handed
  BY TypeParts DEF TInv
<1>4. ASSUME NEW r \in 1..MaxStops + 1, NEW k \in 1..returned'[r] PROVE Safe(r, k)'
  <2>1. CASE k \in 1..returned[r]
    BY <1>1, <2>1, SafeStays
  <2>2. CASE Flushes /\ r = run
    <3>1. /\ returned'[run] = Len(given[run]) /\ returned[run] = Len(given[run]) - 1
          /\ Len(given[run]) \in Nat /\ UNCHANGED <<run, given>>
      <4>1. /\ returned' = [returned EXCEPT ![run] = Len(given[run])] /\ pc = "flush"
            /\ UNCHANGED <<run, given>>
        BY <2>2 DEF Flushes
      <4>. QED
        BY <1>1, <1>3, <2>2, <4>1, CountsFacts DEF Handed, Position, Busy
    <3>2. k \in 1..returned[r] \/ k = Len(given[run])
      BY <2>2, <3>1
    <3>3. CASE k = Len(given[run])
      <4>1. Safe(run, Len(given[run]))'
        BY <1>1, <2>2, FlushedIsSafe
      <4>. QED
        BY <2>2, <3>1, <3>3, <4>1 DEF Safe, Survives, Synced
    <3>. QED
      BY <2>1, <3>2, <3>3
  <2>3. CASE ~(Flushes /\ r = run)
    <3>1. returned'[r] = returned[r]
      <4>1. CASE Flushes
        BY <1>3, <2>3, <4>1 DEF Flushes, Handed
      <4>2. CASE Idles \/ (\E name : OpensFile(name)) \/ (\E len \in Lens : Flush(len))
        BY <4>2 DEF Idles, OpensFile, Untouched, Flush
      <4>3. CASE Closes \/ Writes \/ Restart
        BY <4>3 DEF Closes, Writes, Restart, history
      <4>4. CASE WritesToNull \/ Kill \/ PowerLoss
        BY <4>4, Zenon DEF WritesToNull, Kill, PowerLoss, history
      <4>. QED
        BY <1>3, <4>1, <4>2, <4>3, <4>4, StepCases
    <3>. QED
      BY <2>1, <3>1
  <2>. QED
    BY <2>2, <2>3
<1>. QED
  BY <1>2, <1>4

LEMMA FaultsStay ==
    ASSUME TInv, [Next]_vars, faults' = 0
    PROVE  faults' = faults
<1>1. Control /\ faults \in Nat
  <2>1. Control
    BY TypeParts DEF TInv
  <2>2. faults \in 0..MaxFaults /\ MaxFaults \in Nat
    BY <2>1, SizesAssumption DEF Control
  <2>. QED
    BY <2>1, <2>2
<1>2. faults' = faults \/ faults' = faults + 1
  <2>1. CASE Idles \/ (\E name : OpensFile(name)) \/ (\E len \in Lens : Flush(len))
    BY <2>1 DEF Idles, OpensFile, Flush, counts
  <2>2. CASE Writes
    BY <2>2, FwriteEffect
  <2>3. CASE Flushes
    BY <2>3, FlushesEffect
  <2>4. CASE Closes \/ WritesToNull \/ Kill \/ PowerLoss \/ Restart
    BY <2>4, Zenon DEF Closes, WritesToNull, Kill, PowerLoss, Restart, counts
  <2>. QED
    BY <1>1, <2>1, <2>2, <2>3, <2>4, StepCases
<1>. QED
  BY <1>1, <1>2

LEMMA Initially == Init => IInv
<1>. SUFFICES ASSUME Init PROVE IInv
  OBVIOUS
<1>1. TInv
  BY InitTyped
<1>2. opened = <<>> /\ Len(opened) = 0 /\ buffered = <<>> /\ Len(buffered) = 0 /\ pc = "construct"
  BY DEF Init
<1>3. /\ run \in 1..MaxStops + 1 /\ \A r \in 1..MaxStops + 1 : given[r] = <<>> /\ returned[r] = 0
  BY SizesAssumption DEF Init
<1>4. \A r \in 1..MaxStops + 1 : 1..Len(given[r]) = {} /\ 1..returned[r] = {}
  BY <1>3
<1>5. Out = 0
  BY <1>2, <1>3 DEF Out, Pushed
<1>6. Ordered
  <2>1. \A r \in 1..MaxStops + 1 : InOrder(r)
    BY <1>2 DEF InOrder
  <2>2. Reached(run, 0)
    BY <1>2 DEF Reached
  <2>. QED
    BY <1>5, <2>1, <2>2, OrderedParts
<1>7. Whole
  BY <1>4 DEF Whole
<1>8. Returned
  BY <1>2, <1>4 DEF Returned, Position, InLast, Busy
<1>. QED
  BY <1>1, <1>6, <1>7, <1>8 DEF IInv

LEMMA Stays == ASSUME IInv, [Next]_vars PROVE IInv'
<1>1. TInv /\ TInv'
  BY TypedStays DEF IInv
<1>2. ASSUME faults' = 0 PROVE Ordered' /\ Whole' /\ Returned'
  <2>1. faults' = faults /\ Ordered /\ Whole /\ Returned
    BY <1>1, <1>2, FaultsStay DEF IInv
  <2>2. Ordered'
    BY <1>1, <2>1, OrderedStays
  <2>. QED
    BY <1>1, <2>1, <2>2, WholeStays, ReturnedStays
<1>. QED
  BY <1>1, <1>2 DEF IInv

\* The batches of a run leave its buffer in the order in which they were given;
\* what the files hold of it are the first of them; and those for which Flush has
\* returned are where flush_log says.
LEMMA Invariant == Spec => []IInv
<1>1. IInv /\ [Next]_vars => IInv'
  BY Stays
<1>. QED
  BY Initially, <1>1, PTL DEF Spec

\* Without power losses and failing calls, what any run leaves behind in the files
\* that it rolled through is a beginning of what it was given, in order, nothing
\* doubled or missing in between, wherever it was killed and whatever flush_log
\* says: FileFlush and RollFileFlush (LogFlush.hpp).
THEOREM PrefixSurvivesHolds == Spec => []PrefixSurvives
<1>1. ASSUME IInv, losses = 0, faults = 0, NEW r \in 1..run
      PROVE  /\ InOrder(r)
             /\ \A i \in 1..Len(opened) : \A j \in Places(i, r) :
                   \E k \in 1..Len(given[r]) : Data(i)[j] = given[r][k]
             /\ \A k \in 1..Len(given[r]) : \A j \in 1..k :
                   Survives(given[r][k]) => Survives(given[r][j])
  <2>1. TInv /\ Ordered /\ Whole
    BY <1>1 DEF IInv
  <2>2. r \in 1..MaxStops + 1
    <3>1. Control /\ MaxStops \in Nat
      BY <2>1, TypeParts, SizesAssumption DEF TInv
    <3>. QED
      BY <3>1 DEF Control
  <2>3. \A i \in 1..Len(opened) : \A j \in Places(i, r) :
            \E k \in 1..Len(given[r]) : Data(i)[j] = given[r][k]
    BY <2>1, PlaceFacts
  <2>. QED
    BY <1>1, <2>1, <2>2, <2>3 DEF Ordered, Whole
<1>2. IInv => PrefixSurvives
  BY <1>1 DEF PrefixSurvives
<1>. QED
  BY Invariant, <1>2, PTL

\* A batch for which Flush has returned is in the files of its run, in its order,
\* after a kill with flush_log 1, and after a power loss as well with flush_log 2
\* (LogFlush.hpp:31-34), unless a call failed.
THEOREM ReturnedSurvivesHolds == Spec => []ReturnedSurvives
<1>1. ASSUME IInv, faults = 0, flush_log = 2 \/ (flush_log = 1 /\ losses = 0),
             NEW r \in 1..run
      PROVE  InOrder(r) /\ \A k \in 1..returned[r] : Survives(given[r][k])
  <2>1. TInv /\ Ordered /\ Returned /\ flush_log # 0
    BY <1>1 DEF IInv
  <2>2. r \in 1..MaxStops + 1
    <3>1. Control /\ MaxStops \in Nat
      BY <2>1, TypeParts, SizesAssumption DEF TInv
    <3>. QED
      BY <3>1 DEF Control
  <2>3. ASSUME NEW k \in 1..returned[r] PROVE Survives(given[r][k])
    <3>1. Safe(r, k)
      BY <2>1, <2>2 DEF Returned
    <3>. QED
      BY <1>1, <3>1, SyncedSurvives DEF Safe
  <2>. QED
    BY <2>1, <2>2, <2>3 DEF Ordered
<1>2. IInv => ReturnedSurvives
  BY <1>1 DEF ReturnedSurvives
<1>. QED
  BY Invariant, <1>2, PTL

=============================================================================
