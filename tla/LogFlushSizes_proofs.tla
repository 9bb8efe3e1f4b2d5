------------------------- MODULE LogFlushSizes_proofs -------------------------
(***************************************************************************)
(* Proofs about the sizes of the files in LogFlush: how long a sequence of *)
(* batches is, and that files are rolled by size.                          *)
(*                                                                         *)
(* Size is a recursive function.  What it computes is proved from the      *)
(* least counterexample (Least), since a theorem about induction would     *)
(* have to be given an operator.                                           *)
(***************************************************************************)
EXTENDS LogFlush_proofs, FiniteSetTheorems, WellFoundedInduction

-----------------------------------------------------------------------------
(* Sums over sequences *)

\* A set of natural numbers that is not empty has a least element.
LEMMA Least ==
    ASSUME NEW T, T \subseteq Nat, T # {}
    PROVE  \E x \in T : \A y \in T : ~(y < x)
<1>1. IsWellFoundedOn(OpToRel(<,Nat), Nat)
  BY NatLessThanWellFounded
<1>2. \E x \in T : \A y \in T : ~(<<y, x>> \in OpToRel(<,Nat))
  BY <1>1, WFMin
<1>. QED
  BY <1>2 DEF OpToRel

\* f adds the shares of the first n batches.
Adds(f, s, R, n) ==
    /\ f[0] = 0
    /\ \A k \in 1..n : f[k] = f[k - 1] + Share(s[k], R)

Lengths(s) == \A k \in 1..Len(s) : s[k].len \in Nat

\* The least n without such a function would have one: its predecessor's goes on.
LEMMA SumExists ==
    ASSUME NEW s, Len(s) \in Nat, Lengths(s), NEW R, NEW n \in 0..Len(s)
    PROVE  \E f \in [0..n -> Nat] : Adds(f, s, R, n)
<1>. DEFINE T == {m \in 0..Len(s) : ~ \E f \in [0..m -> Nat] : Adds(f, s, R, m)}
<1>1. SUFFICES ASSUME T # {}
               PROVE  FALSE
  OBVIOUS
<1>2. PICK m \in T : \A y \in T : ~(y < m)
  <2>1. T \subseteq Nat
    OBVIOUS
  <2>. HIDE DEF T
  <2>. QED
    BY <1>1, <2>1, Least
<1>3. CASE m = 0
  <2>. DEFINE g == [k \in 0..0 |-> 0]
  <2>1. g \in [0..m -> Nat] /\ Adds(g, s, R, m)
    BY <1>3 DEF Adds
  <2>. QED
    BY <2>1
<1>4. CASE m # 0
  <2>1. m - 1 \in 0..Len(s) /\ m - 1 < m /\ m \in 1..Len(s)
    BY <1>4
  <2>2. PICK f \in [0..m - 1 -> Nat] : Adds(f, s, R, m - 1)
    BY <1>2, <2>1
  <2>3. Share(s[m], R) \in Nat
    BY <2>1 DEF Share, Lengths
  <2>. DEFINE g == [k \in 0..m |-> IF k = m THEN f[m - 1] + Share(s[m], R) ELSE f[k]]
  <2>4. g \in [0..m -> Nat]
    BY <2>1, <2>3
  <2>5. Adds(g, s, R, m)
    <3>1. g[0] = 0
      BY <1>4, <2>2 DEF Adds
    <3>2. ASSUME NEW k \in 1..m
          PROVE  g[k] = g[k - 1] + Share(s[k], R)
      BY <2>1, <2>2, <3>2 DEF Adds
    <3>. QED
      BY <3>1, <3>2 DEF Adds
  <2>. QED
    BY <2>4, <2>5
<1>. QED
  BY <1>3, <1>4

\* Two such functions cannot differ first at any n.
LEMMA SumsAgree ==
    ASSUME NEW s, NEW t, NEW R, NEW n \in Nat, NEW f, NEW g,
           Adds(f, s, R, n), Adds(g, t, R, n), \A k \in 1..n : s[k] = t[k]
    PROVE  \A k \in 0..n : f[k] = g[k]
<1>. DEFINE T == {m \in 0..n : f[m] # g[m]}
<1>1. SUFFICES ASSUME T # {}
               PROVE  FALSE
  OBVIOUS
<1>2. PICK m \in T : \A y \in T : ~(y < m)
  <2>1. T \subseteq Nat
    OBVIOUS
  <2>. HIDE DEF T
  <2>. QED
    BY <1>1, <2>1, Least
<1>3. m # 0
  BY DEF Adds
<1>4. m \in 1..n /\ m - 1 \in 0..n /\ m - 1 < m
  BY <1>3
<1>5. f[m - 1] = g[m - 1]
  BY <1>2, <1>4
<1>. QED
  BY <1>4, <1>5 DEF Adds

\* Size is what such a function ends with.
LEMMA SizeFacts ==
    ASSUME NEW s, Len(s) \in Nat, Lengths(s), NEW R
    PROVE  \E f \in [0..Len(s) -> Nat] : Adds(f, s, R, Len(s)) /\ Size(s, R) = f[Len(s)]
<1>. DEFINE Sum(h) == h = [n \in 0..Len(s) |->
                             IF n = 0 THEN 0 ELSE h[n - 1] + Share(s[n], R)]
            size == CHOOSE h : Sum(h)
<1>0. Len(s) \in 0..Len(s)
  OBVIOUS
<1>1. PICK f \in [0..Len(s) -> Nat] : Adds(f, s, R, Len(s))
  <2>. HIDE DEF Sum, size
  <2>. QED
    BY <1>0, SumExists
<1>2. Sum(f)
  BY <1>1 DEF Adds
<1>3. Sum(size)
  BY <1>2
<1>4. Adds(size, s, R, Len(s))
  <2>1. ASSUME NEW h, Sum(h), NEW k \in 0..Len(s)
        PROVE  h[k] = IF k = 0 THEN 0 ELSE h[k - 1] + Share(s[k], R)
    BY <2>1
  <2>2. \A k \in 0..Len(s) :
           size[k] = IF k = 0 THEN 0 ELSE size[k - 1] + Share(s[k], R)
    <3>. HIDE DEF size, Sum
    <3>. QED
      BY <1>3, <2>1
  <2>. HIDE DEF size, Sum
  <2>. QED
    BY <2>2 DEF Adds
<1>5. \A k \in 0..Len(s) : size[k] = f[k]
  <2>. HIDE DEF size, Sum
  <2>. QED
    BY <1>1, <1>4, SumsAgree
<1>6. Size(s, R) = size[Len(s)]
  BY DEF Size
<1>. QED
  BY <1>1, <1>5, <1>6

LEMMA BatchLengths ==
    ASSUME NEW s \in Seq(Batch)
    PROVE  Len(s) \in Nat /\ Lengths(s) /\ \A R : \A k \in 1..Len(s) : Share(s[k], R) \in Nat
<1>1. Len(s) \in Nat /\ \A k \in 1..Len(s) : s[k] \in Batch
  BY LenProperties, ElementOfSeq
<1>2. \A k \in 1..Len(s) : s[k].len \in Nat
  BY <1>1, BatchFacts
<1>. QED
  BY <1>1, <1>2 DEF Lengths, Share

LEMMA SizeIsNatural ==
    ASSUME NEW s \in Seq(Batch), NEW R
    PROVE  Size(s, R) \in Nat
<1>1. Len(s) \in Nat /\ Lengths(s)
  BY BatchLengths
<1>2. PICK f \in [0..Len(s) -> Nat] : Size(s, R) = f[Len(s)]
  BY <1>1, SizeFacts
<1>. QED
  BY <1>1, <1>2

LEMMA SizeOfEmpty == \A R : Size(<<>>, R) = 0
<1>. SUFFICES ASSUME NEW R
              PROVE  Size(<<>>, R) = 0
  OBVIOUS
<1>1. <<>> \in Seq(Batch) /\ Len(<<>>) = 0
  BY EmptySeq
<1>2. Len(<<>>) \in Nat /\ Lengths(<<>>)
  BY <1>1, BatchLengths
<1>3. PICK f : Adds(f, <<>>, R, Len(<<>>)) /\ Size(<<>>, R) = f[Len(<<>>)]
  BY <1>2, SizeFacts
<1>. QED
  BY <1>1, <1>3 DEF Adds

\* A sequence that goes on another one by a batch.
LEMMA SizeOfMore ==
    ASSUME NEW s \in Seq(Batch), NEW t \in Seq(Batch), NEW R,
           Len(t) = Len(s) + 1, \A k \in 1..Len(s) : t[k] = s[k]
    PROVE  Size(t, R) = Size(s, R) + Share(t[Len(t)], R)
<1>1. Len(s) \in Nat /\ Len(t) \in Nat /\ Lengths(s) /\ Lengths(t)
  BY BatchLengths
<1>2. PICK f : Adds(f, s, R, Len(s)) /\ Size(s, R) = f[Len(s)]
  BY <1>1, SizeFacts
<1>3. PICK g : Adds(g, t, R, Len(t)) /\ Size(t, R) = g[Len(t)]
  BY <1>1, SizeFacts
<1>4. Adds(g, t, R, Len(s)) /\ g[Len(t)] = g[Len(s)] + Share(t[Len(t)], R)
  BY <1>1, <1>3 DEF Adds
<1>5. f[Len(s)] = g[Len(s)]
  <2>. \A k \in 1..Len(s) : s[k] = t[k]
    OBVIOUS
  <2>1. \A k \in 0..Len(s) : f[k] = g[k]
    BY <1>1, <1>2, <1>4, SumsAgree
  <2>2. Len(s) \in 0..Len(s)
    BY <1>1
  <2>. QED
    BY <2>1, <2>2
<1>. QED
  BY <1>2, <1>3, <1>4, <1>5

\* A sequence that goes on another one is not shorter.
LEMMA SizeGrows ==
    ASSUME NEW s \in Seq(Batch), NEW t \in Seq(Batch), NEW R,
           Len(s) <= Len(t), \A k \in 1..Len(s) : t[k] = s[k]
    PROVE  Size(s, R) <= Size(t, R)
<1>1. Len(s) \in Nat /\ Len(t) \in Nat /\ Lengths(s) /\ Lengths(t)
  BY BatchLengths
<1>2. PICK f : Adds(f, s, R, Len(s)) /\ Size(s, R) = f[Len(s)]
  BY <1>1, SizeFacts
<1>3. PICK g \in [0..Len(t) -> Nat] : Adds(g, t, R, Len(t)) /\ Size(t, R) = g[Len(t)]
  BY <1>1, SizeFacts
<1>4. f[Len(s)] = g[Len(s)]
  <2>. \A k \in 1..Len(s) : s[k] = t[k]
    OBVIOUS
  <2>1. Adds(g, t, R, Len(s))
    BY <1>1, <1>3 DEF Adds
  <2>2. \A k \in 0..Len(s) : f[k] = g[k]
    BY <1>1, <1>2, <2>1, SumsAgree
  <2>. QED
    BY <1>1, <2>2
<1>5. g[Len(s)] <= g[Len(t)]
  <2>. DEFINE T == {m \in Len(s)..Len(t) : ~(g[Len(s)] <= g[m])}
  <2>1. SUFFICES ASSUME T # {}
                 PROVE  FALSE
    BY <1>1
  <2>2. PICK m \in T : \A y \in T : ~(y < m)
    <3>1. T \subseteq Nat
      BY <1>1
    <3>. HIDE DEF T
    <3>. QED
      BY <2>1, <3>1, Least
  <2>3. m \in 1..Len(t) /\ m - 1 \in Len(s)..Len(t) /\ m - 1 < m
    <3>1. m # Len(s)
      BY <1>1, <1>3
    <3>. QED
      BY <1>1, <3>1
  <2>4. g[Len(s)] <= g[m - 1]
    <3>1. m - 1 \notin T
      <4>. HIDE DEF T
      <4>. QED
        BY <2>2, <2>3
    <3>. QED
      BY <2>3, <3>1
  <2>5. g[m] = g[m - 1] + Share(t[m], R) /\ Share(t[m], R) \in Nat
    <3>1. \A k \in 1..Len(t) : Share(t[k], R) \in Nat
      BY BatchLengths
    <3>. QED
      BY <1>3, <2>3, <3>1 DEF Adds
  <2>6. g[Len(s)] \in Nat /\ g[m - 1] \in Nat
    <3>1. Len(s) \in 0..Len(t) /\ m - 1 \in 0..Len(t)
      BY <1>1, <2>3
    <3>. HIDE DEF T
    <3>. QED
      BY <1>3, <3>1
  <2>. QED
    BY <2>4, <2>5, <2>6
<1>. QED
  BY <1>2, <1>3, <1>4, <1>5

-----------------------------------------------------------------------------
(* How often a file was opened *)

LEMMA OpeningsFacts == ASSUME Stream, NEW name PROVE Openings(name) \in Nat
<1>1. IsFiniteSet(1..Len(opened))
  BY OpenedFacts, FS_Interval
<1>2. IsFiniteSet({i \in 1..Len(opened) : opened[i].name = name})
  BY <1>1, FS_Subset
<1>. QED
  BY <1>2, FS_CardinalityType DEF Openings

LEMMA OpeningsGrow ==
    ASSUME Stream, Control, NEW name, Opens(name), NEW n
    PROVE  Openings(n)' = IF n = name THEN Openings(n) + 1 ELSE Openings(n)
<1>. DEFINE Old == {i \in 1..Len(opened) : opened[i].name = n}
            New == {i \in 1..Len(opened') : opened'[i].name = n}
            last == Len(opened) + 1
<1>1. IsFiniteSet(Old) /\ last \notin Old
  <2>1. Len(opened) \in Nat /\ IsFiniteSet(1..Len(opened))
    BY OpenedFacts, FS_Interval
  <2>2. IsFiniteSet(Old)
    BY <2>1, FS_Subset
  <2>. QED
    BY <2>1, <2>2
<1>2. /\ Len(opened) \in Nat /\ Len(opened') = Len(opened) + 1
      /\ \A i \in 1..Len(opened) : opened'[i] = opened[i]
      /\ opened'[Len(opened) + 1].name = name
  <2>1. opened'[Len(opened) + 1] = [run |-> run, name |-> name]
    BY OpensFacts
  <2>2. [run |-> run, name |-> name].name = name
    OBVIOUS
  <2>3. opened'[Len(opened) + 1].name = name
    BY <2>1, <2>2
  <2>. QED
    BY <2>3, OpensFacts
<1>3. New = IF n = name THEN Old \cup {last} ELSE Old
  BY <1>2
<1>4. Openings(n) = Cardinality(Old) /\ Openings(n)' = Cardinality(New)
  BY DEF Openings
<1>. HIDE DEF Old, New, last
<1>5. Cardinality(Old \cup {last}) = Cardinality(Old) + 1
  BY <1>1, FS_AddElement
<1>. QED
  BY <1>3, <1>4, <1>5

-----------------------------------------------------------------------------
(* Rolling by size *)

\* What the open file and the buffer of its stream hold.
Content == files[fs_].data \o buffered

\* By how much one opening lets a file grow at most.
Reach(longest) == MaxSize - 1 + longest

\* cur_size_ tells how much of its last opening the file has used.
Bounded(longest) ==
    /\ \A name \in DOMAIN files : name # fs_ \/ fs_ = NULL =>
         Size(files[name].data, Nat) <= Openings(name) * Reach(longest)
    /\ fs_ # NULL =>
         /\ cur_size_ <= IF pc = "write" THEN MaxSize - 1 ELSE Reach(longest)
         /\ Size(Content, Nat) <= (Openings(fs_) - 1) * Reach(longest) + cur_size_

\* A file that the run has left is full, and the one it has open holds what
\* cur_size_ says.
Full ==
    /\ \A i, j \in 1..Len(opened) : i < j /\ opened[i].run = opened[j].run =>
         Size(Data(i), {opened[i].run}) >= MaxSize
    /\ fs_ = NULL /\ pc # "down" =>
         \A i \in 1..Len(opened) : opened[i].run = run => Size(Data(i), {run}) >= MaxSize
    /\ fs_ # NULL => Size(Content, {run}) >= cur_size_

Longest(longest) == longest \in Lens /\ \A len \in Lens : len <= longest
\* In these executions files are rolled, at a size.
Rolls == kind = "RollFileFlush" /\ MaxSize # 0
Undamaged == losses = 0 /\ faults = 0

\* The inductive invariant.
RInv == /\ TInv
        /\ Rolls => /\ \A longest : Longest(longest) => Bounded(longest)
                    /\ Undamaged => Full

\* A step that moves no batch.
Quiet ==
    /\ UNCHANGED <<fs_, files, opened, buffered, cur_size_>>
    /\ pc' = "write" => pc = "write" \/ cur_size_ < MaxSize \/ fs_ = NULL
    /\ (run' = run /\ (pc' # "down" => pc # "down")) \/ (run' = run + 1 /\ fs_ = NULL)

LEMMA ContentFacts ==
    ASSUME Stream, fs_ # NULL
    PROVE  /\ fs_ \in DOMAIN files
           /\ files[fs_].data \in Seq(Batch) /\ Len(files[fs_].data) \in Nat
           /\ buffered \in Seq(Batch) /\ Len(buffered) \in Nat
           /\ Content \in Seq(Batch)
           /\ Len(Content) = Len(files[fs_].data) + Len(buffered)
           /\ \A j \in 1..Len(Content) :
                Content[j] = IF j <= Len(files[fs_].data) THEN files[fs_].data[j]
                             ELSE buffered[j - Len(files[fs_].data)]
           /\ \A R : Size(files[fs_].data, R) <= Size(Content, R)
<1>1. /\ fs_ \in DOMAIN files
      /\ files[fs_].data \in Seq(Batch) /\ Len(files[fs_].data) \in Nat
      /\ buffered \in Seq(Batch) /\ Len(buffered) \in Nat
  BY FileFacts, BufferFacts DEF Stream
<1>2. /\ Content \in Seq(Batch)
      /\ Len(Content) = Len(files[fs_].data) + Len(buffered)
      /\ \A j \in 1..Len(Content) :
           Content[j] = IF j <= Len(files[fs_].data) THEN files[fs_].data[j]
                        ELSE buffered[j - Len(files[fs_].data)]
  BY <1>1, ConcatProperties DEF Content
<1>3. ASSUME NEW R
      PROVE  Size(files[fs_].data, R) <= Size(Content, R)
  <2>. DEFINE data == files[fs_].data
  <2>1. Len(data) <= Len(Content) /\ \A j \in 1..Len(data) : Content[j] = data[j]
    BY <1>1, <1>2
  <2>. HIDE DEF data
  <2>2. data \in Seq(Batch)
    BY <1>1 DEF data
  <2>3. Size(data, R) <= Size(Content, R)
    BY <1>2, <2>1, <2>2, SizeGrows
  <2>. QED
    BY <2>3 DEF data
<1>. QED
  BY <1>1, <1>2, <1>3

LEMMA Products ==
    ASSUME NEW n \in Nat, NEW r \in Nat
    PROVE  /\ n * r \in Nat /\ (n - 1) * r + r = n * r /\ (n - 1) * r \in Int
           /\ ((n + 1) - 1) * r = n * r
<1>1. n * r \in Nat
  OBVIOUS
<1>2. (n - 1) * r + r = n * r /\ (n - 1) * r \in Int
  OBVIOUS
<1>3. (n + 1) - 1 = n
  OBVIOUS
<1>. QED
  BY <1>1, <1>2, <1>3

LEMMA ReachFacts ==
    ASSUME MaxSize # 0, NEW longest, Longest(longest)
    PROVE  Reach(longest) \in Nat /\ MaxSize - 1 \in Nat /\ longest \in Nat
           /\ MaxSize - 1 <= Reach(longest)
<1>1. MaxSize \in Nat /\ longest \in Nat
  BY SizesAssumption DEF Longest
<1>. QED
  BY <1>1 DEF Reach

\* Also the open file is within its bound.
LEMMA AllBounded ==
    ASSUME Stream, Control, Rolls, NEW longest, Longest(longest), Bounded(longest),
           NEW name \in DOMAIN files
    PROVE  Size(files[name].data, Nat) <= Openings(name) * Reach(longest)
<1>1. CASE name # fs_ \/ fs_ = NULL
  BY <1>1 DEF Bounded
<1>2. CASE name = fs_ /\ fs_ # NULL
  <2>1. /\ Reach(longest) \in Nat /\ MaxSize - 1 \in Nat /\ MaxSize - 1 <= Reach(longest)
        /\ cur_size_ \in Nat /\ Openings(name) \in Nat
    BY ReachFacts, OpeningsFacts DEF Control, Rolls
  <2>2. cur_size_ <= Reach(longest)
    BY <1>2, <2>1 DEF Bounded
  <2>3. Size(Content, Nat) <= (Openings(name) - 1) * Reach(longest) + cur_size_
    BY <1>2 DEF Bounded
  <2>4. Size(files[name].data, Nat) <= Size(Content, Nat)
    BY <1>2, ContentFacts
  <2>5. Size(files[name].data, Nat) \in Nat /\ Size(Content, Nat) \in Nat
    BY <1>2, ContentFacts, SizeIsNatural
  <2>6. /\ (Openings(name) - 1) * Reach(longest) + Reach(longest) = Openings(name) * Reach(longest)
        /\ (Openings(name) - 1) * Reach(longest) \in Int
    BY <2>1, Products
  <2>. QED
    BY <2>1, <2>2, <2>3, <2>4, <2>5, <2>6
<1>. QED
  BY <1>1, <1>2

-----------------------------------------------------------------------------
(* The bound on a file: every step *)

\* A step that opens nothing and leaves every file at most as long as it was.
LEMMA BoundedWhenClosed ==
    ASSUME Stream, Control, Rolls, NEW longest, Longest(longest), Bounded(longest),
           opened' = opened, fs_' = NULL, DOMAIN files' = DOMAIN files,
           \A name \in DOMAIN files : Size(files'[name].data, Nat) \in Nat,
           \A name \in DOMAIN files :
              Size(files'[name].data, Nat) <= Size(files[name].data, Nat)
    PROVE  Bounded(longest)'
<1>1. ASSUME NEW name \in DOMAIN files
      PROVE  Size(files'[name].data, Nat) <= Openings(name) * Reach(longest)
  <2>1. Size(files[name].data, Nat) <= Openings(name) * Reach(longest)
    BY AllBounded
  <2>2. Size(files[name].data, Nat) \in Nat
    BY FileFacts, SizeIsNatural
  <2>3. Openings(name) * Reach(longest) \in Nat
    BY OpeningsFacts, ReachFacts, Products DEF Rolls
  <2>. QED
    BY <2>1, <2>2, <2>3
<1>2. \A name : Openings(name)' = Openings(name)
  BY DEF Openings
<1>. QED
  BY <1>1, <1>2 DEF Bounded, Reach

\* A step after which the open file and its buffer hold what they did, and as much
\* more as cur_size_ grows by.
LEMMA BoundedWhenOpen ==
    ASSUME Stream, Rolls, NEW longest, Longest(longest), Bounded(longest),
           opened' = opened, fs_ # NULL, fs_' = fs_, DOMAIN files' = DOMAIN files,
           \A name \in DOMAIN files : name # fs_ => files'[name] = files[name],
           NEW more \in Nat, cur_size_ \in Nat, cur_size_' = cur_size_ + more,
           Size(Content, Nat)' <= Size(Content, Nat) + more, Size(Content, Nat)' \in Nat,
           cur_size_' <= IF pc' = "write" THEN MaxSize - 1 ELSE Reach(longest)
    PROVE  Bounded(longest)'
<1>1. \A name : Openings(name)' = Openings(name)
  BY DEF Openings
<1>2. Size(Content, Nat)' <= (Openings(fs_) - 1) * Reach(longest) + cur_size_'
  <2>1. Size(Content, Nat) <= (Openings(fs_) - 1) * Reach(longest) + cur_size_
    BY DEF Bounded
  <2>2. (Openings(fs_) - 1) * Reach(longest) \in Int
    BY OpeningsFacts, ReachFacts, Products DEF Rolls
  <2>3. Size(Content, Nat) \in Nat
    BY ContentFacts, SizeIsNatural
  <2>. HIDE DEF Openings
  <2>. QED
    BY <2>1, <2>2, <2>3
<1>3. Reach(longest)' = Reach(longest)
  BY DEF Reach
<1>4. \A name \in DOMAIN files' : name # fs_' \/ fs_' = NULL =>
        Size(files'[name].data, Nat) <= Openings(name)' * Reach(longest)
  BY <1>1 DEF Bounded
<1>. QED
  BY <1>1, <1>2, <1>3, <1>4 DEF Bounded

-----------------------------------------------------------------------------
(* What the steps do to the open file and its buffer *)

\* fwrite adds the batch, whatever part of the buffer it writes out.
LEMMA WritesContent ==
    ASSUME TInv, Writes, faults' = faults
    PROVE  /\ DOMAIN files' = DOMAIN files
           /\ \A n \in DOMAIN files : n # fs_ => files'[n] = files[n]
           /\ \A R : Size(files'[fs_].data, R) >= Size(files[fs_].data, R)
           /\ \A R : Size(Content, R)' = Size(Content, R) + Share(batch, R)
<1>1. Stream /\ Control /\ faults \in Nat /\ pc \in Busy /\ fs_ # NULL /\ fs_' = fs_
  BY TypeParts DEF TInv, Control, Writes, Busy
<1>. DEFINE data == files[fs_].data
            new  == files'[fs_].data
            more == Content'
<1>a. PICK k \in 0..Len(Filled) : \E out, rest :
        /\ Appends(out, files[fs_].synced)
        /\ Len(out) = k /\ \A q \in 1..k : out[q] = Filled[q]
        /\ buffered' = rest
        /\ rest \in Seq(Batch) /\ Len(rest) = Len(Filled) - k
        /\ \A q \in 1..Len(Filled) - k : rest[q] = Filled[k + q]
  BY <1>1, FwriteEffect
<1>2. PICK out, rest :
        /\ Appends(out, files[fs_].synced)
        /\ Len(out) = k /\ \A q \in 1..k : out[q] = Filled[q]
        /\ buffered' = rest
        /\ rest \in Seq(Batch) /\ Len(rest) = Len(Filled) - k
        /\ \A q \in 1..Len(Filled) - k : rest[q] = Filled[k + q]
  BY <1>a
<1>3. /\ Filled \in Seq(Batch) /\ Len(Filled) = Len(buffered) + 1
      /\ Len(buffered) \in Nat
      /\ \A q \in 1..Len(buffered) : Filled[q] = buffered[q]
      /\ Filled[Len(buffered) + 1] = batch
  BY <1>1, FilledFacts
<1>4. /\ fs_ \in DOMAIN files /\ DOMAIN files' = DOMAIN files
      /\ files' \in [DOMAIN files -> [data : Seq(Batch), synced : Nat]]
      /\ \A n \in DOMAIN files : n # fs_ => files'[n] = files[n]
      /\ Len(data) \in Nat /\ Len(new) = Len(data) + k
      /\ \A j \in 1..Len(data) : new[j] = data[j]
      /\ \A q \in 1..k : new[Len(data) + q] = out[q]
  BY <1>1, <1>2, AppendsFacts
<1>5. new \in Seq(Batch) /\ data \in Seq(Batch)
  <2>1. files'[fs_] \in [data : Seq(Batch), synced : Nat]
    BY <1>4
  <2>. QED
    BY <1>1, <1>4, <2>1, FileFacts
<1>6. /\ more \in Seq(Batch) /\ Len(more) = Len(new) + Len(rest)
      /\ \A j \in 1..Len(new) + Len(rest) :
           more[j] = IF j <= Len(new) THEN new[j] ELSE rest[j - Len(new)]
  <2>1. more = new \o rest
    BY <1>1, <1>2 DEF Content
  <2>. HIDE DEF more, new
  <2>. QED
    BY <1>2, <1>5, <2>1, ConcatProperties
<1>7. /\ Content \in Seq(Batch) /\ Len(Content) = Len(data) + Len(buffered)
      /\ \A j \in 1..Len(Content) :
           Content[j] = IF j <= Len(data) THEN data[j] ELSE buffered[j - Len(data)]
  BY <1>1, ContentFacts
<1>. HIDE DEF data, new, more
<1>8. /\ k \in Nat /\ k <= Len(buffered) + 1 /\ Len(rest) = Len(buffered) + 1 - k
      /\ Len(new) = Len(data) + k /\ Len(data) \in Nat /\ Len(buffered) \in Nat
      /\ Len(Content) = Len(data) + Len(buffered) /\ Len(Content) \in Nat
      /\ Len(more) = Len(Content) + 1
  <2>1. /\ k \in Nat /\ k <= Len(buffered) + 1
        /\ Len(rest) = Len(buffered) + 1 - k
    BY <1>2, <1>3
  <2>2. Len(more) = (Len(data) + k) + (Len(buffered) + 1 - k)
    BY <1>4, <1>6, <2>1
  <2>. QED
    BY <1>3, <1>4, <1>7, <2>1, <2>2
<1>9. ASSUME NEW j \in 1..Len(Content) + 1
      PROVE  more[j] = IF j <= Len(data) THEN data[j] ELSE Filled[j - Len(data)]
  <2>1. CASE j <= Len(data)
    <3>1. j \in 1..Len(new) + Len(rest) /\ j <= Len(new) /\ j \in 1..Len(data)
      BY <1>8, <2>1
    <3>2. more[j] = new[j] /\ new[j] = data[j]
      BY <1>4, <1>6, <3>1
    <3>. QED
      BY <2>1, <3>2
  <2>2. CASE j > Len(data) /\ j <= Len(data) + k
    <3>1. /\ j - Len(data) \in 1..k /\ Len(data) + (j - Len(data)) = j
          /\ j \in 1..Len(new) + Len(rest) /\ j <= Len(new) /\ ~(j <= Len(data))
      BY <1>8, <2>2
    <3>2. new[j] = Filled[j - Len(data)]
      BY <1>2, <1>4, <3>1
    <3>3. more[j] = new[j]
      BY <1>6, <3>1
    <3>. QED
      BY <3>1, <3>2, <3>3
  <2>3. CASE j > Len(data) + k
    <3>1. /\ j - Len(new) \in 1..Len(Filled) - k
          /\ k + (j - Len(new)) = j - Len(data)
          /\ j \in 1..Len(new) + Len(rest) /\ ~(j <= Len(new)) /\ ~(j <= Len(data))
      BY <1>3, <1>8, <2>3
    <3>2. rest[j - Len(new)] = Filled[j - Len(data)]
      BY <1>2, <3>1
    <3>3. more[j] = rest[j - Len(new)]
      BY <1>6, <3>1
    <3>. QED
      BY <3>1, <3>2, <3>3
  <2>. QED
    BY <1>8, <2>1, <2>2, <2>3
<1>10. \A j \in 1..Len(Content) : more[j] = Content[j]
  <2>1. ASSUME NEW j \in 1..Len(Content), ~(j <= Len(data))
        PROVE  Filled[j - Len(data)] = buffered[j - Len(data)]
    <3>1. j - Len(data) \in 1..Len(buffered)
      BY <1>8, <2>1
    <3>. QED
      BY <1>3, <3>1
  <2>2. ASSUME NEW j \in 1..Len(Content)
        PROVE  j \in 1..Len(Content) + 1
    BY <1>8
  <2>. QED
    BY <1>7, <1>9, <2>1, <2>2
<1>11. more[Len(more)] = batch
  <2>1. /\ ~(Len(Content) + 1 <= Len(data))
        /\ Len(Content) + 1 - Len(data) = Len(buffered) + 1
        /\ Len(Content) + 1 \in 1..Len(Content) + 1
    BY <1>3, <1>4, <1>7
  <2>. QED
    BY <1>3, <1>8, <1>9, <2>1
<1>12. ASSUME NEW R
       PROVE  Size(more, R) = Size(Content, R) + Share(batch, R)
  BY <1>6, <1>7, <1>8, <1>10, <1>11, SizeOfMore
<1>13. ASSUME NEW R
       PROVE  Size(new, R) >= Size(data, R)
  <2>1. Size(data, R) <= Size(new, R)
    BY <1>2, <1>4, <1>5, SizeGrows
  <2>2. Size(data, R) \in Nat /\ Size(new, R) \in Nat
    BY <1>5, SizeIsNatural
  <2>. QED
    BY <2>1, <2>2
<1>. QED
  BY <1>4, <1>12, <1>13 DEF data, new, more

\* fclose and fflush write the buffer out: the file then holds it all.
LEMMA WrittenOutContent ==
    ASSUME Stream, NEW s, Appends(buffered, s)
    PROVE  /\ DOMAIN files' = DOMAIN files
           /\ \A n \in DOMAIN files : n # fs_ => files'[n] = files[n]
           /\ files'[fs_].data = Content
           /\ \A R : Size(files'[fs_].data, R) >= Size(files[fs_].data, R)
<1>1. fs_ # NULL /\ fs_ \in DOMAIN files
  BY DEF Appends, Stream
<1>2. files'[fs_].data = Content
  BY <1>1 DEF Appends, Content
<1>3. ASSUME NEW R
      PROVE  Size(Content, R) >= Size(files[fs_].data, R)
  <2>1. Size(files[fs_].data, R) <= Size(Content, R)
    BY <1>1, ContentFacts
  <2>2. Size(files[fs_].data, R) \in Nat /\ Size(Content, R) \in Nat
    BY <1>1, ContentFacts, SizeIsNatural
  <2>. QED
    BY <2>1, <2>2
<1>. QED
  BY <1>2, <1>3, AppendsFacts

\* fflush and fsync move what is there, or nothing.
LEMMA FlushesContent ==
    ASSUME TInv, Flushes
    PROVE  /\ fs_ # NULL /\ fs_' = fs_
           /\ Content' = Content /\ DOMAIN files' = DOMAIN files
           /\ \A n \in DOMAIN files : n # fs_ => files'[n] = files[n]
           /\ \A R : Size(files'[fs_].data, R) >= Size(files[fs_].data, R)
<1>1. Stream /\ fs_ # NULL /\ fs_' = fs_
  BY TypeParts DEF Flushes, TInv, Streams
<1>2. CASE UNCHANGED <<files, buffered>>
  <2>1. \A R : Size(files[fs_].data, R) \in Nat
    BY <1>1, ContentFacts, SizeIsNatural
  <2>2. \A R : Size(files[fs_].data, R) >= Size(files[fs_].data, R)
    BY <2>1
  <2>. QED
    BY <1>1, <1>2, <2>2 DEF Content
<1>3. ASSUME NEW s \in Nat, Appends(buffered, s), buffered' = <<>>
      PROVE  /\ Content' = Content /\ DOMAIN files' = DOMAIN files
             /\ \A n \in DOMAIN files : n # fs_ => files'[n] = files[n]
             /\ \A R : Size(files'[fs_].data, R) >= Size(files[fs_].data, R)
  <2>1. /\ files'[fs_].data = Content /\ DOMAIN files' = DOMAIN files
        /\ \A n \in DOMAIN files : n # fs_ => files'[n] = files[n]
        /\ \A R : Size(files'[fs_].data, R) >= Size(files[fs_].data, R)
    BY <1>1, <1>3, WrittenOutContent
  <2>2. Content' = files'[fs_].data \o <<>>
    BY <1>1, <1>3 DEF Content
  <2>3. Content \o <<>> = Content
    BY <1>1, ContentFacts, ConcatEmptySeq
  <2>. QED
    BY <2>1, <2>2, <2>3
<1>. QED
  BY <1>1, <1>2, <1>3, FlushesEffect

-----------------------------------------------------------------------------
(* Every step *)

OpensFirst ==
    /\ pc = "init" /\ fs_ = NULL
    /\ Opens(CreateFilename) /\ cur_size_' = 0 /\ pc' = "write"
    /\ UNCHANGED <<buffered, run, losses, faults>>

FailsFirst ==
    /\ fs_ = NULL /\ fs_' = NULL /\ faults' = faults + 1 /\ cur_size_' = 0
    /\ UNCHANGED <<files, opened, buffered, run, losses>>

\* The files stay, the stream is gone.
Stops == /\ fs_' = NULL /\ pc' = "down" /\ cur_size_' = 0
         /\ UNCHANGED <<files, opened, run, losses, faults>>

LEMMA RollingCases ==
    ASSUME TInv, Rolls, [Next]_vars
    PROVE  \/ Quiet /\ UNCHANGED <<losses, faults>>
           \/ OpensFirst \/ FailsFirst \/ Closes \/ Writes \/ Flushes \/ Stops \/ PowerLoss
<1>. DEFINE Calm == Quiet /\ UNCHANGED <<losses, faults>>
<1>1. Streams /\ Control /\ Stream /\ kind = "RollFileFlush"
  BY TypeParts DEF TInv, Rolls
<1>2. CASE CreateDirectory
  BY <1>2 DEF CreateDirectory, Quiet, counts, history
<1>3. CASE MakesDirectory
  BY <1>3 DEF MakesDirectory, Quiet, counts, history
<1>4. CASE DirectoryMade
  BY <1>4 DEF DirectoryMade, Quiet, counts, history
<1>5. CASE ConstructorOpens
  BY <1>1, <1>5 DEF ConstructorOpens, NoFault, Quiet
<1>6. ASSUME NEW len \in Lens, Flush(len)
      PROVE  Calm
  BY <1>1, <1>6 DEF Flush, Quiet, counts
<1>7. CASE KeepsFile
  <2>1. fs_ # NULL /\ cur_size_ < MaxSize
    BY <1>1, <1>7, SizesAssumption DEF KeepsFile, MustRoll, Control
  <2>. QED
    BY <1>7, <2>1 DEF KeepsFile, Quiet, counts, history
<1>8. CASE FirstFile
  <2>1. CASE Opens(CreateFilename) /\ NoFault
    BY <1>8, <2>1 DEF FirstFile, OpensFirst, NoFault
  <2>2. CASE OpenFails
    BY <1>8, <2>2 DEF FirstFile, OpenFails, Fault, FailsFirst
  <2>. QED
    BY <1>8, <2>1, <2>2 DEF FirstFile, Fopen
<1>9. CASE Restart
  <2>1. fs_ = NULL
    BY <1>1, <1>9 DEF Restart, Streams
  <2>. QED
    BY <1>9, <2>1 DEF Restart, Quiet, history
<1>10. CASE Tick
  BY <1>10 DEF Tick, Quiet, program, counts, history
<1>11. CASE UNCHANGED vars
  BY <1>11 DEF vars, Quiet, program, counts, history
<1>12. CASE WritesToNull
  BY <1>12 DEF WritesToNull, Dies, Stops, history
<1>13. CASE Kill
  BY <1>13 DEF Kill, Dies, Stops, history
<1>. QED
  BY <1>2, <1>3, <1>4, <1>5, <1>6, <1>7, <1>8, <1>9, <1>10, <1>11, <1>12, <1>13
  DEF Next, Constructor

LEMMA BoundedStays ==
    ASSUME TInv, Rolls, [Next]_vars, NEW longest, Longest(longest), Bounded(longest)
    PROVE  Bounded(longest)'
<1>1. /\ Stream /\ Control /\ MaxSize # 0 /\ kind = "RollFileFlush"
      /\ cur_size_ \in Nat /\ MaxSize \in Nat
      /\ Reach(longest) \in Nat /\ MaxSize - 1 \in Nat /\ MaxSize - 1 <= Reach(longest)
      /\ longest \in Nat
  BY TypeParts, SizesAssumption, ReachFacts DEF TInv, Rolls, Control
<1>2. \A name \in DOMAIN files : Size(files[name].data, Nat) \in Nat
  BY <1>1, FileFacts, SizeIsNatural
<1>3. CASE files' = files /\ opened' = opened /\ fs_' = NULL
  BY <1>1, <1>2, <1>3, BoundedWhenClosed
<1>4. fs_ # NULL => /\ cur_size_ <= Reach(longest)
                    /\ pc = "write" => cur_size_ <= MaxSize - 1
  BY <1>1 DEF Bounded
<1>5. fs_ # NULL => \A R : Size(Content, R) \in Nat
  BY <1>1, ContentFacts, SizeIsNatural
<1>6. CASE Quiet
  <2>1. CASE fs_ = NULL
    BY <1>3, <1>6, <2>1 DEF Quiet
  <2>2. CASE fs_ # NULL
    <3>1. Content' = Content
      BY <1>6 DEF Quiet, Content
    <3>2. cur_size_' <= IF pc' = "write" THEN MaxSize - 1 ELSE Reach(longest)
      BY <1>1, <1>4, <1>6, <2>2 DEF Quiet
    <3>3. Size(Content, Nat)' <= Size(Content, Nat) + 0 /\ Size(Content, Nat)' \in Nat
      BY <1>5, <2>2, <3>1
    <3>4. cur_size_' = cur_size_ + 0 /\ fs_' = fs_ /\ opened' = opened /\ files' = files
      BY <1>1, <1>6 DEF Quiet
    <3>. QED
      BY <1>1, <2>2, <3>2, <3>3, <3>4, BoundedWhenOpen
  <2>. QED
    BY <2>1, <2>2
<1>7. CASE OpensFirst
  <2>0. PICK name : name = CreateFilename
    OBVIOUS
  <2>1. Opens(name) /\ fs_ = NULL /\ buffered' = <<>> /\ cur_size_' = 0 /\ pc' = "write"
    BY <1>1, <1>7, <2>0 DEF OpensFirst, Stream
  <2>2. /\ fs_' = name /\ DOMAIN files' = DOMAIN files \cup {name}
        /\ \A n \in DOMAIN files : files'[n] = files[n]
        /\ name \notin DOMAIN files => files'[name] = [data |-> <<>>, synced |-> 0]
        /\ files'[name].data \in Seq(Batch)
    <3>1. files' \in [DOMAIN files' -> [data : Seq(Batch), synced : Nat]] /\ name \in DOMAIN files'
      BY <1>1, <2>1, OpensFacts
    <3>2. files'[name] \in [data : Seq(Batch), synced : Nat]
      BY <3>1
    <3>. QED
      BY <1>1, <2>1, <3>2, OpensFacts
  <2>3. \A n : Openings(n)' = IF n = name THEN Openings(n) + 1 ELSE Openings(n)
    BY <1>1, <2>1, OpeningsGrow
  <2>4. \A n \in DOMAIN files : Size(files[n].data, Nat) <= Openings(n) * Reach(longest)
    BY <2>1 DEF Bounded
  <2>5. Openings(name) \in Nat /\ Openings(name) * Reach(longest) \in Nat
    BY <1>1, OpeningsFacts, Products
  <2>6. Size(files'[name].data, Nat) <= Openings(name) * Reach(longest)
    <3>1. CASE name \in DOMAIN files
      BY <2>2, <2>4, <3>1
    <3>2. CASE name \notin DOMAIN files
      <4>1. files'[name].data = <<>>
        BY <2>2, <3>2
      <4>. QED
        BY <2>5, <4>1, SizeOfEmpty
    <3>. QED
      BY <3>1, <3>2
  <2>7. Content' = files'[name].data
    <3>1. Content' = files'[name].data \o <<>>
      BY <2>1, <2>2 DEF Content
    <3>. QED
      BY <2>2, <3>1, ConcatEmptySeq
  <2>8. Size(Content, Nat)' <= (Openings(fs_)' - 1) * Reach(longest) + cur_size_'
    <3>1. Size(Content, Nat)' \in Nat
      BY <2>2, <2>7, SizeIsNatural
    <3>2. (Openings(name)' - 1) * Reach(longest) = Openings(name) * Reach(longest)
      <4>1. Openings(name)' - 1 = Openings(name)
        BY <2>3, <2>5
      <4>. QED
        BY <4>1
    <3>3. Openings(fs_)' = Openings(name)'
      BY <2>2 DEF Openings
    <3>. QED
      BY <2>1, <2>5, <2>6, <2>7, <3>1, <3>2, <3>3
  <2>9. ASSUME NEW n \in DOMAIN files', n # fs_' \/ fs_' = NULL
        PROVE  Size(files'[n].data, Nat) <= Openings(n)' * Reach(longest)
    <3>1. CASE n # name
      BY <2>2, <2>3, <2>4, <3>1
    <3>2. CASE n = name
      <4>1. Openings(n)' = Openings(name) + 1
        BY <2>3, <3>2
      <4>2. (Openings(name) + 1) * Reach(longest) = Openings(name) * Reach(longest) + Reach(longest)
        <5>1. Openings(name) + 1 \in Nat /\ (Openings(name) + 1) - 1 = Openings(name)
          BY <2>5
        <5>. HIDE DEF Openings
        <5>. QED
          BY <1>1, <5>1, Products
      <4>3. Size(files'[name].data, Nat) \in Nat
        BY <2>2, SizeIsNatural
      <4>. QED
        BY <1>1, <2>5, <2>6, <3>2, <4>1, <4>2, <4>3
    <3>. QED
      BY <3>1, <3>2
  <2>10. cur_size_' <= MaxSize - 1
    BY <1>1, <2>1
  <2>. QED
    BY <1>1, <2>1, <2>8, <2>9, <2>10 DEF Bounded, Reach
<1>8. CASE FailsFirst
  BY <1>3, <1>8 DEF FailsFirst
<1>9. CASE Closes
  <2>1. fs_' = NULL /\ Appends(buffered, files[fs_].synced) /\ opened' = opened /\ fs_ # NULL
        /\ cur_size_' = cur_size_ /\ pc = "init"
    BY <1>9, ClosesEffect DEF Closes, history
  <2>2. /\ DOMAIN files' = DOMAIN files
        /\ \A n \in DOMAIN files : n # fs_ => files'[n] = files[n]
        /\ files'[fs_].data = Content
    BY <1>1, <2>1, WrittenOutContent
  <2>3. Size(Content, Nat) <= Openings(fs_) * Reach(longest)
    <3>1. Size(Content, Nat) <= (Openings(fs_) - 1) * Reach(longest) + cur_size_
      BY <2>1 DEF Bounded
    <3>2. cur_size_ <= Reach(longest) /\ Size(Content, Nat) \in Nat
      BY <1>4, <1>5, <2>1
    <3>3. /\ (Openings(fs_) - 1) * Reach(longest) + Reach(longest) = Openings(fs_) * Reach(longest)
          /\ (Openings(fs_) - 1) * Reach(longest) \in Int
      BY <1>1, OpeningsFacts, Products
    <3>. QED
      BY <1>1, <3>1, <3>2, <3>3
  <2>4. \A name \in DOMAIN files : name # fs_ =>
          Size(files[name].data, Nat) <= Openings(name) * Reach(longest)
    BY DEF Bounded
  <2>5. \A name \in DOMAIN files' :
          Size(files'[name].data, Nat) <= Openings(name) * Reach(longest)
    BY <2>2, <2>3, <2>4
  <2>6. \A name : Openings(name)' = Openings(name)
    BY <2>1 DEF Openings
  <2>. QED
    BY <2>1, <2>5, <2>6 DEF Bounded, Reach
<1>10. CASE Writes
  <2>1. /\ fs_' = fs_ /\ fs_ # NULL /\ pc = "write" /\ pc' = "flush" /\ opened' = opened
        /\ cur_size_' = cur_size_ + batch.len
    BY <1>1, <1>10 DEF Writes, history
  <2>2. batch \in Batch /\ batch.len \in Nat /\ batch.len <= longest /\ batch.run \in Nat
    <3>1. batch \in Batch
      <4>1. pc \in Busy
        BY <2>1 DEF Busy
      <4>2. Filled \in Seq(Batch) /\ Len(buffered) + 1 \in 1..Len(Filled)
            /\ Filled[Len(buffered) + 1] = batch
        BY <4>1, FilledFacts
      <4>. QED
        BY <4>2, ElementOfSeq
    <3>2. batch.len \in Lens
      BY <3>1 DEF Batch
    <3>. QED
      BY <3>1, <3>2, BatchFacts DEF Longest
  <2>3. cur_size_' <= Reach(longest)
    BY <1>1, <1>4, <2>1, <2>2 DEF Reach
  <2>4. \/ faults' = faults
        \/ faults' = faults + 1 /\ UNCHANGED <<files, buffered>>
    BY <1>10, FwriteEffect
  <2>5. CASE faults' = faults
    <3>1. /\ DOMAIN files' = DOMAIN files
          /\ \A n \in DOMAIN files : n # fs_ => files'[n] = files[n]
          /\ Size(Content, Nat)' = Size(Content, Nat) + Share(batch, Nat)
      BY <1>10, <2>5, WritesContent
    <3>2. Share(batch, Nat) = batch.len
      BY <2>2 DEF Share
    <3>3. Size(Content, Nat)' <= Size(Content, Nat) + batch.len /\ Size(Content, Nat)' \in Nat
      BY <1>5, <2>1, <2>2, <3>1, <3>2
    <3>. QED
      BY <1>1, <2>1, <2>2, <2>3, <3>1, <3>3, BoundedWhenOpen
  <2>6. CASE UNCHANGED <<files, buffered>>
    <3>1. Content' = Content
      BY <2>1, <2>6 DEF Content
    <3>2. Size(Content, Nat)' <= Size(Content, Nat) + batch.len /\ Size(Content, Nat)' \in Nat
      BY <1>5, <2>1, <2>2, <3>1
    <3>. QED
      BY <1>1, <2>1, <2>2, <2>3, <2>6, <3>2, BoundedWhenOpen
  <2>. QED
    BY <2>4, <2>5, <2>6
<1>11. CASE Flushes
  <2>1. /\ fs_' = fs_ /\ fs_ # NULL /\ pc = "flush" /\ pc' = "ready" /\ opened' = opened
        /\ cur_size_' = cur_size_
    BY <1>1, <1>11 DEF Flushes, TInv, Streams
  <2>2. /\ Content' = Content /\ DOMAIN files' = DOMAIN files
        /\ \A n \in DOMAIN files : n # fs_ => files'[n] = files[n]
    BY <1>11, FlushesContent
  <2>3. Size(Content, Nat)' <= Size(Content, Nat) + 0 /\ Size(Content, Nat)' \in Nat
    BY <1>5, <2>1, <2>2
  <2>4. cur_size_' = cur_size_ + 0 /\ cur_size_' <= Reach(longest)
    BY <1>1, <1>4, <2>1
  <2>. QED
    BY <1>1, <2>1, <2>2, <2>3, <2>4, BoundedWhenOpen
<1>12. CASE Stops
  BY <1>3, <1>12 DEF Stops
<1>13. CASE PowerLoss
  <2>1. fs_' = NULL /\ opened' = opened
    BY <1>13, Zenon DEF PowerLoss, Dies, history
  <2>2. DOMAIN files' = DOMAIN files
    BY <1>1, <1>13, PowerLossFacts
  <2>3. ASSUME NEW name \in DOMAIN files
        PROVE  /\ Size(files'[name].data, Nat) \in Nat
               /\ Size(files'[name].data, Nat) <= Size(files[name].data, Nat)
    <3>1. files'[name] \in [data : Seq(Batch), synced : Nat]
      BY <1>1, <1>13, PowerLossFacts
    <3>2. files'[name].data \in Seq(Batch) /\ files[name].data \in Seq(Batch)
      BY <1>1, <3>1, FileFacts
    <3>3. /\ Len(files'[name].data) <= Len(files[name].data)
          /\ \A j \in 1..Len(files'[name].data) : files[name].data[j] = files'[name].data[j]
      BY <1>1, <1>13, PowerLossFacts
    <3>. QED
      BY <3>2, <3>3, SizeGrows, SizeIsNatural
  <2>. QED
    BY <1>1, <2>1, <2>2, <2>3, BoundedWhenClosed
<1>. QED
  BY <1>6, <1>7, <1>8, <1>9, <1>10, <1>11, <1>12, <1>13, RollingCases

-----------------------------------------------------------------------------
(* The files that were left are full: every step *)

LEMMA NamesAreOpen == CreateFilename # NULL
<1>. DEFINE a == Digits(Instants[now].min + 1)
            b == Digits(Instants[now].sec + 1)
<1>1. \A n : Digits(n) # <<>> /\ (Len(Digits(n)) = 1 \/ Len(Digits(n)) = 2)
  BY DEF Digits
<1>2. CreateFilename.stamp = a \o b
  BY DEF CreateFilename
<1>3. Len(a) # 0 /\ Len(a \o b) = Len(a) + Len(b) /\ Len(a) \in Nat /\ Len(b) \in Nat
  BY <1>1
<1>. HIDE DEF a, b
<1>4. a \o b # <<>>
  BY <1>3
<1>. QED
  BY <1>2, <1>4 DEF NULL

\* A step that opens nothing keeps full what is full.
LEMMA StaysFull ==
    ASSUME Stream, opened' = opened, NEW i \in 1..Len(opened), NEW R,
           Size(Data(i), R) >= MaxSize, Size(Data(i), R)' \in Nat,
           \A n \in DOMAIN files : Size(files'[n].data, R) >= Size(files[n].data, R)
    PROVE  Size(Data(i), R)' >= MaxSize
<1>1. opened[i].name \in DOMAIN files /\ Size(Data(i), R) \in Nat /\ MaxSize \in Nat
  BY OpenedFacts, SizeIsNatural, SizesAssumption
<1>2. Size(Data(i), R)' >= Size(Data(i), R)
  BY <1>1 DEF Data
<1>. QED
  BY <1>1, <1>2

LEMMA LastFacts ==
    ASSUME TInv, fs_ # NULL
    PROVE  /\ Len(opened) \in 1..Len(opened) /\ opened[Len(opened)].run = run
           /\ opened[Len(opened)].name = fs_
           /\ \A i \in 1..Len(opened) : i < Len(opened) \/ i = Len(opened)
<1>1. Len(opened) \in Nat /\ Streams
  BY TypeParts, OpenedFacts DEF TInv
<1>. QED
  BY <1>1 DEF Streams

LEMMA FilesAfter ==
    ASSUME Stream'
    PROVE  /\ \A n \in DOMAIN files' : files'[n].data \in Seq(Batch)
           /\ \A i \in 1..Len(opened') : Data(i)' \in Seq(Batch)
<1>1. ASSUME NEW n \in DOMAIN files'
      PROVE  files'[n].data \in Seq(Batch)
  <2>1. files'[n] \in [data : Seq(Batch), synced : Nat]
    BY DEF Stream
  <2>. QED
    BY <2>1
<1>2. ASSUME NEW i \in 1..Len(opened')
      PROVE  opened'[i].name \in DOMAIN files'
  <2>1. opened' \in Seq([run : 1..MaxStops + 1, name : DOMAIN files'])
    BY DEF Stream
  <2>2. opened'[i] \in [run : 1..MaxStops + 1, name : DOMAIN files']
    BY <2>1, ElementOfSeq
  <2>. QED
    BY <2>2
<1>. QED
  BY <1>1, <1>2 DEF Data

LEMMA FullStays ==
    ASSUME TInv, Rolls, [Next]_vars, Undamaged, Full, Undamaged'
    PROVE  Full'
<1>1. /\ Stream /\ Control /\ Streams /\ Stream' /\ MaxSize \in Nat
      /\ cur_size_ \in Nat /\ run \in Nat
      /\ faults \in Nat /\ losses \in Nat
  <2>1. Stream /\ Control /\ Streams
    BY TypeParts DEF TInv
  <2>. QED
    BY <2>1, StreamStays, SizesAssumption, RunFacts DEF Control
<1>2. \A i \in 1..Len(opened') : \A R : Size(Data(i), R)' \in Nat
  <2>1. \A i \in 1..Len(opened') : Data(i)' \in Seq(Batch)
    BY <1>1, FilesAfter
  <2>2. ASSUME NEW i \in 1..Len(opened'), NEW R
        PROVE  Size(Data(i), R)' \in Nat
    <3>1. Size(Data(i), R)' = Size(Data(i)', R)
      BY DEF Size
    <3>. QED
      BY <2>1, <3>1, SizeIsNatural
  <2>. QED
    BY <2>2
<1>3. \A i, j \in 1..Len(opened) : i < j /\ opened[i].run = opened[j].run =>
        Size(Data(i), {opened[i].run}) >= MaxSize
  BY DEF Full
<1>4. \A R : \A n \in DOMAIN files : Size(files[n].data, R) \in Nat
  BY <1>1, FileFacts, SizeIsNatural
<1>5. ASSUME opened' = opened,
             \A R : \A n \in DOMAIN files : Size(files'[n].data, R) >= Size(files[n].data, R)
      PROVE  \A i, j \in 1..Len(opened') : i < j /\ opened'[i].run = opened'[j].run =>
               Size(Data(i), {opened[i].run})' >= MaxSize
  <2>. SUFFICES ASSUME NEW i \in 1..Len(opened), NEW j \in 1..Len(opened),
                       i < j, opened[i].run = opened[j].run
                PROVE  Size(Data(i), {opened[i].run})' >= MaxSize
    BY <1>5
  <2>1. PICK R : R = {opened[i].run}
    OBVIOUS
  <2>2. R = {opened[i].run}'
    BY <1>5, <2>1
  <2>3. Size(Data(i), R)' >= MaxSize
    BY <1>1, <1>2, <1>3, <1>5, <2>1, StaysFull
  <2>4. Size(Data(i), {opened[i].run})' = Size(Data(i), R)'
    BY <2>2
  <2>. QED
    BY <2>3, <2>4
<1>6. CASE Quiet
  <2>1. fs_' = fs_ /\ opened' = opened /\ files' = files /\ buffered' = buffered
        /\ cur_size_' = cur_size_
    BY <1>6 DEF Quiet
  <2>2. \A R : \A n \in DOMAIN files : Size(files'[n].data, R) >= Size(files[n].data, R)
    BY <1>4, <2>1
  <2>3. ASSUME fs_' = NULL, pc' # "down", NEW i \in 1..Len(opened'), opened'[i].run = run'
        PROVE  Size(Data(i), {run})' >= MaxSize
    <3>1. opened[i].run = run' /\ opened[i].run <= run /\ i \in 1..Len(opened)
      BY <1>1, <2>1, <2>3 DEF Streams
    <3>2. run' = run /\ pc # "down" /\ fs_ = NULL
      BY <1>1, <1>6, <2>1, <2>3, <3>1 DEF Quiet
    <3>3. Size(Data(i), {run}) >= MaxSize
      BY <3>1, <3>2 DEF Full
    <3>. QED
      BY <2>1, <3>2, <3>3 DEF Data
  <2>4. ASSUME fs_' # NULL
        PROVE  Size(Content, {run})' >= cur_size_'
    <3>1. run' = run /\ fs_ # NULL
      BY <1>6, <2>1, <2>4 DEF Quiet
    <3>2. Size(Content, {run}) >= cur_size_
      BY <3>1 DEF Full
    <3>. QED
      BY <2>1, <3>1, <3>2 DEF Content
  <2>. QED
    BY <1>5, <2>1, <2>2, <2>3, <2>4 DEF Full
<1>7. CASE OpensFirst
  <2>0. PICK name : name = CreateFilename
    OBVIOUS
  <2>1. /\ Opens(name) /\ fs_ = NULL /\ pc = "init" /\ cur_size_' = 0 /\ run' = run
        /\ buffered' = <<>> /\ name # NULL
    BY <1>1, <1>7, <2>0, NamesAreOpen DEF OpensFirst, Stream
  <2>2. /\ fs_' = name /\ name \in DOMAIN files'
        /\ \A n \in DOMAIN files : files'[n] = files[n]
        /\ Len(opened) \in Nat /\ Len(opened') = Len(opened) + 1
        /\ \A i \in 1..Len(opened) : opened'[i] = opened[i]
        /\ opened'[Len(opened) + 1].run = run
    <3>1. opened'[Len(opened) + 1] = [run |-> run, name |-> name]
      BY <1>1, <2>1, OpensFacts
    <3>2. [run |-> run, name |-> name].run = run
      OBVIOUS
    <3>3. opened'[Len(opened) + 1].run = run
      BY <3>1, <3>2
    <3>. QED
      BY <1>1, <2>1, <3>3, OpensFacts
  <2>3. \A i \in 1..Len(opened) : Data(i)' = Data(i) /\ opened'[i].run = opened[i].run
    BY <1>1, <2>2, OpenedFacts DEF Data
  <2>4. ASSUME NEW i \in 1..Len(opened'), NEW j \in 1..Len(opened'),
               i < j, opened'[i].run = opened'[j].run
        PROVE  Size(Data(i), {opened[i].run})' >= MaxSize
    <3>1. i \in 1..Len(opened) /\ (j \in 1..Len(opened) \/ j = Len(opened) + 1)
      BY <2>2, <2>4
    <3>2. Size(Data(i), {opened[i].run})' = Size(Data(i), {opened[i].run})
      BY <2>3, <3>1
    <3>3. CASE j \in 1..Len(opened)
      BY <1>3, <2>3, <2>4, <3>1, <3>2, <3>3
    <3>4. CASE j = Len(opened) + 1
      <4>1. opened[i].run = run
        BY <2>2, <2>3, <2>4, <3>1, <3>4
      <4>2. Size(Data(i), {run}) >= MaxSize
        BY <2>1, <3>1, <4>1 DEF Full
      <4>. QED
        BY <3>2, <4>1, <4>2
    <3>. QED
      BY <3>1, <3>3, <3>4
  <2>5. Size(Content, {run})' >= cur_size_'
    <3>1. files'[fs_'].data \in Seq(Batch)
      BY <1>1, <2>2, FilesAfter
    <3>2. Content' = files'[fs_'].data
      <4>1. Content' = files'[fs_'].data \o <<>>
        BY <2>1 DEF Content
      <4>. QED
        BY <3>1, <4>1, ConcatEmptySeq
    <3>3. Size(Content, {run})' \in Nat
      <4>1. Size(Content', {run'}) \in Nat
        BY <3>1, <3>2, SizeIsNatural
      <4>. QED
        BY <4>1 DEF Size
    <3>. QED
      BY <2>1, <3>3
  <2>. QED
    BY <2>1, <2>2, <2>4, <2>5 DEF Full
<1>8. ~FailsFirst /\ ~PowerLoss
  <2>1. FailsFirst => faults' = faults + 1
    BY DEF FailsFirst
  <2>2. PowerLoss => losses' = losses + 1
    BY Zenon DEF PowerLoss
  <2>. QED
    BY <1>1, <2>1, <2>2 DEF Undamaged
<1>9. CASE Closes
  <2>1. /\ fs_' = NULL /\ Appends(buffered, files[fs_].synced) /\ opened' = opened /\ fs_ # NULL
        /\ run' = run /\ MustRoll
    BY <1>9, ClosesEffect DEF Closes, history, counts
  <2>2. /\ files'[fs_].data = Content
        /\ \A n \in DOMAIN files : n # fs_ => files'[n] = files[n]
        /\ \A R : Size(files'[fs_].data, R) >= Size(files[fs_].data, R)
    BY <1>1, <2>1, WrittenOutContent
  <2>3. \A R : \A n \in DOMAIN files : Size(files'[n].data, R) >= Size(files[n].data, R)
    BY <1>4, <2>2
  <2>4. ASSUME NEW i \in 1..Len(opened'), opened'[i].run = run'
        PROVE  Size(Data(i), {run})' >= MaxSize
    <3>0. PICK R : R = {run}
      OBVIOUS
    <3>1. i \in 1..Len(opened) /\ opened[i].run = run /\ R = {run}'
      BY <2>1, <2>4, <3>0
    <3>2. CASE i = Len(opened)
      <4>1. Data(i)' = Content
        BY <1>1, <2>1, <2>2, <3>2, LastFacts DEF Data
      <4>2. Size(Content, {run}) >= cur_size_ /\ cur_size_ >= MaxSize
        BY <2>1 DEF Full, MustRoll
      <4>3. Size(Content, {run}) \in Nat
        BY <1>1, <2>1, ContentFacts, SizeIsNatural
      <4>4. Size(Data(i), {run})' = Size(Content, {run})
        BY <2>1, <4>1
      <4>. QED
        BY <1>1, <4>2, <4>3, <4>4
    <3>3. CASE i < Len(opened)
      <4>1. Size(Data(i), R) >= MaxSize
        BY <1>3, <2>1, <3>0, <3>1, <3>3, LastFacts
      <4>2. Size(Data(i), R)' >= MaxSize
        BY <1>1, <1>2, <2>1, <2>3, <3>1, <4>1, StaysFull
      <4>. QED
        BY <3>1, <4>2
    <3>. QED
      BY <2>1, <3>1, <3>2, <3>3, LastFacts
  <2>. QED
    BY <1>5, <2>1, <2>3, <2>4 DEF Full
<1>10. CASE Writes
  <2>1. /\ fs_' = fs_ /\ fs_ # NULL /\ opened' = opened /\ run' = run /\ pc = "write"
        /\ cur_size_' = cur_size_ + batch.len
    BY <1>10 DEF Writes, history, Rolls
  <2>2. faults' = faults
    BY <1>1 DEF Undamaged
  <2>3. /\ \A n \in DOMAIN files : n # fs_ => files'[n] = files[n]
        /\ \A R : Size(files'[fs_].data, R) >= Size(files[fs_].data, R)
        /\ \A R : Size(Content, R)' = Size(Content, R) + Share(batch, R)
    BY <1>10, <2>2, WritesContent
  <2>4. \A R : \A n \in DOMAIN files : Size(files'[n].data, R) >= Size(files[n].data, R)
    BY <1>4, <2>3
  <2>5. Size(Content, {run})' >= cur_size_'
    <3>0. PICK R : R = {run}
      OBVIOUS
    <3>1. batch.run = run /\ batch \in Batch
      <4>1. pc \in Busy
        BY <2>1 DEF Busy
      <4>2. Filled \in Seq(Batch) /\ Len(buffered) + 1 \in 1..Len(Filled)
            /\ Filled[Len(buffered) + 1] = batch /\ batch.run = run
        BY <4>1, FilledFacts
      <4>. QED
        BY <4>2, ElementOfSeq
    <3>2. Share(batch, R) = batch.len /\ batch.len \in Nat
      BY <3>0, <3>1, BatchFacts DEF Share
    <3>3. Size(Content, R) >= cur_size_ /\ Size(Content, R) \in Nat
      BY <1>1, <2>1, <3>0, ContentFacts, SizeIsNatural DEF Full
    <3>4. Size(Content, R)' >= cur_size_ + batch.len
      BY <1>1, <2>3, <3>2, <3>3
    <3>5. R = {run}'
      BY <2>1, <3>0
    <3>. QED
      BY <2>1, <3>4, <3>5
  <2>. QED
    BY <1>5, <2>1, <2>4, <2>5 DEF Full
<1>11. CASE Flushes
  <2>1. opened' = opened /\ run' = run /\ cur_size_' = cur_size_
    BY <1>11 DEF Flushes
  <2>2. /\ fs_' = fs_ /\ fs_ # NULL /\ Content' = Content
        /\ \A n \in DOMAIN files : n # fs_ => files'[n] = files[n]
        /\ \A R : Size(files'[fs_].data, R) >= Size(files[fs_].data, R)
    BY <1>11, FlushesContent
  <2>3. \A R : \A n \in DOMAIN files : Size(files'[n].data, R) >= Size(files[n].data, R)
    BY <1>4, <2>2
  <2>4. Size(Content, {run})' >= cur_size_'
    <3>1. Size(Content, {run}) >= cur_size_
      BY <2>2 DEF Full
    <3>. QED
      BY <2>1, <2>2, <3>1
  <2>. QED
    BY <1>5, <2>1, <2>2, <2>3, <2>4 DEF Full
<1>12. CASE Stops
  <2>1. fs_' = NULL /\ pc' = "down" /\ opened' = opened /\ files' = files
    BY <1>12 DEF Stops
  <2>2. \A R : \A n \in DOMAIN files : Size(files'[n].data, R) >= Size(files[n].data, R)
    BY <1>4, <2>1
  <2>. QED
    BY <1>5, <2>1, <2>2 DEF Full
<1>. QED
  BY <1>6, <1>7, <1>8, <1>9, <1>10, <1>11, <1>12, RollingCases

LEMMA RollsInitially == Init => RInv
<1>. SUFFICES ASSUME Init
              PROVE  RInv
  OBVIOUS
<1>1. /\ fs_ = NULL /\ opened = <<>> /\ DOMAIN files = {}
  BY DEF Init
<1>2. TInv
  BY InitTyped
<1>3. \A longest : Bounded(longest)
  BY <1>1 DEF Bounded
<1>4. Full
  <2>1. Len(opened) = 0
    BY <1>1
  <2>. QED
    BY <1>1, <2>1 DEF Full
<1>. QED
  BY <1>2, <1>3, <1>4 DEF RInv

LEMMA RollsStay == ASSUME RInv, [Next]_vars PROVE RInv'
<1>1. TInv /\ TInv' /\ kind' = kind
  BY TypedStays, ConfigStays DEF RInv
<1>2. ASSUME Rolls'
      PROVE  Rolls
  BY <1>1, <1>2 DEF Rolls
<1>3. ASSUME Rolls, NEW longest, Longest(longest)
      PROVE  Bounded(longest)'
  BY <1>1, <1>3, BoundedStays DEF RInv
<1>4. ASSUME Rolls, Undamaged'
      PROVE  Full'
  <2>1. Undamaged
    BY <1>1, <1>4, NoLoss, FaultsStay DEF Undamaged
  <2>2. Full
    BY <1>4, <2>1 DEF RInv
  <2>. QED
    BY <1>1, <1>4, <2>1, <2>2, FullStays
<1>5. \A longest : Longest(longest)' => Longest(longest)
  BY DEF Longest
<1>. QED
  BY <1>1, <1>2, <1>3, <1>4, <1>5 DEF RInv

\* RollFileFlush keeps its files at max_size_ and at most a batch, once for each time
\* a file was opened, whatever fails and wherever it is stopped; and it leaves a file
\* for another only when the run has filled it, unless power is lost or a call fails.
THEOREM RollsBySizeHolds == Spec => []RollsBySize
<1>1. ASSUME RInv
      PROVE  RollsBySize
  <2>1. Stream /\ Control
    BY <1>1, TypeParts DEF RInv, TInv
  <2>2. ASSUME Rolls, NEW longest \in Lens, \A len \in Lens : len <= longest,
               NEW name \in DOMAIN files
        PROVE  Size(files[name].data, Nat) <= Openings(name) * (MaxSize - 1 + longest)
    <3>1. Longest(longest) /\ Bounded(longest)
      BY <1>1, <2>2 DEF RInv, Longest
    <3>2. Size(files[name].data, Nat) <= Openings(name) * Reach(longest)
      BY <2>1, <2>2, <3>1, AllBounded
    <3>. QED
      BY <3>2 DEF Reach
  <2>3. ASSUME Rolls, Undamaged, NEW i \in 1..Len(opened), NEW j \in 1..Len(opened),
               i < j, opened[i].run = opened[j].run
        PROVE  Size(Data(i), {opened[i].run}) >= MaxSize
    BY <1>1, <2>3 DEF RInv, Full
  <2>. QED
    BY <2>2, <2>3 DEF RollsBySize, Rolls, Undamaged
<1>2. RInv /\ [Next]_vars => RInv'
  BY RollsStay
<1>3. Spec => []RInv
  BY RollsInitially, <1>2, PTL DEF Spec
<1>4. RInv => RollsBySize
  BY <1>1
<1>. QED
  BY <1>3, <1>4, PTL

=============================================================================
