---------------------------- MODULE MemoryProofs -----------------------------
(***************************************************************************)
(* The memories for any sizes: the cache, the disk memory whose requests   *)
(* are in flight together, the one that reads and writes whole blocks, and *)
(* the adapters that pack bits in the blocks of two memories.              *)
(*                                                                         *)
(* IInv, of the cache: lines and history are compared position by position *)
(* from the back, where both end with the page used last; a hit takes out  *)
(* the same position in both, a miss takes out the front line and, of the  *)
(* history, at most a position beyond it.                                  *)
(*                                                                         *)
(* AsyncIInv: what is done of a batch, was done in some order, in which a  *)
(* request that completes comes last; a WRITE in flight has its own page   *)
(* of the buffer, and so has a READ that is done.                          *)
(*                                                                         *)
(* DiskIInv: the last batch was done in some order, the READs first.       *)
(*                                                                         *)
(* AdaptersIInv: the last batch was done in its order, on the bits that the*)
(* two memories have at the Place of each address: no two addresses have   *)
(* one place, and the places of a block are next to each other.            *)
(***************************************************************************)
EXTENDS LruCache, BatchOrder, TLAPS, SequenceTheorems, FiniteSetTheorems, FunctionTheorems,
        WellFoundedInduction

CONSTANTS NumPages, CachedPages, AdditionalPages, MaxEvents, MaxBatch, Size, BlockSize, MaxLength,
          LowerSize, UpperSize, SplitPoints

VARIABLES file, cache, phase, batch, buffer, inFlight, before, size, lower, upper, mapping

(* BlockDiskMemoryLibAIOCached, the file and batches of DiskMemory, and     *)
(* BitfieldAdapter over MultiSplitMemory.                                   *)
Async == INSTANCE BlockDiskMemory

Disk == INSTANCE DiskMemory

Adapters == INSTANCE MemoryAdapters

-----------------------------------------------------------------------------
(* The cache. *)

(* The n-th element from the back. *)
FromBack(s, n) == s[Len(s) + 1 - n]

(* t is s with e at its back and, if s has a k-th element from the back,   *)
(* without that one.                                                       *)
MovedToBack(s, k, e, t) ==
  /\ Len(t) = IF k <= Len(s) THEN Len(s) ELSE Len(s) + 1
  /\ \A n \in 1 .. Len(t) :
       FromBack(t, n) = IF n = 1 THEN e
                        ELSE IF n <= k THEN FromBack(s, n - 1) ELSE FromBack(s, n)

LEMMA RemovedAt ==
  ASSUME NEW S, NEW s \in Seq(S), NEW i \in 1 .. Len(s)
  PROVE  /\ RemoveAt(s, i) \in Seq(S) /\ Len(RemoveAt(s, i)) = Len(s) - 1
         /\ \A j \in 1 .. Len(s) - 1 : RemoveAt(s, i)[j] = IF j < i THEN s[j] ELSE s[j + 1]
<1> DEFINE a == SubSeq(s, 1, i - 1)
           b == SubSeq(s, i + 1, Len(s))
<1>1. /\ Len(s) \in Nat /\ i \in Nat /\ i - 1 \in Int /\ i + 1 \in Int
      /\ \A j \in 1 .. Len(s) : s[j] \in S
  BY LenProperties, ElementOfSeq
<1>2. /\ a \in Seq(S) /\ Len(a) = i - 1
      /\ \A j \in 1 .. i - 1 : a[j] = s[j]
  <2>1. \A j \in 1 .. i - 1 : s[j] \in S
    BY <1>1
  <2> QED BY <1>1, <2>1, SubSeqProperties
<1>3. /\ b \in Seq(S) /\ Len(b) = Len(s) - i
      /\ \A j \in 1 .. Len(s) - i : b[j] = s[i + j]
  <2>1. \A j \in i + 1 .. Len(s) : s[j] \in S
    BY <1>1
  <2> QED BY <1>1, <2>1, SubSeqProperties
<1>4. RemoveAt(s, i) = a \o b
  BY DEF RemoveAt
<1> HIDE DEF a, b
<1>5. /\ a \o b \in Seq(S) /\ Len(a \o b) = Len(s) - 1
      /\ \A j \in 1 .. Len(s) - 1 : (a \o b)[j] = IF j <= i - 1 THEN a[j] ELSE b[j - (i - 1)]
  BY <1>1, <1>2, <1>3, ConcatProperties
<1>6. ASSUME NEW j \in 1 .. Len(s) - 1
      PROVE  (a \o b)[j] = IF j < i THEN s[j] ELSE s[j + 1]
  <2>1. CASE j < i
    BY <1>1, <1>2, <1>5, <2>1
  <2>2. CASE ~(j < i)
    <3>1. j - (i - 1) \in 1 .. Len(s) - i /\ i + (j - (i - 1)) = j + 1
      BY <1>1, <2>2
    <3> QED BY <1>1, <1>3, <1>5, <2>2, <3>1
  <2> QED BY <2>1, <2>2
<1> QED
  BY <1>4, <1>5, <1>6

(* An element taken out and another put at the back. *)
LEMMA RemovedAndAppended ==
  ASSUME NEW S, NEW s \in Seq(S), NEW i \in 1 .. Len(s), NEW e \in S
  PROVE  /\ Append(RemoveAt(s, i), e) \in Seq(S)
         /\ MovedToBack(s, Len(s) + 1 - i, e, Append(RemoveAt(s, i), e))
<1> DEFINE r == RemoveAt(s, i)
           t == Append(r, e)
<1>1. /\ r \in Seq(S) /\ Len(r) = Len(s) - 1 /\ Len(s) \in Nat
      /\ \A j \in 1 .. Len(s) - 1 : r[j] = IF j < i THEN s[j] ELSE s[j + 1]
  BY RemovedAt, LenProperties
<1> HIDE DEF r
<1>2. /\ t \in Seq(S) /\ Len(t) = Len(s) /\ t[Len(s)] = e
      /\ \A j \in 1 .. Len(s) - 1 : t[j] = r[j]
  BY <1>1, AppendProperties
<1> HIDE DEF t
<1>3. ASSUME NEW n \in 1 .. Len(s)
      PROVE  t[Len(t) + 1 - n] = IF n = 1 THEN e
                                 ELSE IF n <= Len(s) + 1 - i THEN s[Len(s) + 1 - (n - 1)]
                                 ELSE s[Len(s) + 1 - n]
  <2>1. CASE n = 1
    BY <1>1, <1>2, <2>1
  <2>2. CASE n # 1
    <3>1. /\ Len(s) + 1 - n \in 1 .. Len(s) - 1
          /\ (Len(s) + 1 - n) + 1 = Len(s) + 1 - (n - 1)
          /\ n <= Len(s) + 1 - i <=> ~(Len(s) + 1 - n < i)
      BY <1>1, <2>2
    <3> QED BY <1>1, <1>2, <2>2, <3>1
  <2> QED BY <2>1, <2>2
<1>4. MovedToBack(s, Len(s) + 1 - i, e, t)
  BY <1>1, <1>2, <1>3 DEF MovedToBack, FromBack
<1> QED
  BY <1>2, <1>4 DEF t, r

(* The front taken out and another put at the back. *)
LEMMA FrontLeft ==
  ASSUME NEW S, NEW s \in Seq(S), s # <<>>, NEW e \in S
  PROVE  /\ Append(Tail(s), e) \in Seq(S)
         /\ MovedToBack(s, Len(s), e, Append(Tail(s), e))
<1>1. /\ Tail(s) \in Seq(S) /\ Len(Tail(s)) = Len(s) - 1 /\ Len(s) \in Nat \ {0}
      /\ \A j \in 1 .. Len(Tail(s)) : Tail(s)[j] = s[j + 1]
  BY HeadTailProperties, EmptySeq
<1> DEFINE t == Append(Tail(s), e)
<1>2. /\ t \in Seq(S) /\ Len(t) = Len(s) /\ t[Len(s)] = e
      /\ \A j \in 1 .. Len(s) - 1 : t[j] = s[j + 1]
  BY <1>1, AppendProperties
<1> HIDE DEF t
<1>3. MovedToBack(s, Len(s), e, t)
  BY <1>1, <1>2 DEF MovedToBack, FromBack
<1> QED
  BY <1>2, <1>3 DEF t

(* Nothing taken out. *)
LEMMA OnlyAppended ==
  ASSUME NEW S, NEW s \in Seq(S), NEW e \in S
  PROVE  /\ Append(s, e) \in Seq(S)
         /\ MovedToBack(s, Len(s) + 1, e, Append(s, e))
<1> DEFINE t == Append(s, e)
<1>1. /\ t \in Seq(S) /\ Len(s) \in Nat /\ Len(t) = Len(s) + 1 /\ t[Len(s) + 1] = e
      /\ \A j \in 1 .. Len(s) : t[j] = s[j]
  BY AppendProperties, LenProperties
<1> HIDE DEF t
<1>2. MovedToBack(s, Len(s) + 1, e, t)
  BY <1>1 DEF MovedToBack, FromBack
<1> QED
  BY <1>1, <1>2 DEF t

-----------------------------------------------------------------------------
(* The inductive invariant: line and history agree at each position from   *)
(* the back, no page is twice in the history, and no line is ever dirty.   *)
HeldInOrder(ls, uses) ==
  \A n \in 1 .. NumBlocks :
    /\ FromBack(ls, n).valid <=> n <= Len(uses)
    /\ FromBack(ls, n).valid => FromBack(ls, n).page = FromBack(uses, n)

NoneTwice(uses) ==
  \A m, n \in 1 .. Len(uses) : FromBack(uses, m) = FromBack(uses, n) => m = n

Clean(ls) == \A n \in 1 .. NumBlocks : ~FromBack(ls, n).dirty

(* While every page used is still in the cache: the lines hold what was    *)
(* last written, and so does the memory for the pages not used.            *)
Current(ls, uses, mem, values) ==
  Len(uses) <= NumBlocks =>
    /\ \A n \in 1 .. Len(uses) : FromBack(ls, n).data = values[FromBack(uses, n)]
    /\ \A q \in PageId :
         (\A n \in 1 .. Len(uses) : FromBack(uses, n) # q) => mem[q] = values[q]

IInv ==
  /\ memory \in [PageId -> Value] /\ written \in [PageId -> Value]
  /\ lines \in Seq(Line) /\ Len(lines) = NumBlocks
  /\ reply \in Value \cup {NoReply}
  /\ recency \in Seq(PageId)
  /\ HeldInOrder(lines, recency)
  /\ NoneTwice(recency)
  /\ Clean(lines)
  /\ Current(lines, recency, memory, written)
-----------------------------------------------------------------------------
(* A sequence with a line for each of the NumBlocks positions. *)
LEMMA LinesAreASequence ==
  ASSUME Parameters
  PROVE  \A ls : ls \in Seq(Line) /\ Len(ls) = NumBlocks <=> ls \in [1 .. NumBlocks -> Line]
<1>1. ASSUME NEW ls, ls \in Seq(Line), Len(ls) = NumBlocks
      PROVE  ls \in [1 .. NumBlocks -> Line]
  BY <1>1, LenProperties
<1>2. ASSUME NEW ls, ls \in [1 .. NumBlocks -> Line]
      PROVE  ls \in Seq(Line) /\ Len(ls) = NumBlocks
  BY <1>2 DEF Parameters
<1> QED
  BY <1>1, <1>2

LEMMA AtPosition ==
  ASSUME NEW S, NEW s \in Seq(S), NEW n \in 1 .. Len(s)
  PROVE  FromBack(s, n) \in S
<1>1. Len(s) \in Nat
  BY LenProperties
<1>2. Len(s) + 1 - n \in 1 .. Len(s)
  BY <1>1
<1> QED
  BY <1>2, ElementOfSeq DEF FromBack

(* No line is dirty, so a miss never writes to the memory. *)
LEMMA NothingToWriteBack ==
  ASSUME Parameters, IInv
  PROVE  MemoryAfterEviction = memory
<1>1. Len(lines) = NumBlocks /\ NumBlocks \in Nat \ {0} /\ lines \in Seq(Line)
  BY DEF IInv, Parameters
<1>2. Head(lines) = FromBack(lines, NumBlocks)
  BY <1>1 DEF FromBack
<1>3. ~Head(lines).dirty
  BY <1>1, <1>2 DEF IInv, Clean
<1> QED
  BY <1>3 DEF MemoryAfterEviction

(* The position of page p in the history, or the one beyond all others. *)
LEMMA UsesMove ==
  ASSUME IInv, NEW p \in PageId
  PROVE  \E h \in 1 .. Len(recency) + 1 :
           /\ MovedToBack(recency, h, p, Append(UsesOfOthers(p), p))
           /\ Append(UsesOfOthers(p), p) \in Seq(PageId)
           /\ h <= Len(recency) => FromBack(recency, h) = p
           /\ h = Len(recency) + 1 =>
                \A n \in 1 .. Len(recency) : FromBack(recency, n) # p
<1> DEFINE uses == { i \in 1 .. Len(recency) : recency[i] = p }
<1>1. recency \in Seq(PageId) /\ Len(recency) \in Nat
  BY LenProperties DEF IInv
<1>2. CASE uses = {}
  <2>1. UsesOfOthers(p) = recency
    BY <1>2 DEF UsesOfOthers
  <2>2. \A n \in 1 .. Len(recency) : FromBack(recency, n) # p
    <3> TAKE n \in 1 .. Len(recency)
    <3>1. Len(recency) + 1 - n \in 1 .. Len(recency)
      BY <1>1
    <3> QED BY <1>2, <3>1 DEF FromBack
  <2> WITNESS Len(recency) + 1 \in 1 .. Len(recency) + 1
  <2> QED
    BY <1>1, <2>1, <2>2, OnlyAppended
<1>3. CASE uses # {}
  <2> DEFINE i == CHOOSE i \in uses : TRUE
  <2>1. i \in uses
    BY <1>3
  <2> HIDE DEF i
  <2>2. i \in 1 .. Len(recency) /\ recency[i] = p
    BY <2>1
  <2>3. UsesOfOthers(p) = RemoveAt(recency, i)
    BY <1>3 DEF UsesOfOthers, i
  <2>4. /\ Len(recency) + 1 - i \in 1 .. Len(recency)
        /\ FromBack(recency, Len(recency) + 1 - i) = p
    <3>1. Len(recency) + 1 - (Len(recency) + 1 - i) = i
      BY <1>1, <2>2
    <3> QED BY <1>1, <2>2, <3>1 DEF FromBack
  <2>5. /\ Append(UsesOfOthers(p), p) \in Seq(PageId)
        /\ MovedToBack(recency, Len(recency) + 1 - i, p, Append(UsesOfOthers(p), p))
    BY <1>1, <2>2, <2>3, RemovedAndAppended
  <2>6. Len(recency) + 1 - i \in 1 .. Len(recency) + 1 /\ Len(recency) + 1 - i # Len(recency) + 1
    BY <1>1, <2>4
  <2> QED
    BY <2>4, <2>5, <2>6
<1> QED
  BY <1>2, <1>3

(* The line that page p comes to: the one that hits, or the front line. *)
LEMMA LinesMove ==
  ASSUME Parameters, IInv, NEW p \in PageId
  PROVE  \E k \in 1 .. NumBlocks, line \in Line :
           /\ MovedToBack(lines, k, line, Brought(p))
           /\ Brought(p) \in Seq(Line) /\ Len(Brought(p)) = NumBlocks
           /\ line.valid /\ line.page = p /\ ~line.dirty
           /\ \/ line = FromBack(lines, k)
              \/ /\ k = NumBlocks /\ line.data = memory[p]
                 /\ \A n \in 1 .. NumBlocks :
                      ~(FromBack(lines, n).valid /\ FromBack(lines, n).page = p)
<1>1. /\ lines \in Seq(Line) /\ Len(lines) = NumBlocks /\ NumBlocks \in Nat \ {0}
      /\ memory \in [PageId -> Value]
  BY DEF IInv, Parameters
<1>2. CASE Hits(p) = {}
  <2> DEFINE line == [page |-> p, data |-> memory[p], valid |-> TRUE, dirty |-> FALSE]
  <2>1. line \in Line
    BY <1>1 DEF Line
  <2>2. Brought(p) = Append(Tail(lines), line)
    BY <1>2, NothingToWriteBack DEF Brought, Fetched
  <2>3. line.valid /\ line.page = p /\ ~line.dirty /\ line.data = memory[p]
    OBVIOUS
  <2> HIDE DEF line
  <2>4. lines # <<>>
    BY <1>1, EmptySeq
  <2>5. /\ Brought(p) \in Seq(Line)
        /\ MovedToBack(lines, NumBlocks, line, Brought(p))
    BY <1>1, <2>1, <2>2, <2>4, FrontLeft
  <2>6. Len(Brought(p)) = NumBlocks
    BY <1>1, <2>5 DEF MovedToBack
  <2>7. ASSUME NEW n \in 1 .. NumBlocks
        PROVE  ~(FromBack(lines, n).valid /\ FromBack(lines, n).page = p)
    <3>1. NumBlocks + 1 - n \in 1 .. NumBlocks
      BY <1>1
    <3> QED BY <1>1, <1>2, <3>1 DEF Hits, FromBack
  <2>8. NumBlocks \in 1 .. NumBlocks
    BY <1>1
  <2> QED
    BY <2>1, <2>3, <2>5, <2>6, <2>7, <2>8
<1>3. CASE Hits(p) # {}
  <2> DEFINE i == CHOOSE i \in Hits(p) : TRUE
  <2>1. i \in Hits(p)
    BY <1>3
  <2>2. Brought(p) = Append(RemoveAt(lines, i), lines[i])
    BY <1>3 DEF Brought
  <2> HIDE DEF i
  <2>3. i \in 1 .. Len(lines) /\ lines[i].valid /\ lines[i].page = p
    BY <1>1, <2>1 DEF Hits
  <2>4. NumBlocks + 1 - i \in 1 .. NumBlocks /\ lines[i] = FromBack(lines, NumBlocks + 1 - i)
    <3>1. NumBlocks + 1 - (NumBlocks + 1 - i) = i
      BY <1>1, <2>3
    <3> QED BY <1>1, <2>3, <3>1 DEF FromBack
  <2>5. lines[i] \in Line
    BY <1>1, <2>3, ElementOfSeq
  <2>6. /\ Brought(p) \in Seq(Line)
        /\ MovedToBack(lines, NumBlocks + 1 - i, lines[i], Brought(p))
    BY <1>1, <2>2, <2>3, <2>5, RemovedAndAppended
  <2>7. Len(Brought(p)) = NumBlocks
    BY <1>1, <2>4, <2>6 DEF MovedToBack
  <2>8. ~lines[i].dirty
    BY <2>4 DEF IInv, Clean
  <2> QED
    BY <2>3, <2>4, <2>5, <2>6, <2>7, <2>8
<1> QED
  BY <1>2, <1>3

(* A use of page p, before the data of its line may change. *)
LEMMA Used ==
  ASSUME Parameters, IInv, NEW p \in PageId, NEW uses, uses = Append(UsesOfOthers(p), p)
  PROVE  /\ uses \in Seq(PageId) /\ Len(uses) \in Nat \ {0} /\ FromBack(uses, 1) = p
         /\ Brought(p) \in Seq(Line) /\ Len(Brought(p)) = NumBlocks
         /\ HeldInOrder(Brought(p), uses) /\ NoneTwice(uses) /\ Clean(Brought(p))
         /\ Current(Brought(p), uses, memory, written)
<1>1. PICK h \in 1 .. Len(recency) + 1 :
        /\ MovedToBack(recency, h, p, uses)
        /\ uses \in Seq(PageId)
        /\ h <= Len(recency) => FromBack(recency, h) = p
        /\ h = Len(recency) + 1 => \A n \in 1 .. Len(recency) : FromBack(recency, n) # p
  BY UsesMove
<1>2. PICK k \in 1 .. NumBlocks, line \in Line :
        /\ MovedToBack(lines, k, line, Brought(p))
        /\ Brought(p) \in Seq(Line) /\ Len(Brought(p)) = NumBlocks
        /\ line.valid /\ line.page = p /\ ~line.dirty
        /\ \/ line = FromBack(lines, k)
           \/ /\ k = NumBlocks /\ line.data = memory[p]
              /\ \A n \in 1 .. NumBlocks :
                   ~(FromBack(lines, n).valid /\ FromBack(lines, n).page = p)
  BY LinesMove
<1> DEFINE ls == Brought(p)
           len == Len(recency)
<1> HIDE DEF ls, len
<1>3. /\ len \in Nat /\ NumBlocks \in Nat \ {0} /\ Len(lines) = NumBlocks
      /\ h \in 1 .. len + 1 /\ k \in 1 .. NumBlocks
      /\ recency \in Seq(PageId) /\ lines \in Seq(Line)
  BY LenProperties DEF IInv, Parameters, len
<1>4. /\ Len(uses) = IF h <= len THEN len ELSE len + 1
      /\ \A n \in 1 .. Len(uses) :
           FromBack(uses, n) = IF n = 1 THEN p
                               ELSE IF n <= h THEN FromBack(recency, n - 1)
                               ELSE FromBack(recency, n)
  BY <1>1 DEF MovedToBack, len
<1>5. \A n \in 1 .. NumBlocks :
        FromBack(ls, n) = IF n = 1 THEN line
                          ELSE IF n <= k THEN FromBack(lines, n - 1)
                          ELSE FromBack(lines, n)
  BY <1>2 DEF MovedToBack, ls
<1>6. /\ \A n \in 1 .. NumBlocks : /\ FromBack(lines, n).valid <=> n <= len
                                   /\ n <= len => FromBack(lines, n).page = FromBack(recency, n)
                                   /\ ~FromBack(lines, n).dirty
      /\ \A m, n \in 1 .. len : FromBack(recency, m) = FromBack(recency, n) => m = n
      /\ h <= len => FromBack(recency, h) = p
      /\ h = len + 1 => \A n \in 1 .. len : FromBack(recency, n) # p
  BY <1>1 DEF IInv, HeldInOrder, NoneTwice, Clean, len
<1>7. \/ h = k /\ h <= len /\ line = FromBack(lines, k)
      \/ k = NumBlocks /\ line.data = memory[p] /\ (h > NumBlocks \/ h = len + 1)
  <2>1. CASE line = FromBack(lines, k)
    <3>1. k <= len /\ FromBack(recency, k) = p
      BY <1>2, <1>3, <1>6, <2>1
    <3>2. h # len + 1
      BY <1>3, <1>6, <3>1
    <3>3. h \in 1 .. len /\ k \in 1 .. len
      BY <1>3, <3>1, <3>2
    <3>4. FromBack(recency, h) = FromBack(recency, k)
      BY <1>6, <3>1, <3>3
    <3>5. h = k
      BY <1>6, <3>3, <3>4
    <3> QED BY <2>1, <3>3, <3>5
  <2>2. CASE /\ k = NumBlocks /\ line.data = memory[p]
             /\ \A n \in 1 .. NumBlocks :
                  ~(FromBack(lines, n).valid /\ FromBack(lines, n).page = p)
    <3>1. ASSUME h <= NumBlocks, h <= len PROVE FALSE
      BY <1>3, <1>6, <2>2, <3>1
    <3> QED BY <1>3, <2>2, <3>1
  <2> QED BY <1>2, <2>1, <2>2
<1>8. Len(uses) \in Nat \ {0} /\ FromBack(uses, 1) = p
  BY <1>3, <1>4
<1>9. HeldInOrder(ls, uses)
  <2> SUFFICES ASSUME NEW n \in 1 .. NumBlocks
               PROVE  /\ FromBack(ls, n).valid <=> n <= Len(uses)
                      /\ FromBack(ls, n).valid => FromBack(ls, n).page = FromBack(uses, n)
    BY DEF HeldInOrder
  <2>1. CASE n = 1
    <3>1. FromBack(ls, n) = line /\ FromBack(uses, n) = p /\ n <= Len(uses)
      BY <1>5, <1>8, <2>1
    <3> QED BY <1>2, <3>1
  <2>2. CASE n # 1 /\ n <= k
    <3>1. n - 1 \in 1 .. NumBlocks /\ FromBack(ls, n) = FromBack(lines, n - 1)
      BY <1>3, <1>5, <2>2
    <3>2. /\ FromBack(ls, n).valid <=> n - 1 <= len
          /\ n - 1 <= len => FromBack(ls, n).page = FromBack(recency, n - 1)
      BY <1>6, <3>1
    <3>3. n - 1 <= len <=> n <= Len(uses)
      BY <1>3, <1>4, <1>7, <2>2
    <3>4. n <= Len(uses) => FromBack(uses, n) = FromBack(recency, n - 1)
      BY <1>3, <1>4, <1>7, <2>2
    <3> QED BY <3>2, <3>3, <3>4
  <2>3. CASE n # 1 /\ ~(n <= k)
    <3>1. FromBack(ls, n) = FromBack(lines, n) /\ h = k /\ h <= len
      BY <1>3, <1>5, <1>7, <2>3
    <3>2. n <= Len(uses) => FromBack(uses, n) = FromBack(recency, n)
      BY <1>3, <1>4, <2>3, <3>1
    <3> QED BY <1>3, <1>4, <1>6, <3>1, <3>2
  <2> QED BY <2>1, <2>2, <2>3
<1>10. NoneTwice(uses)
  <2> DEFINE source(n) == IF n = 1 THEN h ELSE IF n <= h THEN n - 1 ELSE n
  <2>1. ASSUME NEW n \in 1 .. Len(uses), n # 1
        PROVE  source(n) \in 1 .. len /\ source(n) # h /\ FromBack(uses, n) = FromBack(recency, source(n))
    BY <1>3, <1>4, <2>1
  <2>2. ASSUME NEW n \in 1 .. Len(uses), n # 1
        PROVE  FromBack(uses, n) # p
    <3>1. source(n) \in 1 .. len /\ source(n) # h /\ FromBack(uses, n) = FromBack(recency, source(n))
      BY <2>1, <2>2
    <3> HIDE DEF source
    <3>2. CASE h <= len
      <4>1. h \in 1 .. len /\ FromBack(recency, h) = p
        BY <1>3, <1>6, <3>2
      <4> QED BY <1>6, <3>1, <4>1
    <3>3. CASE h = len + 1
      BY <1>6, <3>1, <3>3
    <3> QED BY <1>3, <3>2, <3>3
  <2>3. ASSUME NEW m \in 1 .. Len(uses), NEW n \in 1 .. Len(uses), m # 1, n # 1,
               FromBack(uses, m) = FromBack(uses, n)
        PROVE  m = n
    <3>1. source(m) = source(n)
      <4>1. /\ source(m) \in 1 .. len /\ FromBack(uses, m) = FromBack(recency, source(m))
            /\ source(n) \in 1 .. len /\ FromBack(uses, n) = FromBack(recency, source(n))
        BY <2>1, <2>3
      <4> HIDE DEF source
      <4> QED BY <1>6, <2>3, <4>1
    <3> QED BY <1>3, <1>8, <2>3, <3>1
  <2> QED BY <1>8, <2>2, <2>3 DEF NoneTwice
<1>11. Clean(ls)
  <2> SUFFICES ASSUME NEW n \in 1 .. NumBlocks PROVE ~FromBack(ls, n).dirty
    BY DEF Clean
  <2>1. CASE n # 1 /\ n <= k
    <3>1. n - 1 \in 1 .. NumBlocks /\ FromBack(ls, n) = FromBack(lines, n - 1)
      BY <1>3, <1>5, <2>1
    <3> QED BY <1>6, <3>1
  <2> QED BY <1>2, <1>3, <1>5, <1>6, <2>1
<1>12. Current(ls, uses, memory, written)
  <2> SUFFICES ASSUME Len(uses) <= NumBlocks
               PROVE  /\ \A n \in 1 .. Len(uses) : FromBack(ls, n).data = written[FromBack(uses, n)]
                      /\ \A q \in PageId : (\A n \in 1 .. Len(uses) : FromBack(uses, n) # q)
                                           => memory[q] = written[q]
    BY DEF Current
  <2>1. /\ \A n \in 1 .. len : FromBack(lines, n).data = written[FromBack(recency, n)]
        /\ \A q \in PageId : (\A n \in 1 .. len : FromBack(recency, n) # q)
                             => memory[q] = written[q]
    <3>1. Len(recency) <= NumBlocks
      BY <1>3, <1>4 DEF len
    <3> QED BY <3>1 DEF IInv, Current, len
  <2>2. line.data = written[p]
    <3>1. CASE h = k /\ h <= len /\ line = FromBack(lines, k)
      BY <1>3, <1>6, <2>1, <3>1
    <3>2. CASE k = NumBlocks /\ line.data = memory[p] /\ (h > NumBlocks \/ h = len + 1)
      <4>1. h = len + 1
        BY <1>3, <1>4, <3>2
      <4> QED BY <1>6, <2>1, <3>2, <4>1
    <3> QED BY <1>7, <3>1, <3>2
  <2>3. ASSUME NEW n \in 1 .. Len(uses)
        PROVE  FromBack(ls, n).data = written[FromBack(uses, n)]
    <3>1. n \in 1 .. NumBlocks
      BY <1>3, <1>8
    <3>2. CASE n = 1
      BY <1>5, <1>8, <2>2, <3>1, <3>2
    <3>3. CASE n # 1 /\ n <= k
      <4>1. n - 1 \in 1 .. len /\ FromBack(ls, n) = FromBack(lines, n - 1)
        BY <1>3, <1>4, <1>5, <3>1, <3>3
      <4>2. FromBack(uses, n) = FromBack(recency, n - 1)
        BY <1>3, <1>4, <1>7, <3>3
      <4> QED BY <2>1, <4>1, <4>2
    <3>4. CASE n # 1 /\ ~(n <= k)
      <4>1. n \in 1 .. len /\ FromBack(ls, n) = FromBack(lines, n)
        BY <1>3, <1>4, <1>5, <1>7, <3>1, <3>4
      <4>2. FromBack(uses, n) = FromBack(recency, n)
        BY <1>3, <1>4, <1>7, <3>1, <3>4
      <4> QED BY <2>1, <4>1, <4>2
    <3> QED BY <3>2, <3>3, <3>4
  <2>4. ASSUME NEW q \in PageId, \A n \in 1 .. Len(uses) : FromBack(uses, n) # q
        PROVE  memory[q] = written[q]
    <3>1. ASSUME NEW m \in 1 .. len PROVE FromBack(recency, m) # q
      <4>1. CASE m = h
        BY <1>3, <1>6, <1>8, <2>4, <4>1
      <4>2. CASE m < h
        <5>1. m + 1 \in 1 .. Len(uses) /\ m + 1 # 1 /\ m + 1 <= h /\ (m + 1) - 1 = m
          BY <1>3, <1>4, <4>2
        <5> QED BY <1>4, <2>4, <5>1
      <4>3. CASE m > h
        <5>1. m \in 1 .. Len(uses) /\ m # 1 /\ ~(m <= h)
          BY <1>3, <1>4, <4>3
        <5> QED BY <1>4, <2>4, <5>1
      <4> QED BY <1>3, <4>1, <4>2, <4>3
    <3> QED BY <2>1, <2>4, <3>1
  <2> QED BY <2>3, <2>4
<1> QED
  BY <1>1, <1>2, <1>8, <1>9, <1>10, <1>11, <1>12 DEF ls

(* What a write then does to the line at the back. *)
WithData(ls, v) == [ls EXCEPT ![NumBlocks].data = v]

LEMMA DataChanged ==
  ASSUME Parameters, NEW ls \in Seq(Line), Len(ls) = NumBlocks, NEW v \in Value,
         NEW new, new = WithData(ls, v)
  PROVE  /\ new \in Seq(Line) /\ Len(new) = NumBlocks
         /\ FromBack(new, 1).data = v
         /\ \A n \in 1 .. NumBlocks : /\ FromBack(new, n).valid = FromBack(ls, n).valid
                                      /\ FromBack(new, n).page = FromBack(ls, n).page
                                      /\ FromBack(new, n).dirty = FromBack(ls, n).dirty
         /\ \A n \in 1 .. NumBlocks : n # 1 => FromBack(new, n) = FromBack(ls, n)
<1>1. NumBlocks \in Nat \ {0} /\ ls \in [1 .. NumBlocks -> Line] /\ NumBlocks \in 1 .. Len(ls)
  BY LinesAreASequence DEF Parameters
<1> DEFINE last == [ls[NumBlocks] EXCEPT !.data = v]
<1>2. /\ last \in Line /\ last.data = v
      /\ last.valid = ls[NumBlocks].valid /\ last.page = ls[NumBlocks].page
      /\ last.dirty = ls[NumBlocks].dirty
  BY <1>1 DEF Line
<1>3. new = [ls EXCEPT ![NumBlocks] = last]
  BY <1>1 DEF WithData
<1> HIDE DEF last
<1>4. /\ new \in Seq(Line) /\ Len(new) = NumBlocks
      /\ \A j \in 1 .. NumBlocks : new[j] = IF j = NumBlocks THEN last ELSE ls[j]
  BY <1>1, <1>2, <1>3, ExceptSeq
<1>5. FromBack(new, 1) = last /\ FromBack(ls, 1) = ls[NumBlocks]
  BY <1>1, <1>4 DEF FromBack
<1>6. ASSUME NEW n \in 1 .. NumBlocks, n # 1
      PROVE  FromBack(new, n) = FromBack(ls, n)
  <2>1. NumBlocks + 1 - n \in 1 .. NumBlocks /\ NumBlocks + 1 - n # NumBlocks
    BY <1>1, <1>6
  <2> QED BY <1>4, <2>1 DEF FromBack
<1> QED
  BY <1>2, <1>4, <1>5, <1>6

(* No line is valid when the cache is made, and nothing is recorded yet. *)
LEMMA MadeEmpty ==
  ASSUME Parameters, NEW mem \in [PageId -> Value], memory = mem, NEW uses, uses = <<>>
  PROVE  /\ EmptyLines \in Seq(Line) /\ Len(EmptyLines) = NumBlocks
         /\ uses \in Seq(PageId) /\ NoneTwice(uses)
         /\ HeldInOrder(EmptyLines, uses) /\ Clean(EmptyLines)
         /\ Current(EmptyLines, uses, mem, mem)
<1> DEFINE first == CHOOSE p \in PageId : TRUE
           line == [page |-> first, data |-> memory[first], valid |-> FALSE, dirty |-> FALSE]
<1>1. first \in PageId
  BY DEF Parameters
<1>2. line \in Line /\ ~line.valid /\ ~line.dirty
  BY <1>1 DEF Line
<1>3. EmptyLines = [i \in 1 .. NumBlocks |-> line]
  BY DEF EmptyLines
<1> HIDE DEF line, first
<1>4. EmptyLines \in [1 .. NumBlocks -> Line]
  BY <1>2, <1>3
<1>5. EmptyLines \in Seq(Line) /\ Len(EmptyLines) = NumBlocks
  BY <1>4, LinesAreASequence
<1>6. ASSUME NEW n \in 1 .. NumBlocks PROVE FromBack(EmptyLines, n) = line
  <2>1. NumBlocks + 1 - n \in 1 .. NumBlocks
    BY DEF Parameters
  <2> QED BY <1>3, <1>5, <2>1 DEF FromBack
<1>7. uses \in Seq(PageId) /\ Len(uses) = 0
  OBVIOUS
<1> QED
  BY <1>2, <1>5, <1>6, <1>7 DEF NoneTwice, HeldInOrder, Clean, Current

LEMMA IInvInit == ASSUME Parameters, Init PROVE IInv
<1> QED
  BY MadeEmpty DEF Init, IInv

LEMMA IInvRead ==
  ASSUME Parameters, IInv, NEW p \in PageId, Read(p)
  PROVE  /\ IInv'
         /\ Len(recency') <= NumBlocks => reply' = written[p]
<1> DEFINE uses == Append(UsesOfOthers(p), p)
           ls == Brought(p)
<1>1. /\ memory' = memory /\ recency' = uses /\ lines' = ls
      /\ reply' = ls[NumBlocks].data /\ written' = written
  BY NothingToWriteBack DEF Read, Use
<1>2. /\ uses \in Seq(PageId) /\ Len(uses) \in Nat \ {0} /\ FromBack(uses, 1) = p
      /\ ls \in Seq(Line) /\ Len(ls) = NumBlocks
      /\ HeldInOrder(ls, uses) /\ NoneTwice(uses) /\ Clean(ls)
      /\ Current(ls, uses, memory, written)
  BY Used
<1> HIDE DEF uses, ls
<1>3. NumBlocks \in 1 .. Len(ls) /\ ls[NumBlocks] = FromBack(ls, 1)
  BY <1>2 DEF Parameters, FromBack
<1>4. reply' \in Value
  <2>1. ls[NumBlocks] \in Line
    BY <1>2, <1>3, ElementOfSeq
  <2> QED BY <1>1, <2>1 DEF Line
<1>5. Len(uses) <= NumBlocks => reply' = written[p]
  <2>1. 1 \in 1 .. Len(uses)
    BY <1>2
  <2> QED BY <1>1, <1>2, <1>3, <2>1 DEF Current
<1>6. IInv'
  <2>1. HeldInOrder(lines', recency') /\ NoneTwice(recency') /\ Clean(lines')
        /\ Current(lines', recency', memory', written')
    BY <1>1, <1>2
  <2> QED BY <1>1, <1>2, <1>4, <2>1 DEF IInv, HeldInOrder, NoneTwice, Clean, Current, FromBack
<1> QED
  BY <1>1, <1>5, <1>6

LEMMA IInvWrite ==
  ASSUME Parameters, IInv, NEW p \in PageId, NEW v \in Value, Write(p, v)
  PROVE  IInv'
<1> DEFINE uses == Append(UsesOfOthers(p), p)
           ls == Brought(p)
           new == WithData(ls, v)
           values == [written EXCEPT ![p] = v]
<1>1. /\ memory' = memory /\ recency' = uses /\ lines' = new
      /\ reply' = NoReply /\ written' = values
  BY NothingToWriteBack DEF Write, Use, WithData
<1>2. /\ uses \in Seq(PageId) /\ Len(uses) \in Nat \ {0} /\ FromBack(uses, 1) = p
      /\ ls \in Seq(Line) /\ Len(ls) = NumBlocks
      /\ HeldInOrder(ls, uses) /\ NoneTwice(uses) /\ Clean(ls)
      /\ Current(ls, uses, memory, written)
  BY Used
<1>3. /\ memory \in [PageId -> Value] /\ written \in [PageId -> Value]
      /\ values \in [PageId -> Value] /\ values[p] = v
      /\ \A q \in PageId : q # p => values[q] = written[q]
  BY DEF IInv
<1> HIDE DEF uses, ls, values
<1>4. /\ new \in Seq(Line) /\ Len(new) = NumBlocks
      /\ FromBack(new, 1).data = v
      /\ \A n \in 1 .. NumBlocks : /\ FromBack(new, n).valid = FromBack(ls, n).valid
                                   /\ FromBack(new, n).page = FromBack(ls, n).page
                                   /\ FromBack(new, n).dirty = FromBack(ls, n).dirty
      /\ \A n \in 1 .. NumBlocks : n # 1 => FromBack(new, n) = FromBack(ls, n)
  BY <1>2, DataChanged
<1> HIDE DEF new
<1>5. HeldInOrder(new, uses) /\ Clean(new)
  BY <1>2, <1>4 DEF HeldInOrder, Clean
<1>6. Current(new, uses, memory, values)
  <2> SUFFICES ASSUME Len(uses) <= NumBlocks
               PROVE  /\ \A n \in 1 .. Len(uses) : FromBack(new, n).data = values[FromBack(uses, n)]
                      /\ \A q \in PageId : (\A n \in 1 .. Len(uses) : FromBack(uses, n) # q)
                                           => memory[q] = values[q]
    BY DEF Current
  <2>1. ASSUME NEW n \in 1 .. Len(uses)
        PROVE  FromBack(new, n).data = values[FromBack(uses, n)]
    <3>1. CASE n = 1
      BY <1>2, <1>3, <1>4, <3>1
    <3>2. CASE n # 1
      <4>1. n \in 1 .. NumBlocks /\ 1 \in 1 .. Len(uses) /\ NumBlocks \in Nat
        BY <1>2 DEF Parameters
      <4>2. FromBack(uses, n) \in PageId /\ FromBack(uses, n) # p
        BY <1>2, <3>2, <4>1, AtPosition DEF NoneTwice
      <4>3. FromBack(ls, n).data = written[FromBack(uses, n)]
        BY <1>2 DEF Current
      <4> QED BY <1>3, <1>4, <3>2, <4>1, <4>2, <4>3
    <3> QED BY <3>1, <3>2
  <2>2. ASSUME NEW q \in PageId, \A n \in 1 .. Len(uses) : FromBack(uses, n) # q
        PROVE  memory[q] = values[q]
    <3>1. q # p
      BY <1>2, <2>2
    <3> QED BY <1>2, <1>3, <2>2, <3>1 DEF Current
  <2> QED BY <2>1, <2>2
<1>7. /\ memory' \in [PageId -> Value] /\ written' \in [PageId -> Value]
      /\ lines' \in Seq(Line) /\ Len(lines') = NumBlocks
      /\ reply' \in Value \cup {NoReply} /\ recency' \in Seq(PageId)
      /\ HeldInOrder(lines', recency') /\ NoneTwice(recency') /\ Clean(lines')
      /\ Current(lines', recency', memory', written')
  BY <1>1, <1>2, <1>3, <1>4, <1>5, <1>6
<1> QED
  BY <1>7 DEF IInv, HeldInOrder, NoneTwice, Clean, Current, FromBack

LEMMA IInvNext == ASSUME Parameters, IInv, [Next]_vars PROVE IInv'
<1>1. CASE SaveAndLoad
  <2>1. /\ lines' = EmptyLines /\ recency' = <<>> /\ written' = memory
        /\ memory' = memory /\ reply' = reply
    BY <1>1 DEF SaveAndLoad
  <2>2. /\ memory \in [PageId -> Value] /\ reply \in Value \cup {NoReply}
        /\ lines' \in Seq(Line) /\ Len(lines') = NumBlocks
        /\ recency' \in Seq(PageId) /\ NoneTwice(recency')
        /\ HeldInOrder(lines', recency') /\ Clean(lines')
        /\ Current(lines', recency', memory', written')
    BY <2>1, MadeEmpty DEF IInv
  <2> QED BY <2>1, <2>2 DEF IInv, HeldInOrder, NoneTwice, Clean, Current, FromBack
<1>2. ASSUME NEW p \in PageId, Read(p) PROVE IInv'
  BY <1>2, IInvRead
<1>3. ASSUME NEW p \in PageId, NEW v \in Value, Write(p, v) PROVE IInv'
  BY <1>3, IInvWrite
<1>4. CASE UNCHANGED vars
  BY <1>4 DEF vars, IInv, HeldInOrder, NoneTwice, Clean, Current, FromBack
<1> QED
  BY <1>1, <1>2, <1>3, <1>4 DEF Next

LEMMA Invariance == ASSUME Parameters PROVE Spec => []IInv
<1>1. Init => IInv
  BY IInvInit
<1>2. IInv /\ [Next]_vars => IInv'
  BY IInvNext
<1> QED
  BY <1>1, <1>2, PTL DEF Spec

-----------------------------------------------------------------------------
(* Memory and lines hold what their types say. *)
THEOREM TypeCorrect == ASSUME Parameters PROVE Spec => []TypeOK
<1>1. IInv => TypeOK
  BY LinesAreASequence DEF IInv, TypeOK
<1> QED
  BY <1>1, Invariance, PTL

(* access() keeps the list of lines in the order of the last uses of their *)
(* pages, so that a miss always evicts the page that was used least        *)
(* recently, and no page used since the last NumBlocks others.             *)
THEOREM LastUsedPagesHeld == ASSUME Parameters PROVE Spec => []HoldsLastUsedPages
<1>1. ASSUME IInv PROVE HoldsLastUsedPages
  BY <1>1 DEF IInv, HeldInOrder, FromBack, HoldsLastUsedPages
<1> QED
  BY <1>1, Invariance, PTL

(* cache_map can have one line for a page: access() never fetches a page   *)
(* that a valid line holds.                                                *)
NoPageInTwoLines ==
  \A i, j \in 1 .. NumBlocks :
    lines[i].valid /\ lines[j].valid /\ lines[i].page = lines[j].page => i = j

THEOREM OneLineForAPage == ASSUME Parameters PROVE Spec => []NoPageInTwoLines
<1>1. ASSUME IInv, Parameters PROVE NoPageInTwoLines
  <2>1. NumBlocks \in Nat \ {0} /\ Len(lines) = NumBlocks /\ Len(recency) \in Nat
    BY <1>1, LenProperties DEF IInv, Parameters
  <2>2. ASSUME NEW i \in 1 .. NumBlocks, lines[i].valid
        PROVE  /\ NumBlocks + 1 - i \in 1 .. Len(recency)
               /\ lines[i].page = FromBack(recency, NumBlocks + 1 - i)
    <3>1. NumBlocks + 1 - i \in 1 .. NumBlocks /\ NumBlocks + 1 - (NumBlocks + 1 - i) = i
      BY <2>1
    <3>2. FromBack(lines, NumBlocks + 1 - i) = lines[i]
      BY <2>1, <3>1 DEF FromBack
    <3> QED BY <1>1, <2>1, <2>2, <3>1, <3>2 DEF IInv, HeldInOrder
  <2> SUFFICES ASSUME NEW i \in 1 .. NumBlocks, NEW j \in 1 .. NumBlocks,
                      lines[i].valid, lines[j].valid, lines[i].page = lines[j].page
               PROVE  i = j
    BY DEF NoPageInTwoLines
  <2>3. NumBlocks + 1 - i = NumBlocks + 1 - j
    <3>1. /\ NumBlocks + 1 - i \in 1 .. Len(recency) /\ NumBlocks + 1 - j \in 1 .. Len(recency)
          /\ FromBack(recency, NumBlocks + 1 - i) = FromBack(recency, NumBlocks + 1 - j)
      BY <2>2
    <3> QED BY <1>1, <3>1 DEF IInv, NoneTwice
  <2> QED BY <2>1, <2>3
<1> QED
  BY <1>1, Invariance, PTL

(* access() sets no line dirty, so it never writes to the memory behind    *)
(* the cache: whatever was written, the memory stays as it was.            *)
MemoryStays == [][UNCHANGED memory]_vars

THEOREM NothingWrittenBack == ASSUME Parameters PROVE Spec => MemoryStays
<1>1. ASSUME IInv, [Next]_vars PROVE [UNCHANGED memory]_vars
  <2>1. ASSUME NEW p \in PageId, Use(p) PROVE memory' = memory
    BY <1>1, <2>1, NothingToWriteBack DEF Use
  <2> QED BY <1>1, <2>1 DEF Next, Read, Write, SaveAndLoad, vars
<1> QED
  BY <1>1, Invariance, PTL DEF Spec, MemoryStays

(* What isBacked() promises of reads holds as long as no more pages are    *)
(* used than the cache has lines.                                          *)
ReadsBackUntilFull ==
  [][\A p \in PageId : Read(p) /\ Len(recency') <= NumBlocks => reply' = written[p]]_vars

THEOREM WritesReflectedUntilFull == ASSUME Parameters PROVE Spec => ReadsBackUntilFull
<1> DEFINE Reads == \A p \in PageId : Read(p) /\ Len(recency') <= NumBlocks => reply' = written[p]
<1>1. ASSUME IInv, [Next]_vars PROVE [Reads]_vars
  BY <1>1, IInvRead
<1> QED
  BY <1>1, Invariance, PTL DEF Spec, ReadsBackUntilFull

-----------------------------------------------------------------------------
(* Numbers and orders. *)

(* Every set of naturals but the empty one has a least element. *)
LEMMA LeastOfNat ==
  ASSUME NEW S, S \subseteq Nat, S # {}
  PROVE  \E i \in S : \A j \in S : i <= j
<1>1. IsWellFoundedOn(OpToRel(<, Nat), Nat)
  BY NatLessThanWellFounded
<1>2. PICK x \in S : \A y \in S : <<y, x>> \notin OpToRel(<, Nat)
  BY <1>1, WFMin
<1>3. \A y \in S : ~(y < x)
  BY <1>2 DEF OpToRel
<1> QED
  BY <1>3

(* Induction over 0 .. n, for a set. *)
LEMMA PrefixInduction ==
  ASSUME NEW n \in Nat, NEW S, 0 \in S,
         \A k \in 0 .. n - 1 : k \in S => k + 1 \in S
  PROVE  \A k \in 0 .. n : k \in S
<1> DEFINE Missing == { k \in 0 .. n : k \notin S }
<1>1. SUFFICES ASSUME Missing # {} PROVE FALSE
  OBVIOUS
<1>2. PICK x \in Missing : \A y \in Missing : x <= y
  <2>1. Missing \subseteq Nat
    OBVIOUS
  <2> HIDE DEF Missing
  <2> QED BY <1>1, <2>1, LeastOfNat
<1>3. x - 1 \in 0 .. n - 1 /\ x - 1 \in S
  <2>1. x \in 0 .. n /\ x \notin S /\ x # 0
    BY <1>2
  <2>2. x - 1 \in 0 .. n - 1 /\ ~(x <= x - 1)
    BY <2>1
  <2>3. x - 1 \notin Missing
    BY <1>2, <2>2
  <2> QED BY <2>2, <2>3
<1> QED
  BY <1>2, <1>3

-----------------------------------------------------------------------------
(* Batches in an order. *)

(* The answer of a request to cells: what a READ reads, and what a WRITE has. *)
AnswerOf(r, cells) == IF r.type = "READ" THEN DataRead(cells, r) ELSE r.data

(* The requests at the n places of s, done one after the other, lead from   *)
(* start to cells and have the answers in data.                             *)
Listed(n, s, start, requests, cells, data) ==
  \E c :
    /\ c[0] = start /\ c[n] = cells
    /\ \A k \in 1 .. n : /\ c[k] = AfterWrite(c[k - 1], requests[s[k]])
                         /\ data[s[k]] = AnswerOf(requests[s[k]], c[k - 1])

(* So do the requests at the places of P in some order. *)
Ordered(P, start, requests, cells, data) ==
  \E n \in Nat : \E s \in [1 .. n -> P] :
    /\ \A i, j \in 1 .. n : i # j => s[i] # s[j]
    /\ \A p \in P : \E i \in 1 .. n : s[i] = p
    /\ Listed(n, s, start, requests, cells, data)

LEMMA NoneOrdered ==
  ASSUME NEW start, NEW requests, NEW data
  PROVE  Ordered({}, start, requests, start, data)
<1> DEFINE s == [i \in 1 .. 0 |-> 0]
           c == [i \in 0 .. 0 |-> start]
<1>1. s \in [1 .. 0 -> {}] /\ 1 .. 0 = {}
  OBVIOUS
<1>2. Listed(0, s, start, requests, start, data)
  <2>1. c[0] = start
    OBVIOUS
  <2> HIDE DEF c
  <2> QED BY <1>1, <2>1 DEF Listed
<1> HIDE DEF s
<1>3. /\ \A i, j \in 1 .. 0 : i # j => s[i] # s[j]
      /\ \A p \in {} : \E i \in 1 .. 0 : s[i] = p
  BY <1>1
<1> QED
  BY <1>1, <1>2, <1>3 DEF Ordered

(* One request more, done after the others. *)
LEMMA OneMoreOrdered ==
  ASSUME NEW P, NEW start, NEW requests, NEW cells, NEW data, NEW d,
         d \notin P, Ordered(P, start, requests, cells, data),
         data[d] = AnswerOf(requests[d], cells)
  PROVE  Ordered(P \cup {d}, start, requests, AfterWrite(cells, requests[d]), data)
<1>1. PICK n \in Nat : \E s \in [1 .. n -> P] :
        /\ \A i, j \in 1 .. n : i # j => s[i] # s[j]
        /\ \A p \in P : \E i \in 1 .. n : s[i] = p
        /\ Listed(n, s, start, requests, cells, data)
  BY DEF Ordered
<1>2. PICK s \in [1 .. n -> P] :
        /\ \A i, j \in 1 .. n : i # j => s[i] # s[j]
        /\ \A p \in P : \E i \in 1 .. n : s[i] = p
        /\ Listed(n, s, start, requests, cells, data)
  BY <1>1
<1>3. PICK c : /\ c[0] = start /\ c[n] = cells
               /\ \A k \in 1 .. n : /\ c[k] = AfterWrite(c[k - 1], requests[s[k]])
                                    /\ data[s[k]] = AnswerOf(requests[s[k]], c[k - 1])
  BY <1>2 DEF Listed
<1> DEFINE after == AfterWrite(cells, requests[d])
           t == [i \in 1 .. n + 1 |-> IF i = n + 1 THEN d ELSE s[i]]
           e == [k \in 0 .. n + 1 |-> IF k = n + 1 THEN after ELSE c[k]]
<1>4. /\ t \in [1 .. n + 1 -> P \cup {d}]
      /\ t[n + 1] = d /\ \A i \in 1 .. n : t[i] = s[i] /\ t[i] \in P
      /\ e[n + 1] = after /\ \A k \in 0 .. n : e[k] = c[k]
  BY <1>2
<1> HIDE DEF t, e, after
<1>5. ASSUME NEW i \in 1 .. n + 1, NEW j \in 1 .. n + 1, i # j
      PROVE  t[i] # t[j]
  <2>1. CASE i \in 1 .. n /\ j \in 1 .. n
    BY <1>2, <1>4, <1>5, <2>1
  <2>2. CASE i = n + 1 \/ j = n + 1
    BY <1>4, <1>5, <2>2
  <2> QED BY <2>1, <2>2
<1>6. ASSUME NEW p \in P \cup {d}
      PROVE  \E i \in 1 .. n + 1 : t[i] = p
  <2>1. CASE p = d
    BY <1>4, <2>1
  <2>2. CASE p \in P
    <3>1. PICK i \in 1 .. n : s[i] = p
      BY <1>2, <2>2
    <3> QED BY <1>4, <3>1
  <2> QED BY <2>1, <2>2
<1>7. ASSUME NEW k \in 1 .. n + 1
      PROVE  /\ e[k] = AfterWrite(e[k - 1], requests[t[k]])
             /\ data[t[k]] = AnswerOf(requests[t[k]], e[k - 1])
  <2>1. CASE k = n + 1
    <3>1. k - 1 = n /\ n \in 0 .. n
      BY <2>1
    <3>2. e[k] = after /\ e[k - 1] = cells /\ t[k] = d
      BY <1>3, <1>4, <2>1, <3>1
    <3> QED BY <3>2 DEF after
  <2>2. CASE k # n + 1
    <3>1. k \in 1 .. n /\ k \in 0 .. n /\ k - 1 \in 0 .. n
      BY <2>2
    <3>2. e[k] = c[k] /\ e[k - 1] = c[k - 1] /\ t[k] = s[k]
      BY <1>4, <3>1
    <3> QED BY <1>3, <3>1, <3>2
  <2> QED BY <2>1, <2>2
<1>8. Listed(n + 1, t, start, requests, after, data)
  <2>1. e[0] = start /\ e[n + 1] = after
    BY <1>3, <1>4
  <2> QED BY <1>7, <2>1 DEF Listed
<1>9. n + 1 \in Nat
  OBVIOUS
<1> QED
  BY <1>4, <1>5, <1>6, <1>8, <1>9 DEF Ordered, after

(* What a READ brings is no part of the request. *)
SameRequest(q, r) ==
  /\ q.type = r.type /\ q.address = r.address /\ q.size = r.size
  /\ q.type # "READ" => q.data = r.data

LEMMA SameDone ==
  ASSUME NEW q, NEW r, SameRequest(q, r), NEW cells
  PROVE  AfterWrite(cells, q) = AfterWrite(cells, r) /\ AnswerOf(q, cells) = AnswerOf(r, cells)
BY DEF SameRequest, AfterWrite, AnswerOf, DataRead, CellsOf

LEMMA SameOrdered ==
  ASSUME NEW P, NEW start, NEW requests, NEW others, NEW cells, NEW data, NEW answers,
         Ordered(P, start, requests, cells, data),
         \A p \in P : SameRequest(requests[p], others[p]) /\ data[p] = answers[p]
  PROVE  Ordered(P, start, others, cells, answers)
<1>1. PICK n \in Nat : \E s \in [1 .. n -> P] :
        /\ \A i, j \in 1 .. n : i # j => s[i] # s[j]
        /\ \A p \in P : \E i \in 1 .. n : s[i] = p
        /\ Listed(n, s, start, requests, cells, data)
  BY DEF Ordered
<1>2. PICK s \in [1 .. n -> P] :
        /\ \A i, j \in 1 .. n : i # j => s[i] # s[j]
        /\ \A p \in P : \E i \in 1 .. n : s[i] = p
        /\ Listed(n, s, start, requests, cells, data)
  BY <1>1
<1>3. PICK c : /\ c[0] = start /\ c[n] = cells
               /\ \A k \in 1 .. n : /\ c[k] = AfterWrite(c[k - 1], requests[s[k]])
                                    /\ data[s[k]] = AnswerOf(requests[s[k]], c[k - 1])
  BY <1>2 DEF Listed
<1>4. ASSUME NEW k \in 1 .. n
      PROVE  /\ c[k] = AfterWrite(c[k - 1], others[s[k]])
             /\ answers[s[k]] = AnswerOf(others[s[k]], c[k - 1])
  <2>1. s[k] \in P
    OBVIOUS
  <2> QED BY <1>3, <2>1, SameDone
<1>5. Listed(n, s, start, others, cells, answers)
  BY <1>3, <1>4 DEF Listed
<1> QED
  BY <1>2, <1>5 DEF Ordered

(* c[k] is what the cells are after the first k of n requests. *)
Follows(c, start, requests, n) ==
  c[0] = start /\ \A k \in 1 .. n : c[k] = AfterWrite(c[k - 1], requests[k])

(* The recursion of CellsAfter, once there is a function that satisfies it. *)
LEMMA CellsAfterIs ==
  ASSUME NEW start, NEW requests, NEW n \in Nat, Len(requests) = n, NEW c,
         Follows(c, start, requests, n)
  PROVE  \A k \in 0 .. n : CellsAfter(start, requests)[k] = c[k]
<1> DEFINE f == CellsAfter(start, requests)
           g == [k \in 0 .. n |-> c[k]]
<1>0. c[0] = start /\ \A k \in 1 .. n : c[k] = AfterWrite(c[k - 1], requests[k])
  BY DEF Follows
<1>1. g = [k \in 0 .. n |-> IF k = 0 THEN start ELSE AfterWrite(g[k - 1], requests[k])]
  <2>1. ASSUME NEW k \in 0 .. n
        PROVE  c[k] = IF k = 0 THEN start ELSE AfterWrite(g[k - 1], requests[k])
    <3>1. CASE k = 0
      BY <1>0, <3>1
    <3>2. CASE k # 0
      <4>1. k \in 1 .. n /\ k - 1 \in 0 .. n
        BY <3>2
      <4>2. g[k - 1] = c[k - 1]
        BY <4>1
      <4> HIDE DEF g
      <4> QED BY <1>0, <3>2, <4>1, <4>2
    <3> QED BY <3>1, <3>2
  <2> QED BY <2>1
<1>2. f = [k \in 0 .. n |-> IF k = 0 THEN start ELSE AfterWrite(f[k - 1], requests[k])]
  <2> HIDE DEF g
  <2> QED BY <1>1 DEF CellsAfter
<1> HIDE DEF f, g
<1>3. \A k \in 0 .. n : f[k] = IF k = 0 THEN start ELSE AfterWrite(f[k - 1], requests[k])
  BY <1>2
<1> DEFINE S == { k \in 0 .. n : f[k] = c[k] }
<1>4. 0 \in S
  BY <1>0, <1>3
<1>5. ASSUME NEW k \in 0 .. n - 1, k \in S PROVE k + 1 \in S
  <2>1. k + 1 \in 1 .. n /\ k + 1 \in 0 .. n /\ (k + 1) - 1 = k /\ k + 1 # 0
    OBVIOUS
  <2>2. f[k] = c[k]
    BY <1>5
  <2>3. f[k + 1] = AfterWrite(f[k], requests[k + 1]) /\ c[k + 1] = AfterWrite(c[k], requests[k + 1])
    BY <1>0, <1>3, <2>1
  <2> QED BY <2>1, <2>2, <2>3
<1>6. \A k \in 0 .. n : k \in S
  <2> HIDE DEF S
  <2> QED BY <1>4, <1>5, PrefixInduction
<1> QED
  BY <1>6 DEF f

(* An order of all requests is one that InSomeOrder asks for. *)
LEMMA OrderedInSomeOrder ==
  ASSUME NEW start, NEW requests, NEW m \in Nat, Len(requests) = m, NEW cells, NEW data,
         Ordered(1 .. m, start, requests, cells, data)
  PROVE  InSomeOrder(start, requests, cells, data)
<1>1. PICK n \in Nat : \E s \in [1 .. n -> 1 .. m] :
        /\ \A i, j \in 1 .. n : i # j => s[i] # s[j]
        /\ \A p \in 1 .. m : \E i \in 1 .. n : s[i] = p
        /\ Listed(n, s, start, requests, cells, data)
  BY DEF Ordered
<1>2. PICK s \in [1 .. n -> 1 .. m] :
        /\ \A i, j \in 1 .. n : i # j => s[i] # s[j]
        /\ \A p \in 1 .. m : \E i \in 1 .. n : s[i] = p
        /\ Listed(n, s, start, requests, cells, data)
  BY <1>1
<1>3. n = m /\ Cardinality(1 .. m) = m
  <2>1. s \in Bijection(1 .. n, 1 .. m)
    <3>1. \A i, j \in 1 .. n : s[i] = s[j] => i = j
      BY <1>2
    <3> QED BY <1>2, <3>1, Fun_IsBij
  <2>2. ExistsBijection(1 .. n, 1 .. m)
    BY <2>1 DEF ExistsBijection
  <2>3. Cardinality(1 .. m) = n
    BY <2>2, FS_CountingElements
  <2>4. Cardinality(1 .. m) = m
    <3>1. 1 \in Int /\ m \in Int
      OBVIOUS
    <3>2. Cardinality(1 .. m) = IF 1 > m THEN 0 ELSE m - 1 + 1
      BY <3>1, FS_Interval
    <3> QED BY <3>2
  <2> QED BY <2>3, <2>4
<1>4. PICK c : /\ c[0] = start /\ c[m] = cells
               /\ \A k \in 1 .. m : /\ c[k] = AfterWrite(c[k - 1], requests[s[k]])
                                    /\ data[s[k]] = AnswerOf(requests[s[k]], c[k - 1])
  <2>1. Listed(m, s, start, requests, cells, data)
    BY <1>2, <1>3
  <2> QED BY ONLY <2>1 DEF Listed
<1>5. s \in SetToSeqs(1 .. m)
  BY <1>2, <1>3 DEF SetToSeqs
<1> DEFINE listed == [i \in 1 .. m |-> requests[s[i]]]
           after == CellsAfter(start, listed)
<1>6. Len(listed) = m /\ \A i \in 1 .. m : listed[i] = requests[s[i]]
  OBVIOUS
<1> HIDE DEF listed
<1>7. \A k \in 0 .. m : after[k] = c[k]
  <2>1. Follows(c, start, listed, m)
    BY <1>4, <1>6 DEF Follows
  <2> QED BY <1>6, <2>1, CellsAfterIs
<1> HIDE DEF after
<1>8. InOrder(start, listed).cells = cells
  BY <1>4, <1>6, <1>7 DEF InOrder, after
<1>9. ASSUME NEW i \in 1 .. m
      PROVE  InOrder(start, listed).data[i] = data[s[i]]
  <2>1. i - 1 \in 0 .. m
    OBVIOUS
  <2>2. InOrder(start, listed).data[i]
          = IF listed[i].type = "READ" THEN DataRead(after[i - 1], listed[i]) ELSE listed[i].data
    BY <1>6 DEF InOrder, after
  <2> QED BY <1>4, <1>6, <1>7, <2>1, <2>2 DEF AnswerOf
<1> QED
  BY <1>5, <1>8, <1>9 DEF InSomeOrder, listed

-----------------------------------------------------------------------------
(* The n-th of a set of places.                                             *)
Rank(P, p) == Cardinality({ q \in P : q <= p })

LEMMA NthExists ==
  ASSUME NEW m \in Nat, NEW P, P \subseteq 1 .. m, NEW n \in 1 .. Cardinality(P)
  PROVE  \E p \in P : Rank(P, p) = n
<1> DEFINE R(p) == { q \in P : q <= p }
           S == { p \in Nat : n <= Cardinality(R(p)) }
<1>1. IsFiniteSet(P) /\ Cardinality(P) \in Nat
  <2>1. 1 \in Int /\ m \in Int /\ IsFiniteSet(1 .. m)
    BY FS_Interval
  <2> QED BY <2>1, FS_Subset, FS_CardinalityType
<1>2. \A p \in Nat : IsFiniteSet(R(p)) /\ Cardinality(R(p)) \in Nat
  <2>1. \A p \in Nat : R(p) \subseteq P
    OBVIOUS
  <2> QED BY <1>1, <2>1, FS_Subset, FS_CardinalityType
<1>3. S \subseteq Nat /\ m \in S
  <2>1. R(m) = P
    <3>1. \A q \in P : q <= m
      OBVIOUS
    <3> QED BY <3>1
  <2> QED BY <2>1
<1>4. PICK p \in S : \A r \in S : p <= r
  <2> HIDE DEF S
  <2> QED BY <1>3, LeastOfNat
<1>5. p \in Nat /\ n <= Cardinality(R(p))
  BY <1>4
<1>6. p # 0
  <2>1. R(0) = {}
    <3>1. \A q \in P : ~(q <= 0)
      OBVIOUS
    <3> QED BY <3>1
  <2>2. Cardinality(R(0)) = 0
    BY <2>1, FS_EmptySet
  <2> HIDE DEF R
  <2> QED BY <1>5, <2>2
<1>7. p - 1 \in Nat /\ ~(n <= Cardinality(R(p - 1)))
  <2>1. p - 1 \in Nat /\ ~(p <= p - 1)
    BY <1>5, <1>6
  <2>2. p - 1 \notin S
    BY <1>4, <2>1
  <2> QED BY <2>1, <2>2
<1>8. R(p) = IF p \in P THEN R(p - 1) \cup {p} ELSE R(p - 1)
  <2>1. \A q \in P : q <= p <=> q = p \/ q <= p - 1
    BY <1>5
  <2> QED BY <2>1
<1>9. p \notin R(p - 1)
  BY <1>5
<1> HIDE DEF R, S
<1>10. p \in P
  BY <1>5, <1>7, <1>8
<1>11. Cardinality(R(p)) = Cardinality(R(p - 1)) + 1
  BY <1>2, <1>7, <1>8, <1>9, <1>10, FS_AddElement
<1>12. Cardinality(R(p)) = n
  BY <1>2, <1>5, <1>7, <1>11
<1> QED
  BY <1>10, <1>12 DEF R, Rank


LEMMA RankFacts ==
  ASSUME NEW m \in Nat, NEW P, P \subseteq 1 .. m
  PROVE  /\ Cardinality(P) \in Nat
         /\ \A p \in P : Rank(P, p) \in 1 .. Cardinality(P)
         /\ \A p, q \in P : Rank(P, p) = Rank(P, q) => p = q
<1> DEFINE R(p) == { q \in P : q <= p }
<1>1. IsFiniteSet(P) /\ Cardinality(P) \in Nat
  <2>1. 1 \in Int /\ m \in Int /\ IsFiniteSet(1 .. m)
    BY FS_Interval
  <2> QED BY <2>1, FS_Subset, FS_CardinalityType
<1>2. ASSUME NEW p \in P
      PROVE  /\ IsFiniteSet(R(p)) /\ Cardinality(R(p)) \in Nat \ {0}
             /\ Cardinality(R(p)) <= Cardinality(P)
  <2>1. R(p) \subseteq P /\ p \in R(p)
    OBVIOUS
  <2> HIDE DEF R
  <2>2. /\ IsFiniteSet(R(p)) /\ Cardinality(R(p)) <= Cardinality(P)
        /\ Cardinality(R(p)) \in Nat
    BY <1>1, <2>1, FS_Subset, FS_CardinalityType
  <2>3. Cardinality(R(p)) # 0
    BY <2>1, <2>2, FS_EmptySet
  <2> QED BY <2>2, <2>3
<1>3. ASSUME NEW p \in P, NEW q \in P, p < q
      PROVE  Cardinality(R(p)) < Cardinality(R(q))
  <2>1. q \notin R(p) /\ R(p) \cup {q} \subseteq R(q)
    <3>1. P \subseteq Nat /\ p \in Nat /\ q \in Nat
      OBVIOUS
    <3>2. ~(q <= p) /\ q <= q /\ \A x \in Nat : x <= p => x <= q
      BY <1>3, <3>1
    <3> QED BY <3>1, <3>2
  <2> HIDE DEF R
  <2>2. Cardinality(R(p) \cup {q}) = Cardinality(R(p)) + 1
    BY <1>2, <2>1, FS_AddElement
  <2>3. Cardinality(R(p) \cup {q}) <= Cardinality(R(q))
    BY <1>2, <2>1, FS_Subset
  <2> QED BY <1>2, <2>2, <2>3
<1>4. \A p, q \in P : R(p) = R(q) => Cardinality(R(p)) = Cardinality(R(q))
  OBVIOUS
<1>5. ASSUME NEW p \in P, NEW q \in P, Cardinality(R(p)) = Cardinality(R(q))
      PROVE  p = q
  <2>1. p \in Nat /\ q \in Nat
    OBVIOUS
  <2>2. ~(p < q) /\ ~(q < p)
    <3> HIDE DEF R
    <3> QED BY <1>2, <1>3, <1>5
  <2> QED BY <2>1, <2>2
<1> HIDE DEF R
<1>6. \A p : Rank(P, p) = Cardinality(R(p))
  BY DEF Rank, R
<1> QED
  BY <1>1, <1>2, <1>5, <1>6

-----------------------------------------------------------------------------
(* One request of a page. *)

LEMMA OnePage ==
  ASSUME NEW D \in SUBSET Int, NEW V, NEW cells \in [D -> V], NEW r,
         r.size = 1, r.address \in Int
  PROVE  /\ DataRead(cells, r) = [i \in {0} |-> cells[r.address]]
         /\ r.type = "READ" \/ r.address \notin D => AfterWrite(cells, r) = cells
         /\ r.type # "READ" => AfterWrite(cells, r) = [cells EXCEPT ![r.address] = r.data[0]]
<1>1. 0 .. r.size - 1 = {0} /\ CellsOf(r) = {r.address} /\ r.address + 0 = r.address
  BY DEF CellsOf
<1>2. DataRead(cells, r) = [i \in {0} |-> cells[r.address]]
  BY <1>1 DEF DataRead
<1>3. ASSUME r.type # "READ"
      PROVE  AfterWrite(cells, r) = [cells EXCEPT ![r.address] = r.data[0]]
  <2>1. r.address - r.address = 0 /\ DOMAIN cells = D
    OBVIOUS
  <2>2. AfterWrite(cells, r) = [a \in D |-> IF a = r.address THEN r.data[0] ELSE cells[a]]
    BY <1>1, <1>3, <2>1 DEF AfterWrite
  <2> QED BY <2>2
<1>4. ASSUME r.type = "READ" \/ r.address \notin D
      PROVE  AfterWrite(cells, r) = cells
  <2>1. CASE r.type = "READ"
    BY <2>1 DEF AfterWrite
  <2>2. CASE r.type # "READ" /\ r.address \notin D
    BY <1>3, <2>2
  <2> QED BY <1>4, <2>1, <2>2
<1> QED
  BY <1>2, <1>3, <1>4

LEMMA CellsExist ==
  ASSUME NEW start, NEW requests, NEW n \in Nat
  PROVE  \E c : Follows(c, start, requests, n)
<1> DEFINE Upto(m) == \E c : Follows(c, start, requests, m)
           S == { m \in 0 .. n : Upto(m) }
<1>1. 0 \in S
  <2> DEFINE c == [k \in {0} |-> start]
  <2>1. c[0] = start /\ 1 .. 0 = {}
    OBVIOUS
  <2> HIDE DEF c
  <2> QED BY <2>1 DEF Follows
<1>2. ASSUME NEW m \in 0 .. n - 1, m \in S PROVE m + 1 \in S
  <2>1. PICK c : c[0] = start /\ \A k \in 1 .. m : c[k] = AfterWrite(c[k - 1], requests[k])
    BY <1>2 DEF Follows
  <2> DEFINE e == [k \in 0 .. m + 1 |-> IF k = m + 1 THEN AfterWrite(c[m], requests[m + 1]) ELSE c[k]]
  <2>2. e[m + 1] = AfterWrite(c[m], requests[m + 1]) /\ \A k \in 0 .. m : e[k] = c[k]
    OBVIOUS
  <2> HIDE DEF e
  <2>3. ASSUME NEW k \in 1 .. m + 1 PROVE e[k] = AfterWrite(e[k - 1], requests[k])
    <3>1. CASE k = m + 1
      <4>1. k - 1 = m /\ m \in 0 .. m
        BY <3>1
      <4> QED BY <2>2, <3>1, <4>1
    <3>2. CASE k # m + 1
      <4>1. k \in 1 .. m /\ k \in 0 .. m /\ k - 1 \in 0 .. m
        BY <3>2
      <4> QED BY <2>1, <2>2, <4>1
    <3> QED BY <3>1, <3>2
  <2>4. e[0] = start
    BY <2>1, <2>2
  <2>5. Follows(e, start, requests, m + 1)
    BY <2>3, <2>4 DEF Follows
  <2> QED BY <2>5
<1>3. n \in S
  <2> HIDE DEF S
  <2> QED BY <1>1, <1>2, PrefixInduction
<1> QED
  BY <1>3

-----------------------------------------------------------------------------
(* BlockDiskMemory. *)

LEMMA AsyncOrder ==
  /\ \A cells, r : /\ Async!AfterWrite(cells, r) = AfterWrite(cells, r)
                   /\ Async!DataRead(cells, r) = DataRead(cells, r)
  /\ \A start, requests : Async!CellsAfter(start, requests) = CellsAfter(start, requests)
  /\ \A start, requests, cells, data :
       InSomeOrder(start, requests, cells, data) => Async!InSomeOrder(start, requests, cells, data)
  /\ \A S : Async!Cardinality(S) = Cardinality(S)
<1>1. \A S : Async!Cardinality(S) = Cardinality(S)
  BY DEF Async!Cardinality, Cardinality
<1>2. \A cells, r : /\ Async!AfterWrite(cells, r) = AfterWrite(cells, r)
                    /\ Async!DataRead(cells, r) = DataRead(cells, r)
  BY DEF Async!AfterWrite, Async!DataRead, Async!CellsOf, AfterWrite, DataRead, CellsOf
<1>3. \A start, requests : Async!CellsAfter(start, requests) = CellsAfter(start, requests)
  BY <1>2 DEF Async!CellsAfter, CellsAfter
<1>4. \A start, requests : Async!InOrder(start, requests) = InOrder(start, requests)
  BY <1>2, <1>3 DEF Async!InOrder, InOrder
<1>5. \A S : Async!SetToSeqs(S) = SetToSeqs(S)
  BY <1>1 DEF Async!SetToSeqs, SetToSeqs
<1>6. \A start, requests, cells, data :
        InSomeOrder(start, requests, cells, data) => Async!InSomeOrder(start, requests, cells, data)
  BY <1>4, <1>5 DEF Async!InSomeOrder, InSomeOrder
<1> QED
  BY <1>1, <1>2, <1>3, <1>6

(* Requests as they are while a batch is under way. *)
Record == [type : {"READ", "WRITE"}, address : Async!Page, size : {1}, data : [{0} -> Value]]

(* The places of the requests that are not for the pages cached in c. *)
OutOf(c, requests) == { i \in 1 .. Len(requests) : requests[i].address \notin DOMAIN c }

AllPages(c, f) == [p \in Async!Page |-> IF p \in DOMAIN c THEN c[p] ELSE f[p]]

(* The requests, of which those at U go to the kernel and fl are in flight, *)
(* that are done, and what they brought.                                    *)
DoneOf(requests, U, fl) == { i \in 1 .. Len(requests) : i \in U => Rank(U, i) \notin fl }

Brings(requests, U, b) ==
  [i \in 1 .. Len(requests) |->
     IF requests[i].type = "READ" /\ i \in U THEN [j \in {0} |-> b[Rank(U, i)]]
     ELSE requests[i].data]

AsyncTypes(f, c, ph, requests, b, fl, bef) ==
  /\ f \in [Async!Page -> Value] /\ bef \in [Async!Page -> Value]
  /\ \E n \in 0 .. NumPages : c \in [0 .. n - 1 -> Value]
  /\ ph \in {"idle", "submitted"}
  /\ \E m \in Nat : requests \in [1 .. m -> Record]
  /\ b \in [1 .. Cardinality(OutOf(c, requests)) -> Value]
  /\ fl \subseteq 1 .. Cardinality(OutOf(c, requests))

(* A WRITE in flight has its page of the buffer; what is done, was done in  *)
(* some order, and a READ that is done has in its page what it read.        *)
AsyncInv(f, c, ph, requests, b, fl, bef) ==
  LET U == OutOf(c, requests)
  IN  /\ AsyncTypes(f, c, ph, requests, b, fl, bef)
      /\ \A i \in U : Rank(U, i) \in fl /\ requests[i].type # "READ"
                        => b[Rank(U, i)] = requests[i].data[0]
      /\ Ordered(DoneOf(requests, U, fl), bef, requests, AllPages(c, f), Brings(requests, U, b))
      /\ ph = "idle" => /\ fl = {}
                        /\ \A i \in 1 .. Len(requests) : requests[i].data = Brings(requests, U, b)[i]

AsyncIInv == AsyncInv(file, cache, phase, batch, buffer, inFlight, before)

LEMMA AsyncUncached ==
  ASSUME NEW requests
  PROVE  Async!Uncached(requests) = OutOf(cache, requests)
BY DEF Async!Uncached, Async!IsCached, OutOf

LEMMA OutOfInterval ==
  ASSUME NEW c, NEW m \in Nat, NEW requests \in [1 .. m -> Record]
  PROVE  /\ Len(requests) = m /\ requests \in Seq(Record)
         /\ OutOf(c, requests) \subseteq 1 .. m
BY DEF OutOf

LEMMA AsyncPlaceOf ==
  ASSUME NEW m \in Nat, NEW requests \in [1 .. m -> Record],
         NEW n \in 1 .. Cardinality(OutOf(cache, requests))
  PROVE  /\ Async!PlaceOf(n, requests) \in OutOf(cache, requests)
         /\ Rank(OutOf(cache, requests), Async!PlaceOf(n, requests)) = n
<1> DEFINE U == OutOf(cache, requests)
<1>1. U \subseteq 1 .. m
  BY OutOfInterval
<1>2. Async!PlaceOf(n, requests) = CHOOSE i \in U : Rank(U, i) = n
  BY AsyncUncached, AsyncOrder DEF Async!PlaceOf, Rank
<1>3. \E i \in U : Rank(U, i) = n
  <2> HIDE DEF U
  <2> QED BY <1>1, NthExists DEF U
<1> QED
  BY <1>2, <1>3

LEMMA AsyncBufferOf ==
  ASSUME NEW i
  PROVE  Async!BufferOf(i) = Rank(OutOf(cache, batch), i)
BY AsyncUncached, AsyncOrder DEF Async!BufferOf, Rank

(* Pages are in the file or in the cache. *)
LEMMA PagesTyped ==
  ASSUME NEW f \in [Async!Page -> Value], NEW n \in 0 .. NumPages, NumPages \in Nat,
         NEW c \in [0 .. n - 1 -> Value]
  PROVE  AllPages(c, f) \in [Async!Page -> Value]
<1>1. \A p \in Async!Page : (IF p \in DOMAIN c THEN c[p] ELSE f[p]) \in Value
  OBVIOUS
<1> QED
  BY <1>1 DEF AllPages

LEMMA AsyncContents == Async!Contents = AllPages(cache, file)
BY DEF Async!Contents, AllPages

LEMMA AsyncInitInv ==
  ASSUME Async!Parameters, Async!Init
  PROVE  AsyncIInv
<1>1. /\ file \in [Async!Page -> Value] /\ before = file
      /\ cache = [p \in 0 .. CachedPages - 1 |-> file[p]]
      /\ phase = "idle" /\ batch = << >> /\ buffer = << >> /\ inFlight = {}
      /\ NumPages \in Nat /\ CachedPages \in 0 .. NumPages
  BY DEF Async!Init, Async!Parameters
<1>2. cache \in [0 .. CachedPages - 1 -> Value]
  <2>1. \A p \in 0 .. CachedPages - 1 : p \in Async!Page
    BY <1>1 DEF Async!Page
  <2> QED BY <1>1, <2>1
<1>3. Len(batch) = 0 /\ batch \in [1 .. 0 -> Record] /\ 1 .. 0 = {}
  BY <1>1
<1>4. OutOf(cache, batch) = {}
  BY <1>3 DEF OutOf
<1>5. Cardinality(OutOf(cache, batch)) = 0 /\ buffer \in [1 .. 0 -> Value]
  <2>1. buffer \in [1 .. 0 -> Value]
    BY <1>1
  <2>2. Cardinality(OutOf(cache, batch)) = 0
    BY <1>4, FS_EmptySet
  <2> QED BY <2>1, <2>2
<1>6. AllPages(cache, file) = before
  BY <1>1 DEF AllPages
<1>7. DoneOf(batch, {}, inFlight) = {}
  BY <1>3 DEF DoneOf
<1>8. Ordered({}, before, batch, before, Brings(batch, {}, buffer))
  BY NoneOrdered
<1>9. AsyncTypes(file, cache, phase, batch, buffer, inFlight, before)
  BY <1>1, <1>2, <1>3, <1>5 DEF AsyncTypes
<1> QED
  BY <1>1, <1>3, <1>4, <1>6, <1>7, <1>8, <1>9 DEF AsyncIInv, AsyncInv

(* The requests for cached pages are done in the order of the batch, and    *)
(* those for other pages are passed over.                                   *)
LEMMA CachedOrdered ==
  ASSUME NumPages \in Nat, NEW n \in 0 .. NumPages, NEW m \in Nat,
         NEW start \in [0 .. n - 1 -> Value], NEW f \in [Async!Page -> Value],
         NEW requests \in [1 .. m -> Record], NEW data, NEW c,
         Follows(c, start, requests, m),
         \A k \in 1 .. m : k \notin OutOf(start, requests) => data[k] = AnswerOf(requests[k], c[k - 1])
  PROVE  /\ \A k \in 0 .. m : c[k] \in [0 .. n - 1 -> Value]
         /\ Ordered((1 .. m) \ OutOf(start, requests), AllPages(start, f), requests,
                    AllPages(c[m], f), data)
<1> DEFINE U == OutOf(start, requests)
           D == 0 .. n - 1
           P(k) == { i \in 1 .. k : i \notin U }
           S == { k \in 0 .. m : /\ c[k] \in [D -> Value]
                                 /\ Ordered(P(k), AllPages(start, f), requests, AllPages(c[k], f), data) }
<1>1. D \in SUBSET Int /\ D \subseteq Async!Page /\ Async!Page \subseteq Int
      /\ Len(requests) = m
  BY DEF Async!Page
<1>2. 0 \in S
  <2>0. c[0] = start
    BY DEF Follows
  <2>1. P(0) = {} /\ c[0] \in [D -> Value]
    BY <2>0
  <2>2. Ordered({}, AllPages(start, f), requests, AllPages(start, f), data)
    BY NoneOrdered
  <2>3. Ordered(P(0), AllPages(start, f), requests, AllPages(c[0], f), data)
    <3> HIDE DEF P
    <3> QED BY <2>0, <2>1, <2>2
  <2> HIDE DEF P, U, D
  <2> QED BY <2>1, <2>3
<1>3. ASSUME NEW k \in 0 .. m - 1, k \in S PROVE k + 1 \in S
  <2> DEFINE r == requests[k + 1]
             all == AllPages(c[k], f)
  <2>1. /\ k + 1 \in 1 .. m /\ k + 1 \in 0 .. m /\ (k + 1) - 1 = k
        /\ r \in Record /\ r.size = 1 /\ r.address \in Async!Page
        /\ r.data[0] \in Value
    <3>1. k + 1 \in 1 .. m /\ k + 1 \in 0 .. m /\ (k + 1) - 1 = k
      OBVIOUS
    <3>2. r \in Record
      BY <3>1
    <3> QED BY <3>1, <3>2 DEF Record
  <2>2. c[k] \in [D -> Value] /\ Ordered(P(k), AllPages(start, f), requests, all, data)
    BY <1>3
  <2>3. c[k + 1] = AfterWrite(c[k], r)
    BY <2>1 DEF Follows
  <2>4. all \in [Async!Page -> Value]
    BY <2>2, PagesTyped
  <2>5. k + 1 \in U <=> r.address \notin D
    BY <1>1, <2>1 DEF OutOf
  <2> HIDE DEF r, all, D, U
  <2>6. /\ r.type = "READ" \/ r.address \notin D => c[k + 1] = c[k]
        /\ r.type # "READ" => c[k + 1] = [c[k] EXCEPT ![r.address] = r.data[0]]
        /\ DataRead(c[k], r) = [i \in {0} |-> c[k][r.address]]
    <3>1. r.address \in Int
      BY <1>1, <2>1
    <3> DEFINE here == c[k]
    <3>2. here \in [D -> Value] /\ D \in SUBSET Int /\ r.size = 1
      BY <1>1, <2>1, <2>2
    <3> HIDE DEF here
    <3>3. /\ DataRead(here, r) = [i \in {0} |-> here[r.address]]
          /\ r.type = "READ" \/ r.address \notin D => AfterWrite(here, r) = here
          /\ r.type # "READ" => AfterWrite(here, r) = [here EXCEPT ![r.address] = r.data[0]]
      BY ONLY <3>1, <3>2, OnePage
    <3> QED BY <2>3, <3>3 DEF here
  <2>7. c[k + 1] \in [D -> Value]
    <3>1. CASE r.type = "READ" \/ r.address \notin D
      BY <2>2, <2>6, <3>1
    <3>2. CASE r.type # "READ" /\ r.address \in D
      BY <2>1, <2>2, <2>6, <3>2
    <3> QED BY <3>1, <3>2
  <2>8. Ordered(P(k + 1), AllPages(start, f), requests, AllPages(c[k + 1], f), data)
    <3>1. CASE k + 1 \in U
      <4>1. P(k + 1) = P(k)
        BY <3>1
      <4>2. AllPages(c[k + 1], f) = all
        BY <2>5, <2>6, <3>1 DEF all
      <4> QED BY <2>2, <4>1, <4>2
    <3>2. CASE k + 1 \notin U
      <4>1. P(k + 1) = P(k) \cup {k + 1} /\ k + 1 \notin P(k)
        BY <3>2
      <4>2. all[r.address] = c[k][r.address]
        BY <2>1, <2>2, <2>5, <3>2 DEF all, AllPages
      <4>3. /\ r.type = "READ" => AfterWrite(all, r) = all
            /\ r.type # "READ" => AfterWrite(all, r) = [all EXCEPT ![r.address] = r.data[0]]
            /\ DataRead(all, r) = [i \in {0} |-> all[r.address]]
        <5>1. r.address \in Int /\ Async!Page \in SUBSET Int
          BY <1>1, <2>1
        <5>2. all \in [Async!Page -> Value] /\ r.size = 1
          BY <2>1, <2>4
        <5>3. /\ DataRead(all, r) = [i \in {0} |-> all[r.address]]
              /\ r.type = "READ" \/ r.address \notin Async!Page => AfterWrite(all, r) = all
              /\ r.type # "READ" => AfterWrite(all, r) = [all EXCEPT ![r.address] = r.data[0]]
          BY ONLY <5>1, <5>2, OnePage
        <5> QED BY <5>3
      <4>4. data[k + 1] = AnswerOf(r, all)
        <5>1. data[k + 1] = AnswerOf(r, c[k])
          BY <2>1, <3>2 DEF r, U
        <5> QED BY <2>6, <4>2, <4>3, <5>1 DEF AnswerOf
      <4>5. AfterWrite(all, r) = AllPages(c[k + 1], f)
        <5>1. CASE r.type = "READ"
          BY <2>6, <4>3, <5>1 DEF all
        <5>2. CASE r.type # "READ"
          <6>1. DOMAIN c[k] = D /\ DOMAIN c[k + 1] = D /\ r.address \in D
            BY <2>2, <2>5, <2>7, <3>2
          <6>2. ASSUME NEW p \in Async!Page
                PROVE  [all EXCEPT ![r.address] = r.data[0]][p]
                         = IF p \in DOMAIN c[k + 1] THEN c[k + 1][p] ELSE f[p]
            BY <2>2, <2>4, <2>6, <5>2, <6>1 DEF all, AllPages
          <6>3. [all EXCEPT ![r.address] = r.data[0]] \in [Async!Page -> Value]
            BY <2>1, <2>4
          <6> QED BY <4>3, <5>2, <6>2, <6>3 DEF AllPages
        <5> QED BY <5>1, <5>2
      <4>6. Ordered(P(k) \cup {k + 1}, AllPages(start, f), requests, AfterWrite(all, r), data)
        <5> HIDE DEF P
        <5> QED BY <2>2, <4>1, <4>4, OneMoreOrdered DEF r
      <4> HIDE DEF P
      <4> QED BY <4>1, <4>5, <4>6
    <3> QED BY <3>1, <3>2
  <2> HIDE DEF P
  <2> QED BY <2>1, <2>7, <2>8
<1>4. \A k \in 0 .. m : k \in S
  <2> HIDE DEF S
  <2> QED BY <1>2, <1>3, PrefixInduction
<1>5. P(m) = (1 .. m) \ U
  OBVIOUS
<1>6. m \in 0 .. m
  OBVIOUS
<1> HIDE DEF P, U
<1> QED
  BY <1>4, <1>5, <1>6 DEF U

LEMMA AsyncSubmitInv ==
  ASSUME Async!Parameters, AsyncIInv, NEW m, m \in 1 .. MaxBatch,
         NEW requests, requests \in [1 .. m -> Async!Request], Async!Submit(requests)
  PROVE  AsyncIInv'
<1> DEFINE U == OutOf(cache, requests)
<1>1. NumPages \in Nat /\ m \in Nat /\ 0 \in Value
  BY DEF Async!Parameters
<1>2. requests \in [1 .. m -> Record] /\ Len(requests) = m
  <2>1. \A r \in Async!Request : r \in Record
    BY <1>1 DEF Async!Request, Record
  <2> QED BY <2>1
<1>3. /\ file \in [Async!Page -> Value]
      /\ \E n \in 0 .. NumPages : cache \in [0 .. n - 1 -> Value]
  BY DEF AsyncIInv, AsyncInv, AsyncTypes
<1>4. PICK n \in 0 .. NumPages : cache \in [0 .. n - 1 -> Value]
  BY <1>3
<1>5. PICK c : Follows(c, cache, requests, m)
  <2>1. m \in Nat
    BY <1>1
  <2> QED BY ONLY <2>1, CellsExist
<1>6. \A k \in 0 .. m : Async!CellsAfter(cache, requests)[k] = c[k]
  BY <1>1, <1>2, <1>5, CellsAfterIs, AsyncOrder
<1>7. U \subseteq 1 .. m /\ \A i \in 1 .. m : i \in U <=> ~Async!IsCached(requests[i])
  BY <1>2 DEF OutOf, Async!IsCached
<1>8. /\ Async!Uncached(requests) = U /\ Async!Cardinality(U) = Cardinality(U)
      /\ Cardinality(U) \in Nat
      /\ \A p \in U : Rank(U, p) \in 1 .. Cardinality(U)
      /\ \A p, q \in U : Rank(U, p) = Rank(U, q) => p = q
  <2> HIDE DEF U
  <2>1. Async!Uncached(requests) = U
    BY AsyncUncached DEF U
  <2>2. Async!Cardinality(U) = Cardinality(U)
    BY AsyncOrder
  <2> QED BY <1>1, <1>7, <2>1, <2>2, RankFacts
<1> HIDE DEF U
<1>9. /\ phase' = "submitted" /\ file' = file
      /\ cache' = c[m]
      /\ batch' = [i \in 1 .. m |->
                     IF requests[i].type = "READ" /\ i \notin U
                     THEN [requests[i] EXCEPT !.data = DataRead(c[i - 1], requests[i])]
                     ELSE requests[i]]
      /\ buffer' = [k \in 1 .. Cardinality(U) |-> requests[Async!PlaceOf(k, requests)].data[0]]
      /\ inFlight' = 1 .. Cardinality(U)
      /\ before' = AllPages(cache, file)
  <2>1. m \in 0 .. m /\ \A i \in 1 .. m : i - 1 \in 0 .. m
    BY <1>1
  <2>2. \A i \in 1 .. m : Async!DataRead(Async!CellsAfter(cache, requests)[i - 1], requests[i])
                            = DataRead(c[i - 1], requests[i])
    BY <1>6, <2>1, AsyncOrder
  <2>3. batch' = [i \in 1 .. m |->
                     IF requests[i].type = "READ" /\ Async!IsCached(requests[i])
                     THEN [requests[i] EXCEPT !.data =
                             Async!DataRead(Async!CellsAfter(cache, requests)[i - 1], requests[i])]
                     ELSE requests[i]]
    BY <1>2 DEF Async!Submit
  <2>4. cache' = c[m]
    BY <1>2, <1>6, <2>1 DEF Async!Submit
  <2>5. /\ phase' = "submitted" /\ file' = file /\ before' = AllPages(cache, file)
    BY AsyncContents DEF Async!Submit
  <2>6. /\ buffer' = [k \in 1 .. Cardinality(U) |-> requests[Async!PlaceOf(k, requests)].data[0]]
        /\ inFlight' = 1 .. Cardinality(U)
    BY <1>8 DEF Async!Submit, Async!HandedOver
  <2> QED BY <1>7, <2>2, <2>3, <2>4, <2>5, <2>6
<1>10. \A k \in 1 .. Cardinality(U) : /\ Async!PlaceOf(k, requests) \in U
                                      /\ Rank(U, Async!PlaceOf(k, requests)) = k
  BY <1>1, <1>2, AsyncPlaceOf DEF U
<1>11. /\ Len(batch') = m /\ DOMAIN batch' = 1 .. m
       /\ \A i \in 1 .. m : SameRequest(requests[i], batch'[i])
       /\ \A i \in 1 .. m : i \notin U /\ requests[i].type = "READ"
                              => batch'[i].data = DataRead(c[i - 1], requests[i])
       /\ \A i \in 1 .. m : requests[i].type # "READ" => batch'[i].data = requests[i].data
  <2>1. Len(batch') = m /\ DOMAIN batch' = 1 .. m
    BY <1>1, <1>9
  <2>2. ASSUME NEW i \in 1 .. m
        PROVE  /\ SameRequest(requests[i], batch'[i])
               /\ i \notin U /\ requests[i].type = "READ"
                    => batch'[i].data = DataRead(c[i - 1], requests[i])
               /\ requests[i].type # "READ" => batch'[i].data = requests[i].data
    <3>1. requests[i] \in Record
      BY <1>2
    <3>2. batch'[i] = IF requests[i].type = "READ" /\ i \notin U
                      THEN [requests[i] EXCEPT !.data = DataRead(c[i - 1], requests[i])]
                      ELSE requests[i]
      BY <1>9
    <3> QED BY <3>1, <3>2 DEF SameRequest, Record
  <2> QED BY <2>1, <2>2
<1>12. /\ \A k \in 0 .. m : c[k] \in [0 .. n - 1 -> Value]
       /\ Ordered((1 .. m) \ U, AllPages(cache, file), requests, AllPages(c[m], file),
                  Brings(batch', U, buffer'))
  <2>1. \A k \in 1 .. m : k \notin U
          => Brings(batch', U, buffer')[k] = AnswerOf(requests[k], c[k - 1])
    BY <1>11 DEF Brings, AnswerOf, SameRequest
  <2> DEFINE brought == Brings(batch', U, buffer')
  <2>2. /\ NumPages \in Nat /\ m \in Nat /\ n \in 0 .. NumPages
        /\ cache \in [0 .. n - 1 -> Value] /\ file \in [Async!Page -> Value]
        /\ requests \in [1 .. m -> Record]
    BY <1>1, <1>2, <1>3, <1>4
  <2>3. \A k \in 1 .. m : k \notin OutOf(cache, requests) => brought[k] = AnswerOf(requests[k], c[k - 1])
    BY <2>1 DEF U
  <2> HIDE DEF brought
  <2>4. /\ \A k \in 0 .. m : c[k] \in [0 .. n - 1 -> Value]
        /\ Ordered((1 .. m) \ OutOf(cache, requests), AllPages(cache, file), requests,
                   AllPages(c[m], file), brought)
    BY ONLY <1>5, <2>2, <2>3, CachedOrdered
  <2> QED BY <2>4 DEF U, brought
<1>13. c[m] \in [0 .. n - 1 -> Value] /\ DOMAIN c[m] = DOMAIN cache
  BY <1>1, <1>4, <1>12
<1>14. OutOf(cache', batch') = U
  BY <1>2, <1>9, <1>11, <1>13 DEF OutOf, U, SameRequest
<1>15. batch' \in [1 .. m -> Record]
  <2>1. ASSUME NEW i \in 1 .. m PROVE batch'[i] \in Record
    <3>1. requests[i] \in Record /\ i - 1 \in 0 .. m
      BY <1>2
    <3>2. CASE requests[i].type = "READ" /\ i \notin U
      <4> DEFINE here == c[i - 1]
                 r == requests[i]
                 cached == 0 .. n - 1
      <4>1. /\ here \in [cached -> Value] /\ cached \in SUBSET Int
            /\ r.size = 1 /\ r.address \in Int /\ r.address \in cached
        BY <1>4, <1>12, <3>1, <3>2, <1>2 DEF Record, U, OutOf
      <4> HIDE DEF here, r, cached
      <4>2. DataRead(here, r) = [j \in {0} |-> here[r.address]]
        BY ONLY <4>1, OnePage
      <4>3. DataRead(here, r) \in [{0} -> Value]
        BY <4>1, <4>2
      <4>4. batch'[i] = [r EXCEPT !.data = DataRead(here, r)] /\ r \in Record
        BY <1>9, <3>1, <3>2 DEF here, r
      <4> QED BY <4>3, <4>4 DEF Record
    <3>3. CASE ~(requests[i].type = "READ" /\ i \notin U)
      <4>1. batch'[i] = requests[i]
        BY <1>9, <3>3
      <4> QED BY <3>1, <4>1
    <3> QED BY <3>2, <3>3
  <2> QED BY <1>9, <1>11, <2>1
<1>16. buffer' \in [1 .. Cardinality(U) -> Value]
  <2>1. ASSUME NEW k \in 1 .. Cardinality(U)
        PROVE  requests[Async!PlaceOf(k, requests)].data[0] \in Value
    <3>1. requests[Async!PlaceOf(k, requests)] \in Record
      BY <1>2, <1>7, <1>10
    <3> QED BY <3>1 DEF Record
  <2> QED BY <1>9, <2>1
<1>17. \A i \in U : requests[i].type # "READ" => buffer'[Rank(U, i)] = batch'[i].data[0]
  <2>1. ASSUME NEW i \in U, requests[i].type # "READ"
        PROVE  buffer'[Rank(U, i)] = batch'[i].data[0]
    <3>1. Rank(U, i) \in 1 .. Cardinality(U) /\ i \in 1 .. m
      BY <1>7, <1>8
    <3>2. Async!PlaceOf(Rank(U, i), requests) = i
      BY <1>8, <1>10, <3>1
    <3> QED BY <1>9, <1>11, <2>1, <3>1, <3>2
  <2> QED BY <2>1
<1>18. DoneOf(batch', U, inFlight') = (1 .. m) \ U
  BY <1>8, <1>9, <1>11 DEF DoneOf
<1>19. Ordered((1 .. m) \ U, before', batch', AllPages(cache', file'), Brings(batch', U, buffer'))
  <2>1. \A p \in (1 .. m) \ U : SameRequest(requests[p], batch'[p])
    BY <1>11
  <2> QED BY <1>9, <1>12, <2>1, SameOrdered
<1>20. AsyncTypes(file', cache', phase', batch', buffer', inFlight', before')
  <2>1. before' \in [Async!Page -> Value]
    BY <1>1, <1>3, <1>4, <1>9, PagesTyped
  <2> QED BY <1>1, <1>3, <1>9, <1>13, <1>14, <1>15, <1>16, <2>1 DEF AsyncTypes
<1>21. /\ \A i \in U : Rank(U, i) \in inFlight' /\ batch'[i].type # "READ"
                        => buffer'[Rank(U, i)] = batch'[i].data[0]
       /\ phase' # "idle"
  BY <1>7, <1>9, <1>11, <1>17 DEF SameRequest
<1>22. AsyncInv(file', cache', phase', batch', buffer', inFlight', before')
  BY <1>14, <1>18, <1>19, <1>20, <1>21 DEF AsyncInv
<1> QED
  BY <1>22 DEF AsyncIInv

(* What the invariant says of the requests of the batch. *)
LEMMA AsyncBatch ==
  ASSUME AsyncIInv
  PROVE  \E m \in Nat :
           LET U == OutOf(cache, batch)
           IN  /\ batch \in [1 .. m -> Record] /\ Len(batch) = m /\ U \subseteq 1 .. m
               /\ Cardinality(U) \in Nat
               /\ \A p \in U : Rank(U, p) \in 1 .. Cardinality(U)
               /\ \A p, q \in U : Rank(U, p) = Rank(U, q) => p = q
               /\ Async!Uncached(batch) = U
               /\ \A k \in 1 .. Cardinality(U) : /\ Async!PlaceOf(k, batch) \in U
                                                 /\ Rank(U, Async!PlaceOf(k, batch)) = k
<1>1. PICK m \in Nat : batch \in [1 .. m -> Record]
  BY DEF AsyncIInv, AsyncInv, AsyncTypes
<1> DEFINE U == OutOf(cache, batch)
<1>2. Len(batch) = m /\ U \subseteq 1 .. m
  BY <1>1, OutOfInterval
<1>3. Async!Uncached(batch) = U
  BY AsyncUncached
<1>4. \A k \in 1 .. Cardinality(U) : /\ Async!PlaceOf(k, batch) \in U
                                     /\ Rank(U, Async!PlaceOf(k, batch)) = k
  BY <1>1, AsyncPlaceOf
<1>5. /\ Cardinality(U) \in Nat
      /\ \A p \in U : Rank(U, p) \in 1 .. Cardinality(U)
      /\ \A p, q \in U : Rank(U, p) = Rank(U, q) => p = q
  <2> HIDE DEF U
  <2> QED BY <1>2, RankFacts
<1> QED
  BY <1>1, <1>2, <1>3, <1>4, <1>5

LEMMA AsyncCompleteInv ==
  ASSUME Async!Parameters, AsyncIInv, NEW n, n \in inFlight, Async!Complete(n)
  PROVE  AsyncIInv'
<1> DEFINE U == OutOf(cache, batch)
           i == Async!PlaceOf(n, batch)
           r == batch[i]
           all == AllPages(cache, file)
           done == DoneOf(batch, U, inFlight)
<1>1. PICK m \in Nat :
        /\ batch \in [1 .. m -> Record] /\ Len(batch) = m /\ U \subseteq 1 .. m
        /\ Cardinality(U) \in Nat
        /\ \A p \in U : Rank(U, p) \in 1 .. Cardinality(U)
        /\ \A p, q \in U : Rank(U, p) = Rank(U, q) => p = q
        /\ \A k \in 1 .. Cardinality(U) : /\ Async!PlaceOf(k, batch) \in U
                                          /\ Rank(U, Async!PlaceOf(k, batch)) = k
  BY AsyncBatch
<1>2. /\ AsyncTypes(file, cache, phase, batch, buffer, inFlight, before)
      /\ \A j \in U : Rank(U, j) \in inFlight /\ batch[j].type # "READ"
                        => buffer[Rank(U, j)] = batch[j].data[0]
      /\ Ordered(done, before, batch, all, Brings(batch, U, buffer))
      /\ phase # "idle"
  BY DEF AsyncIInv, AsyncInv
<1>3. /\ file \in [Async!Page -> Value] /\ before \in [Async!Page -> Value]
      /\ buffer \in [1 .. Cardinality(U) -> Value]
      /\ inFlight \subseteq 1 .. Cardinality(U) /\ n \in 1 .. Cardinality(U)
      /\ phase \in {"idle", "submitted"}
  BY <1>2 DEF AsyncTypes
<1>4. PICK nc \in 0 .. NumPages : cache \in [0 .. nc - 1 -> Value]
  BY <1>2 DEF AsyncTypes
<1>5. i \in U /\ i \in 1 .. m /\ Rank(U, i) = n
  BY <1>1, <1>3
<1>6. /\ r \in Record /\ r.size = 1 /\ r.address \in Async!Page
      /\ r.address \in Int /\ r.address \notin DOMAIN cache
      /\ r.data[0] \in Value
  <2>1. r \in Record
    BY <1>1, <1>5
  <2>2. r.address \notin DOMAIN cache
    BY <1>5 DEF OutOf
  <2> QED BY <2>1, <2>2 DEF Record, Async!Page
<1>7. /\ inFlight' = inFlight \ {n}
      /\ r.type = "READ" => buffer' = [buffer EXCEPT ![n] = file[r.address]] /\ file' = file
      /\ r.type # "READ" => file' = [file EXCEPT ![r.address] = buffer[n]] /\ buffer' = buffer
      /\ cache' = cache /\ phase' = phase /\ batch' = batch /\ before' = before
  BY DEF Async!Complete
<1>8. /\ file' \in [Async!Page -> Value]
      /\ buffer' \in [1 .. Cardinality(U) -> Value]
      /\ \A k \in 1 .. Cardinality(U) : k # n => buffer'[k] = buffer[k]
      /\ r.type = "READ" => buffer'[n] = file[r.address]
  <2>1. buffer[n] \in Value /\ file[r.address] \in Value
    BY <1>3, <1>6
  <2> HIDE DEF r, U
  <2> QED BY <1>3, <1>6, <1>7, <2>1
<1>9. OutOf(cache', batch') = U
  BY <1>7
<1>10. /\ DoneOf(batch', U, inFlight') = done \cup {i} /\ i \notin done
  BY <1>1, <1>5, <1>7 DEF DoneOf
<1> DEFINE brought == Brings(batch, U, buffer)
           brings == Brings(batch', U, buffer')
<1>11. \A p \in done : SameRequest(batch[p], batch'[p]) /\ brought[p] = brings[p]
  <2>1. ASSUME NEW p \in done
        PROVE  SameRequest(batch[p], batch'[p]) /\ brought[p] = brings[p]
    <3>1. p \in 1 .. m /\ (p \in U => Rank(U, p) # n /\ Rank(U, p) \in 1 .. Cardinality(U))
      BY <1>1 DEF DoneOf
    <3>2. p \in U => buffer'[Rank(U, p)] = buffer[Rank(U, p)]
      BY <1>8, <3>1
    <3>3. SameRequest(batch[p], batch'[p])
      BY <1>7 DEF SameRequest
    <3>4. brought[p] = brings[p]
      BY <1>1, <1>7, <3>1, <3>2 DEF Brings
    <3> QED BY <3>3, <3>4
  <2> QED BY <2>1
<1>12. Ordered(done, before, batch', all, brings)
  <2> HIDE DEF done, all, brings, brought
  <2>1. Ordered(done, before, batch, all, brought)
    BY <1>2 DEF brought, done, all
  <2> QED BY <1>11, <2>1, SameOrdered
<1>13. /\ all \in [Async!Page -> Value] /\ all[r.address] = file[r.address]
  <2>1. NumPages \in Nat
    BY DEF Async!Parameters
  <2>2. all \in [Async!Page -> Value]
    BY <1>3, <1>4, <2>1, PagesTyped
  <2> QED BY <1>6, <2>2 DEF AllPages
<1>14. /\ r.type = "READ" => AfterWrite(all, r) = all
       /\ r.type # "READ" => AfterWrite(all, r) = [all EXCEPT ![r.address] = r.data[0]]
       /\ DataRead(all, r) = [j \in {0} |-> all[r.address]]
  <2>1. Async!Page \in SUBSET Int
    BY DEF Async!Page
  <2> HIDE DEF all, r
  <2> QED BY ONLY <1>6, <1>13, <2>1, OnePage
<1>15. brings[i] = AnswerOf(batch'[i], all)
  <2>1. brings[i] = IF r.type = "READ" THEN [j \in {0} |-> buffer'[n]] ELSE r.data
    BY <1>1, <1>5, <1>7 DEF Brings
  <2> HIDE DEF brings, all
  <2> QED BY <1>7, <1>8, <1>13, <1>14, <2>1 DEF AnswerOf
<1>16. AfterWrite(all, batch'[i]) = AllPages(cache', file')
  <2>1. CASE r.type = "READ"
    BY <1>7, <1>14, <2>1
  <2>2. CASE r.type # "READ"
    <3>1. buffer[n] = r.data[0]
      BY <1>2, <1>5, <2>2
    <3>2. file' = [file EXCEPT ![r.address] = r.data[0]] /\ cache' = cache
      BY <1>7, <2>2, <3>1
    <3> HIDE DEF r
    <3>3. ASSUME NEW p \in Async!Page
          PROVE  [all EXCEPT ![r.address] = r.data[0]][p]
                   = IF p \in DOMAIN cache' THEN cache'[p] ELSE file'[p]
      BY <1>3, <1>6, <1>13, <3>2 DEF AllPages
    <3>4. [all EXCEPT ![r.address] = r.data[0]] \in [Async!Page -> Value]
      BY <1>6, <1>13
    <3>5. AfterWrite(all, r) = AllPages(cache', file')
      <4> HIDE DEF all
      <4> QED BY <1>14, <2>2, <3>3, <3>4 DEF AllPages
    <3> QED BY <1>7, <3>5 DEF r
  <2> QED BY <2>1, <2>2
<1>17. Ordered(done \cup {i}, before, batch', AfterWrite(all, batch'[i]), brings)
  <2> HIDE DEF done, all, brings, i
  <2> QED BY <1>10, <1>12, <1>15, OneMoreOrdered
<1>18. AsyncTypes(file', cache', phase', batch', buffer', inFlight', before')
  BY <1>1, <1>3, <1>4, <1>7, <1>8, <1>9 DEF AsyncTypes
<1>19. \A j \in U : Rank(U, j) \in inFlight' /\ batch'[j].type # "READ"
                        => buffer'[Rank(U, j)] = batch'[j].data[0]
  <2> HIDE DEF U
  <2> QED BY <1>1, <1>2, <1>7, <1>8
<1>20. AsyncInv(file', cache', phase', batch', buffer', inFlight', before')
  <2> HIDE DEF U, done, all, brings, i
  <2> QED BY <1>2, <1>7, <1>9, <1>10, <1>16, <1>17, <1>18, <1>19 DEF AsyncInv, brings
<1> QED
  BY <1>20 DEF AsyncIInv

LEMMA AsyncReturnInv ==
  ASSUME AsyncIInv, Async!Return
  PROVE  AsyncIInv'
<1> DEFINE U == OutOf(cache, batch)
           brought == Brings(batch, U, buffer)
<1>1. PICK m \in Nat :
        /\ batch \in [1 .. m -> Record] /\ Len(batch) = m /\ U \subseteq 1 .. m
        /\ Cardinality(U) \in Nat
        /\ \A p \in U : Rank(U, p) \in 1 .. Cardinality(U)
        /\ Async!Uncached(batch) = U
  BY AsyncBatch
<1>2. /\ AsyncTypes(file, cache, phase, batch, buffer, inFlight, before)
      /\ Ordered(DoneOf(batch, U, inFlight), before, batch, AllPages(cache, file), brought)
  BY DEF AsyncIInv, AsyncInv
<1>3. /\ buffer \in [1 .. Cardinality(U) -> Value] /\ inFlight \subseteq 1 .. Cardinality(U)
      /\ file \in [Async!Page -> Value] /\ before \in [Async!Page -> Value]
      /\ \E n \in 0 .. NumPages : cache \in [0 .. n - 1 -> Value]
  BY <1>2 DEF AsyncTypes
<1>4. inFlight = {}
  <2>1. Cardinality(U) - Cardinality(inFlight) >= Cardinality(U)
    BY <1>1, AsyncOrder DEF Async!Return, Async!Completed, Async!EventsAwaited
  <2>2. IsFiniteSet(inFlight) /\ Cardinality(inFlight) \in Nat
    <3>1. 1 \in Int /\ Cardinality(U) \in Int
      BY <1>1
    <3>2. IsFiniteSet(1 .. Cardinality(U))
      BY <3>1, FS_Interval
    <3> QED BY <1>3, <3>2, FS_Subset, FS_CardinalityType
  <2>3. Cardinality(inFlight) = 0
    BY <1>1, <2>1, <2>2
  <2> QED BY <2>2, <2>3, FS_EmptySet
<1>5. /\ phase' = "idle" /\ file' = file /\ cache' = cache /\ buffer' = buffer
      /\ inFlight' = {} /\ before' = before
      /\ batch' = [i \in 1 .. m |->
                     IF batch[i].type = "READ" /\ i \in U
                     THEN [batch[i] EXCEPT !.data = [j \in {0} |-> buffer[Rank(U, i)]]]
                     ELSE batch[i]]
  <2>1. \A i \in 1 .. m : i \in U <=> ~Async!IsCached(batch[i])
    BY <1>1 DEF OutOf, Async!IsCached
  <2>2. \A i : Async!BufferOf(i) = Rank(U, i)
    BY AsyncBufferOf
  <2>3. batch' = [i \in 1 .. m |->
                    IF batch[i].type = "READ" /\ ~Async!IsCached(batch[i])
                    THEN [batch[i] EXCEPT !.data = [j \in {0} |-> buffer[Async!BufferOf(i)]]]
                    ELSE batch[i]]
    BY <1>1 DEF Async!Return
  <2> HIDE DEF U
  <2>4. \A i : [j \in {0} |-> buffer[Async!BufferOf(i)]] = [j \in {0} |-> buffer[Rank(U, i)]]
    BY <2>2
  <2>5. /\ phase' = "idle" /\ file' = file /\ cache' = cache /\ buffer' = buffer
        /\ inFlight' = {} /\ before' = before
    BY <1>4 DEF Async!Return
  <2> QED BY <2>1, <2>3, <2>4, <2>5
<1> DEFINE brings == Brings(batch', U, buffer')
<1>6. ASSUME NEW i \in 1 .. m
      PROVE  /\ batch'[i] \in Record /\ SameRequest(batch[i], batch'[i])
             /\ batch'[i].data = brought[i]
  <2>1. batch[i] \in Record
    BY <1>1
  <2>2. i \in U => [j \in {0} |-> buffer[Rank(U, i)]] \in [{0} -> Value]
    BY <1>1, <1>3
  <2>3. batch'[i] = IF batch[i].type = "READ" /\ i \in U
                    THEN [batch[i] EXCEPT !.data = [j \in {0} |-> buffer[Rank(U, i)]]]
                    ELSE batch[i]
    BY <1>5
  <2>4. brought[i] = IF batch[i].type = "READ" /\ i \in U THEN [j \in {0} |-> buffer[Rank(U, i)]]
                     ELSE batch[i].data
    BY <1>1 DEF Brings
  <2> HIDE DEF U, brought
  <2>5. CASE batch[i].type = "READ" /\ i \in U
    BY <2>1, <2>2, <2>3, <2>4, <2>5 DEF SameRequest, Record
  <2>6. CASE ~(batch[i].type = "READ" /\ i \in U)
    BY <2>1, <2>3, <2>4, <2>6 DEF SameRequest
  <2> QED BY <2>5, <2>6
<1>7. batch' \in [1 .. m -> Record] /\ Len(batch') = m
  <2>1. batch' \in [1 .. m -> Record]
    BY <1>5, <1>6
  <2> QED BY <2>1
<1>8. OutOf(cache', batch') = U
  BY <1>1, <1>5, <1>6, <1>7 DEF OutOf, SameRequest
<1>9. \A i \in 1 .. m : brings[i] = brought[i] /\ batch'[i].data = brings[i]
  <2>1. ASSUME NEW i \in 1 .. m PROVE brings[i] = brought[i]
    <3>1. brings[i] = IF batch'[i].type = "READ" /\ i \in U THEN [j \in {0} |-> buffer[Rank(U, i)]]
                      ELSE batch'[i].data
      BY <1>5, <1>7 DEF Brings
    <3>2. brought[i] = IF batch[i].type = "READ" /\ i \in U THEN [j \in {0} |-> buffer[Rank(U, i)]]
                       ELSE batch[i].data
      BY <1>1 DEF Brings
    <3>3. batch'[i].type = batch[i].type /\ batch'[i].data = brought[i]
      BY <1>6 DEF SameRequest
    <3> HIDE DEF brings, brought, U
    <3> QED BY <3>1, <3>2, <3>3
  <2> QED BY <1>6, <2>1
<1>10. DoneOf(batch, U, inFlight) = 1 .. m /\ DoneOf(batch', U, inFlight') = 1 .. m
  BY <1>1, <1>4, <1>5, <1>7 DEF DoneOf
<1>11. Ordered(1 .. m, before', batch', AllPages(cache', file'), brings)
  <2> HIDE DEF brings, brought, U
  <2>1. Ordered(1 .. m, before, batch, AllPages(cache, file), brought)
    BY <1>2, <1>10
  <2>2. Ordered(1 .. m, before, batch', AllPages(cache, file), brings)
    BY <1>6, <1>9, <2>1, SameOrdered
  <2> QED BY <1>5, <2>2
<1>12. AsyncTypes(file', cache', phase', batch', buffer', inFlight', before')
  BY <1>3, <1>5, <1>7, <1>8 DEF AsyncTypes
<1>13. AsyncInv(file', cache', phase', batch', buffer', inFlight', before')
  <2> HIDE DEF U, brings, brought
  <2> QED BY <1>5, <1>7, <1>8, <1>9, <1>10, <1>11, <1>12 DEF AsyncInv, brings
<1> QED
  BY <1>13 DEF AsyncIInv

LEMMA SavedContents ==
  ASSUME Async!SaveAndLoad
  PROVE  /\ file' = AllPages(cache, file) /\ AllPages(cache', file') = file'
<1>1. file' = AllPages(cache, file)
  BY AsyncContents DEF Async!SaveAndLoad, Async!SavedFile
<1>2. PICK more : cache' = [p \in 0 .. Async!Cardinality(DOMAIN cache) + more - 1 |-> file'[p]]
  BY DEF Async!SaveAndLoad
<1>3. \A p \in DOMAIN cache' : cache'[p] = file'[p]
  BY <1>2
<1>4. AllPages(cache', file') = [p \in Async!Page |-> file'[p]]
  BY <1>3 DEF AllPages
<1>5. file' = [p \in Async!Page |-> file'[p]]
  BY <1>1 DEF AllPages
<1> QED
  BY <1>1, <1>4, <1>5

LEMMA AsyncSaveAndLoadInv ==
  ASSUME Async!Parameters, AsyncIInv, Async!SaveAndLoad
  PROVE  AsyncIInv'
<1>1. AsyncTypes(file, cache, phase, batch, buffer, inFlight, before) /\ NumPages \in Nat
      /\ AdditionalPages \in Nat
  BY DEF AsyncIInv, AsyncInv, Async!Parameters
<1>2. PICK nc \in 0 .. NumPages : cache \in [0 .. nc - 1 -> Value]
  BY <1>1 DEF AsyncTypes
<1>3. Cardinality(DOMAIN cache) = nc
  <2>1. 0 \in Int /\ nc - 1 \in Int /\ DOMAIN cache = 0 .. nc - 1
    BY <1>1, <1>2
  <2>2. Cardinality(0 .. nc - 1) = IF 0 > nc - 1 THEN 0 ELSE nc - 1 - 0 + 1
    BY <2>1, FS_Interval
  <2> QED BY <1>1, <2>1, <2>2
<1>4. /\ file' = AllPages(cache, file) /\ AllPages(cache', file') = file'
  BY SavedContents
<1>5. PICK more \in {0, AdditionalPages} :
        nc + more <= NumPages /\ cache' = [p \in 0 .. nc + more - 1 |-> file'[p]]
  BY <1>3, AsyncOrder DEF Async!SaveAndLoad
<1>6. file' \in [Async!Page -> Value]
  BY <1>1, <1>2, <1>4, PagesTyped DEF AsyncTypes
<1>7. nc + more \in 0 .. NumPages /\ cache' \in [0 .. (nc + more) - 1 -> Value]
  <2>1. nc + more \in 0 .. NumPages
    BY <1>1, <1>5
  <2>2. \A p \in 0 .. nc + more - 1 : p \in Async!Page
    BY <1>1, <2>1 DEF Async!Page
  <2> QED BY <1>5, <1>6, <2>1, <2>2
<1>8. /\ phase' = "idle" /\ batch' = << >> /\ buffer' = << >> /\ before' = file'
      /\ inFlight' = {}
  BY DEF Async!SaveAndLoad, AsyncIInv, AsyncInv
<1>9. Len(batch') = 0 /\ batch' \in [1 .. 0 -> Record] /\ 1 .. 0 = {}
  BY <1>8
<1>10. OutOf(cache', batch') = {}
  BY <1>9 DEF OutOf
<1>11. Cardinality(OutOf(cache', batch')) = 0 /\ buffer' \in [1 .. 0 -> Value]
  <2>1. buffer' \in [1 .. 0 -> Value]
    BY <1>8
  <2>2. Cardinality(OutOf(cache', batch')) = 0
    BY <1>10, FS_EmptySet
  <2> QED BY <2>1, <2>2
<1>12. DoneOf(batch', {}, inFlight') = {}
  BY <1>9 DEF DoneOf
<1>13. Ordered({}, before', batch', before', Brings(batch', {}, buffer'))
  BY NoneOrdered
<1>14. AsyncTypes(file', cache', phase', batch', buffer', inFlight', before')
  BY <1>6, <1>7, <1>8, <1>9, <1>11 DEF AsyncTypes
<1>15. AsyncInv(file', cache', phase', batch', buffer', inFlight', before')
  BY <1>4, <1>8, <1>9, <1>10, <1>12, <1>13, <1>14 DEF AsyncInv
<1> QED
  BY <1>15 DEF AsyncIInv

LEMMA AsyncInvariance == ASSUME Async!Parameters PROVE Async!Spec => []AsyncIInv
<1>1. Async!Init => AsyncIInv
  BY AsyncInitInv
<1>2. AsyncIInv /\ [Async!Next]_(Async!vars) => AsyncIInv'
  <2> SUFFICES ASSUME AsyncIInv, [Async!Next]_(Async!vars)
               PROVE  AsyncIInv'
    OBVIOUS
  <2>1. ASSUME NEW m, m \in 1 .. MaxBatch, NEW requests, requests \in [1 .. m -> Async!Request],
               Async!Submit(requests)
        PROVE  AsyncIInv'
    BY <2>1, AsyncSubmitInv
  <2>2. ASSUME NEW n, n \in inFlight, Async!Complete(n) PROVE AsyncIInv'
    BY <2>2, AsyncCompleteInv
  <2>3. CASE Async!Return
    BY <2>3, AsyncReturnInv
  <2>4. CASE Async!SaveAndLoad
    BY <2>4, AsyncSaveAndLoadInv
  <2>5. CASE UNCHANGED Async!vars
    <3>1. /\ file' = file /\ cache' = cache /\ phase' = phase /\ batch' = batch
          /\ buffer' = buffer /\ inFlight' = inFlight /\ before' = before
      BY <2>5 DEF Async!vars
    <3> QED BY <3>1 DEF AsyncIInv
  <2> QED BY <2>1, <2>2, <2>3, <2>4, <2>5 DEF Async!Next
<1> QED
  BY <1>1, <1>2, PTL DEF Async!Spec

(* The pages, the buffer and what is in flight are what their types say.    *)
THEOREM AsyncTypeCorrect == ASSUME Async!Parameters PROVE Async!Spec => []Async!TypeOK
<1>1. ASSUME AsyncIInv PROVE Async!TypeOK
  <2> DEFINE U == OutOf(cache, batch)
  <2>1. AsyncTypes(file, cache, phase, batch, buffer, inFlight, before)
    BY <1>1 DEF AsyncIInv, AsyncInv
  <2>2. Async!Cardinality(Async!Uncached(batch)) = Cardinality(OutOf(cache, batch))
    BY AsyncUncached, AsyncOrder
  <2>3. batch \in Seq(Record)
    BY <2>1 DEF AsyncTypes
  <2> QED BY <2>1, <2>2, <2>3 DEF AsyncTypes, Async!TypeOK, Record
<1> QED
  BY <1>1, AsyncInvariance, PTL

(* batch_access() returns as if its requests had been done in some order,   *)
(* in whatever order the kernel completes those it is given, and no request *)
(* has another's page of the buffer.                                        *)
THEOREM AsyncDoneInSomeOrder == ASSUME Async!Parameters PROVE Async!Spec => []Async!BatchDoneInSomeOrder
<1>1. ASSUME AsyncIInv PROVE Async!BatchDoneInSomeOrder
  <2> SUFFICES ASSUME phase = "idle"
               PROVE  Async!InSomeOrder(before, batch, Async!Contents, [i \in 1 .. Len(batch) |-> batch[i].data])
    BY DEF Async!BatchDoneInSomeOrder
  <2> DEFINE U == OutOf(cache, batch)
             brought == Brings(batch, U, buffer)
             data == [i \in 1 .. Len(batch) |-> batch[i].data]
  <2>1. PICK m \in Nat : batch \in [1 .. m -> Record] /\ Len(batch) = m
    BY <1>1, AsyncBatch
  <2>2. /\ Ordered(DoneOf(batch, U, inFlight), before, batch, AllPages(cache, file), brought)
        /\ inFlight = {}
        /\ \A i \in 1 .. m : batch[i].data = brought[i]
    BY <1>1, <2>1 DEF AsyncIInv, AsyncInv
  <2>3. DoneOf(batch, U, inFlight) = 1 .. m
    BY <2>1, <2>2 DEF DoneOf
  <2>4. \A i \in 1 .. m : SameRequest(batch[i], batch[i]) /\ brought[i] = data[i]
    BY <2>1, <2>2 DEF SameRequest
  <2> HIDE DEF U, brought, data
  <2>5. Ordered(1 .. m, before, batch, AllPages(cache, file), data)
    BY <2>2, <2>3, <2>4, SameOrdered
  <2>6. InSomeOrder(before, batch, AllPages(cache, file), data)
    BY <2>1, <2>5, OrderedInSomeOrder
  <2> QED BY <2>6, AsyncOrder, AsyncContents DEF data
<1> QED
  BY <1>1, AsyncInvariance, PTL

(* save_to_disk() brings the cached pages to the file before it is copied,  *)
(* so that a loaded memory has what the saved one had, also where its cache *)
(* is larger.                                                               *)
THEOREM RestartKeepsThePages == Async!Spec => Async!RestartKeepsContents
<1>1. [Async!Next]_(Async!vars) =>
        [Async!SaveAndLoad => Async!Contents' = Async!Contents]_(Async!vars)
  <2>1. Async!Contents' = AllPages(cache', file')
    BY DEF Async!Contents, AllPages
  <2>2. Async!SaveAndLoad => Async!Contents' = Async!Contents
    BY <2>1, SavedContents, AsyncContents
  <2> QED BY <2>2
<1> QED
  BY <1>1, PTL DEF Async!Spec, Async!RestartKeepsContents

-----------------------------------------------------------------------------
(* Blocks, and the parts of a request in them. *)

LEMMA BlockOf ==
  ASSUME NEW B \in Nat \ {0}, NEW a \in Nat
  PROVE  a \div B \in Nat /\ B * (a \div B) <= a /\ a < B * (a \div B) + B
OBVIOUS

LEMMA BlocksApart ==
  ASSUME NEW B \in Nat \ {0}, NEW x \in Nat, NEW y \in Nat, x < y
  PROVE  B * x \in Nat /\ B * y \in Nat /\ B * x + B <= B * y
<1>1. PICK d \in Nat : y = x + 1 + d
  <2>1. y - x - 1 \in Nat /\ y = x + 1 + (y - x - 1)
    OBVIOUS
  <2> QED BY <2>1
<1>2. B * y = B * x + B + B * d
  BY <1>1
<1>3. B * d \in Nat /\ B * x \in Nat /\ B * y \in Nat
  OBVIOUS
<1> QED
  BY <1>2, <1>3

LEMMA PartOf ==
  ASSUME NEW B \in Nat \ {0}, NEW a \in Nat, NEW s \in Nat \ {0}, NEW b \in Nat
  PROVE  LET blocks == Disk!BlocksOf(a, s, B)
             part == Disk!PartIn(b, a, s, B)
         IN  /\ \A i \in 0 .. B - 1 : B * b + i \in a .. a + s - 1 => b \in blocks
             /\ b \in blocks =>
                  /\ part.blockOffset \in Nat /\ part.requestOffset \in Nat /\ part.size \in Nat
                  /\ part.blockOffset + part.size <= B
                  /\ B * b + part.blockOffset = a + part.requestOffset
                  /\ \A i \in 0 .. B - 1 :
                       i \in part.blockOffset .. part.blockOffset + part.size - 1
                         <=> B * b + i \in a .. a + s - 1
<1> DEFINE lo == a \div B
           hi == (a + s - 1) \div B
           blocks == Disk!BlocksOf(a, s, B)
           part == Disk!PartIn(b, a, s, B)
<1>1. /\ lo \in Nat /\ B * lo \in Nat /\ B * lo <= a /\ a < B * lo + B
      /\ hi \in Nat /\ B * hi \in Nat /\ B * hi <= a + s - 1 /\ a + s - 1 < B * hi + B
      /\ B * b \in Nat
  <2>1. a + s - 1 \in Nat
    OBVIOUS
  <2>2. \A x \in Nat : B * x \in Nat
    OBVIOUS
  <2>3. lo \in Nat /\ B * lo <= a /\ a < B * lo + B
    BY BlockOf
  <2>4. hi \in Nat /\ B * hi <= a + s - 1 /\ a + s - 1 < B * hi + B
    BY <2>1, BlockOf
  <2> HIDE DEF lo, hi
  <2> QED BY <2>2, <2>3, <2>4
<1>2. blocks = lo .. hi
  BY DEF Disk!BlocksOf
<1> HIDE DEF lo, hi
<1>3. /\ b < lo => B * b + B <= B * lo
      /\ lo < b => B * lo + B <= B * b
      /\ b < hi => B * b + B <= B * hi
      /\ hi < b => B * hi + B <= B * b
      /\ lo < hi => B * lo + B <= B * hi
  BY <1>1, BlocksApart
<1>4. b \in blocks => ((\A x \in blocks : b <= x) <=> b = lo) /\ ((\A x \in blocks : x <= b) <=> b = hi)
  BY <1>1, <1>2
<1>5. b \in blocks =>
        /\ part.blockOffset = IF b = lo THEN a - b * B ELSE 0
        /\ part.requestOffset = IF b = lo THEN 0 ELSE b * B - a
        /\ part.size = IF b = hi THEN s - part.requestOffset ELSE B - part.blockOffset
  BY <1>4 DEF Disk!PartIn
<1>6. b * B = B * b
  OBVIOUS
<1> DEFINE base == B * b
<1>7. base \in Nat
  BY <1>1
<1>8. b \in blocks =>
        /\ part.blockOffset = IF b = lo THEN a - base ELSE 0
        /\ part.requestOffset = IF b = lo THEN 0 ELSE base - a
        /\ part.size = IF b = hi THEN s - part.requestOffset ELSE B - part.blockOffset
  BY <1>5, <1>6
<1> HIDE DEF part, base, blocks
<1>9. ASSUME NEW i \in 0 .. B - 1, base + i \in a .. a + s - 1
      PROVE  b \in blocks
  BY <1>1, <1>2, <1>3, <1>9 DEF base
<1>10. ASSUME b \in blocks
       PROVE  /\ part.blockOffset \in Nat /\ part.requestOffset \in Nat /\ part.size \in Nat
              /\ part.blockOffset + part.size <= B
              /\ base + part.blockOffset = a + part.requestOffset
              /\ \A i \in 0 .. B - 1 :
                   i \in part.blockOffset .. part.blockOffset + part.size - 1
                     <=> base + i \in a .. a + s - 1
  <2>1. lo <= b /\ b <= hi
    BY <1>1, <1>2, <1>10
  <2> DEFINE bo == part.blockOffset
             ro == part.requestOffset
             sz == part.size
  <2>2. /\ bo = IF b = lo THEN a - base ELSE 0
        /\ ro = IF b = lo THEN 0 ELSE base - a
        /\ sz = IF b = hi THEN s - ro ELSE B - bo
    BY <1>8, <1>10
  <2> HIDE DEF bo, ro, sz
  <2>3. /\ base + bo = a + ro /\ bo \in Nat /\ ro \in Nat /\ bo < B
    <3>1. CASE b = lo
      BY <1>1, <2>2, <3>1 DEF base
    <3>2. CASE b # lo
      BY <1>1, <1>3, <1>7, <2>1, <2>2, <3>2 DEF base
    <3> QED BY <3>1, <3>2
  <2>4. sz \in Nat /\ bo + sz <= B
    <3>1. CASE b = hi
      BY <1>1, <1>7, <2>2, <2>3, <3>1 DEF base
    <3>2. CASE b # hi
      BY <1>1, <1>7, <2>2, <2>3, <3>2
    <3> QED BY <3>1, <3>2
  <2>5. ASSUME NEW i \in 0 .. B - 1
        PROVE  i \in bo .. bo + sz - 1 <=> base + i \in a .. a + s - 1
    <3>1. base + i >= a <=> i >= bo
      <4>1. CASE b = lo
        BY <1>7, <2>2, <4>1
      <4>2. CASE b # lo
        BY <1>1, <1>3, <1>7, <2>1, <2>2, <4>2 DEF base
      <4> QED BY <4>1, <4>2
    <3>2. base + i <= a + s - 1 <=> i <= bo + sz - 1
      <4>1. CASE b = hi
        BY <1>7, <2>2, <2>3, <2>4, <4>1
      <4>2. CASE b # hi
        BY <1>1, <1>3, <1>7, <2>1, <2>2, <2>3, <2>4, <4>2 DEF base
      <4> QED BY <4>1, <4>2
    <3> QED BY <1>7, <2>3, <2>4, <3>1, <3>2
  <2> QED BY <2>3, <2>4, <2>5 DEF bo, ro, sz
<1> QED
  BY <1>9, <1>10 DEF part, base, blocks

(* The block that has a byte of a request, and where. *)
LEMMA PartFound ==
  ASSUME NEW B \in Nat \ {0}, NEW ra \in Nat, NEW s \in Nat \ {0}, NEW i \in 0 .. s - 1
  PROVE  LET block == CHOOSE b \in Disk!BlocksOf(ra, s, B) :
                        i - Disk!PartIn(b, ra, s, B).requestOffset \in 0 .. Disk!PartIn(b, ra, s, B).size - 1
             part == Disk!PartIn(block, ra, s, B)
             x == part.blockOffset + i - part.requestOffset
         IN  block \in Nat /\ x \in 0 .. B - 1 /\ B * block + x = ra + i
<1> DEFINE blocks == Disk!BlocksOf(ra, s, B)
           Has(b) == i - Disk!PartIn(b, ra, s, B).requestOffset \in 0 .. Disk!PartIn(b, ra, s, B).size - 1
           a == ra + i
<1>1. a \in Nat /\ a \in ra .. ra + s - 1
  OBVIOUS
<1>2. \E b \in blocks : Has(b)
  <2> DEFINE b == a \div B
             base == B * b
             x == a - base
             part == Disk!PartIn(b, ra, s, B)
  <2>1. b \in Nat /\ base <= a /\ a < base + B
    <3> HIDE DEF a
    <3> QED BY <1>1, BlockOf
  <2>2. base \in Nat
    <3> HIDE DEF b
    <3> QED BY <2>1
  <2> HIDE DEF b
  <2>3. x \in 0 .. B - 1 /\ B * b + x = a
    <3> HIDE DEF base, a
    <3>1. x \in 0 .. B - 1 /\ base + x = a
      BY <1>1, <2>1, <2>2
    <3> QED BY <3>1 DEF base
  <2> HIDE DEF x
  <2>4. B * b + x \in ra .. ra + s - 1
    BY <1>1, <2>3
  <2>5. b \in blocks
    BY <2>1, <2>3, <2>4, PartOf
  <2>6. /\ part.blockOffset \in Nat /\ part.requestOffset \in Nat /\ part.size \in Nat
        /\ B * b + part.blockOffset = ra + part.requestOffset
        /\ x \in part.blockOffset .. part.blockOffset + part.size - 1
    BY <2>1, <2>3, <2>4, <2>5, PartOf
  <2> DEFINE bo == part.blockOffset
             ro == part.requestOffset
             sz == part.size
  <2>7. /\ bo \in Nat /\ ro \in Nat /\ sz \in Nat /\ base + bo = ra + ro
        /\ x \in bo .. bo + sz - 1 /\ base + x = ra + i
    BY <2>3, <2>6
  <2>8. i - ro \in 0 .. sz - 1
    <3> HIDE DEF bo, ro, sz, base
    <3>1. x \in Int /\ bo <= x /\ x <= bo + sz - 1
      BY <2>7
    <3>2. i - ro = x - bo
      BY <2>2, <2>7, <3>1
    <3> QED BY <2>7, <3>1, <3>2
  <2> QED BY <2>5, <2>8
<1> DEFINE block == CHOOSE b \in blocks : Has(b)
           part == Disk!PartIn(block, ra, s, B)
           base == B * block
<1>3. block \in blocks /\ Has(block)
  BY <1>2
<1> HIDE DEF block
<1>4. block \in Nat
  <2>1. ra \div B \in Nat
    BY BlockOf
  <2> QED BY <1>3, <2>1 DEF Disk!BlocksOf
<1>5. /\ part.blockOffset \in Nat /\ part.requestOffset \in Nat /\ part.size \in Nat
      /\ part.blockOffset + part.size <= B
      /\ B * block + part.blockOffset = ra + part.requestOffset
  BY <1>3, <1>4, PartOf
<1> DEFINE bo == part.blockOffset
           ro == part.requestOffset
           sz == part.size
           x == bo + i - ro
<1>6. x \in 0 .. B - 1 /\ base + x = a
  <2>1. /\ bo \in Nat /\ ro \in Nat /\ sz \in Nat /\ base + bo = ra + ro
        /\ bo + sz <= B /\ i - ro \in 0 .. sz - 1 /\ base \in Nat /\ a = ra + i
    BY <1>3, <1>4, <1>5
  <2> HIDE DEF bo, ro, sz, base, a
  <2>2. i - ro >= 0 /\ i - ro <= sz - 1 /\ i \in Nat
    BY <2>1
  <2> QED BY <2>1, <2>2
<1> QED
  BY <1>4, <1>6 DEF block

(* A block that a request touches starts before the request ends. *)
LEMMA TouchedStarts ==
  ASSUME NEW B \in Nat \ {0}, NEW n \in Nat, NEW a \in Nat, NEW s \in Nat \ {0}, a + s <= n,
         NEW b, b \in Disk!BlocksOf(a, s, B)
  PROVE  b \in Nat /\ B * b \in Nat /\ B * b < n
<1> DEFINE lo == a \div B
           last == a + s - 1
           hi == last \div B
<1>2. last \in Nat /\ last < n
  OBVIOUS
<1>3. lo \in Nat /\ hi \in Nat /\ B * hi <= last
  <2>1. lo \in Nat
    BY BlockOf
  <2>2. hi \in Nat /\ B * hi <= last
    <3> HIDE DEF last
    <3> QED BY <1>2, BlockOf
  <2> QED BY <2>1, <2>2
<1>4. b \in lo .. hi
  BY DEF Disk!BlocksOf
<1> HIDE DEF lo, hi, last
<1>5. b \in Nat /\ b <= hi
  BY <1>3, <1>4
<1>6. b < hi => B * b + B <= B * hi
  BY <1>3, <1>5, BlocksApart
<1>7. B * b \in Nat
  BY <1>5
<1>8. B * hi \in Nat
  BY <1>3
<1> DEFINE here == B * b
           end == B * hi
<1>9. here <= end
  <2>1. CASE b = hi
    BY <1>8, <2>1
  <2>2. CASE b # hi
    <3>1. here + B <= end /\ here \in Nat /\ end \in Nat
      BY <1>3, <1>5, <1>6, <1>7, <1>8, <2>2
    <3> HIDE DEF here, end
    <3> QED BY <3>1
  <2> QED BY <2>1, <2>2
<1>10. here \in Nat /\ end \in Nat /\ end <= last
  BY <1>3, <1>7, <1>8
<1> HIDE DEF here, end
<1>11. here < n
  BY <1>2, <1>9, <1>10
<1> QED
  BY <1>5, <1>10, <1>11 DEF here

-----------------------------------------------------------------------------
(* DiskMemory. *)

LEMMA DiskOrder ==
  /\ \A cells, r : /\ Disk!AfterWrite(cells, r) = AfterWrite(cells, r)
                   /\ Disk!DataRead(cells, r) = DataRead(cells, r)
  /\ \A start, requests, cells, data :
       InSomeOrder(start, requests, cells, data) => Disk!InSomeOrder(start, requests, cells, data)
  /\ \A S : Disk!Cardinality(S) = Cardinality(S)
<1>1. \A S : Disk!Cardinality(S) = Cardinality(S)
  BY DEF Disk!Cardinality, Cardinality
<1>2. \A cells, r : /\ Disk!AfterWrite(cells, r) = AfterWrite(cells, r)
                    /\ Disk!DataRead(cells, r) = DataRead(cells, r)
  BY DEF Disk!AfterWrite, Disk!DataRead, Disk!CellsOf, AfterWrite, DataRead, CellsOf
<1>3. \A start, requests : Disk!CellsAfter(start, requests) = CellsAfter(start, requests)
  BY <1>2 DEF Disk!CellsAfter, CellsAfter
<1>4. \A start, requests : Disk!InOrder(start, requests) = InOrder(start, requests)
  BY <1>2, <1>3 DEF Disk!InOrder, InOrder
<1>5. \A S : Disk!SetToSeqs(S) = SetToSeqs(S)
  BY <1>1 DEF Disk!SetToSeqs, SetToSeqs
<1>6. \A start, requests, cells, data :
        InSomeOrder(start, requests, cells, data) => Disk!InSomeOrder(start, requests, cells, data)
  BY <1>4, <1>5 DEF Disk!InSomeOrder, InSomeOrder
<1> QED
  BY <1>1, <1>2, <1>6

(* A request within the first n bytes. *)
Within(r, n) ==
  /\ r.type \in {"READ", "WRITE"}
  /\ r.address \in Nat /\ r.size \in Nat \ {0} /\ r.address + r.size <= n
  /\ r.data \in [0 .. r.size - 1 -> Value]

LEMMA RequestsWithin ==
  ASSUME 0 \in Value, MaxLength \in Nat, NEW n \in Nat, NEW r, r \in Disk!Requests(n)
  PROVE  Within(r, n)
<1>1. PICK a \in 0 .. n - 1 : \E s \in {l \in 1 .. MaxLength : a + l <= n} : r \in Disk!RequestsOf(a, s)
  BY DEF Disk!Requests
<1>2. PICK s \in {l \in 1 .. MaxLength : a + l <= n} : r \in Disk!RequestsOf(a, s)
  BY <1>1
<1>3. a \in Nat /\ s \in Nat \ {0} /\ a + s <= n
  BY <1>2
<1>4. r.address = a /\ r.size = s /\ r.type \in {"READ", "WRITE"} /\ r.data \in [0 .. s - 1 -> Value]
  <2>1. [i \in 0 .. s - 1 |-> 0] \in [0 .. s - 1 -> Value]
    OBVIOUS
  <2> QED BY <1>2, <2>1 DEF Disk!RequestsOf
<1> QED
  BY <1>3, <1>4 DEF Within

(* A WRITE changes the bytes of the block that it has. *)
LEMMA BlockAfterAt ==
  ASSUME BlockSize \in Nat \ {0}, NEW n \in Nat, NEW r, Within(r, n), NEW b \in Nat,
         NEW bytes \in [0 .. BlockSize - 1 -> Value]
  PROVE  LET after == Disk!BlockAfter(r, b, bytes)
         IN  /\ after \in [0 .. BlockSize - 1 -> Value]
             /\ \A i \in 0 .. BlockSize - 1 :
                  after[i] = IF r.type = "WRITE" /\ BlockSize * b + i \in CellsOf(r)
                             THEN r.data[BlockSize * b + i - r.address] ELSE bytes[i]
             /\ r.type # "WRITE" \/ b \notin Disk!BlocksOf(r.address, r.size, BlockSize) => after = bytes
<1> DEFINE blocks == Disk!BlocksOf(r.address, r.size, BlockSize)
           part == Disk!PartIn(b, r.address, r.size, BlockSize)
           after == Disk!BlockAfter(r, b, bytes)
           base == BlockSize * b
<1>1. /\ r.address \in Nat /\ r.size \in Nat \ {0} /\ r.data \in [0 .. r.size - 1 -> Value]
      /\ base \in Nat
  BY DEF Within
<1>2. /\ \A i \in 0 .. BlockSize - 1 : base + i \in r.address .. r.address + r.size - 1 => b \in blocks
      /\ b \in blocks =>
           /\ part.blockOffset \in Nat /\ part.requestOffset \in Nat /\ part.size \in Nat
           /\ part.blockOffset + part.size <= BlockSize
           /\ base + part.blockOffset = r.address + part.requestOffset
           /\ \A i \in 0 .. BlockSize - 1 :
                i \in part.blockOffset .. part.blockOffset + part.size - 1
                  <=> base + i \in r.address .. r.address + r.size - 1
  BY <1>1, PartOf
<1>3. CellsOf(r) = r.address .. r.address + r.size - 1
  BY DEF CellsOf
<1>4. CASE r.type = "WRITE" /\ b \in blocks
  <2>1. after = [i \in 0 .. BlockSize - 1 |->
                   IF i \in part.blockOffset .. part.blockOffset + part.size - 1
                   THEN r.data[part.requestOffset + i - part.blockOffset] ELSE bytes[i]]
    BY <1>4 DEF Disk!BlockAfter, Disk!Part
  <2> HIDE DEF part, blocks, base, after
  <2>2. ASSUME NEW i \in 0 .. BlockSize - 1
        PROVE  /\ (IF i \in part.blockOffset .. part.blockOffset + part.size - 1
                   THEN r.data[part.requestOffset + i - part.blockOffset] ELSE bytes[i]) \in Value
               /\ after[i] = IF base + i \in CellsOf(r) THEN r.data[base + i - r.address] ELSE bytes[i]
    <3>1. /\ i \in part.blockOffset .. part.blockOffset + part.size - 1
               <=> base + i \in r.address .. r.address + r.size - 1
          /\ part.requestOffset + i - part.blockOffset = base + i - r.address
      <4>1. i \in part.blockOffset .. part.blockOffset + part.size - 1
              <=> base + i \in r.address .. r.address + r.size - 1
        BY <1>2, <1>4
      <4> DEFINE bo == part.blockOffset
                 ro == part.requestOffset
                 ra == r.address
      <4>2. bo \in Nat /\ ro \in Nat /\ ra \in Nat /\ base + bo = ra + ro
        BY <1>1, <1>2, <1>4
      <4> HIDE DEF bo, ro, ra
      <4>3. ro + i - bo = base + i - ra
        BY <1>1, <4>2
      <4> QED BY <4>1, <4>3 DEF bo, ro, ra
    <3>2. base + i \in r.address .. r.address + r.size - 1 => base + i - r.address \in 0 .. r.size - 1
      BY <1>1
    <3>3. after[i] = IF i \in part.blockOffset .. part.blockOffset + part.size - 1
                     THEN r.data[part.requestOffset + i - part.blockOffset] ELSE bytes[i]
      BY <2>1
    <3> QED BY <1>1, <1>3, <3>1, <3>2, <3>3
  <2>3. after \in [0 .. BlockSize - 1 -> Value]
    BY <2>1, <2>2
  <2> QED BY <1>4, <2>2, <2>3 DEF base, after, blocks
<1>5. CASE ~(r.type = "WRITE" /\ b \in blocks)
  <2>1. after = bytes
    BY <1>5 DEF Disk!BlockAfter
  <2>2. \A i \in 0 .. BlockSize - 1 : ~(r.type = "WRITE" /\ base + i \in CellsOf(r))
    BY <1>2, <1>3, <1>5
  <2> QED BY <2>1, <2>2
<1> QED
  BY <1>4, <1>5

(* The file has at least the n bytes that the memory has. *)
FileOf(f, n) == \E l \in Nat : n <= l /\ f \in [0 .. l - 1 -> Value]

BytesOf(f, n) == [a \in 0 .. n - 1 |-> f[a]]

LEMMA BytesTyped ==
  ASSUME NEW f, NEW n \in Nat, FileOf(f, n)
  PROVE  BytesOf(f, n) \in [0 .. n - 1 -> Value]
BY DEF FileOf, BytesOf

LEMMA BlockReadTyped ==
  ASSUME BlockSize \in Nat \ {0}, 0 \in Value, NEW n \in Nat, FileOf(file, n), NEW b \in Nat
  PROVE  /\ Disk!BlockRead(b) \in [0 .. BlockSize - 1 -> Value]
         /\ \A i \in 0 .. BlockSize - 1 :
              BlockSize * b + i < n => Disk!BlockRead(b)[i] = file[BlockSize * b + i]
<1>1. PICK l \in Nat : n <= l /\ file \in [0 .. l - 1 -> Value]
  BY DEF FileOf
<1> DEFINE base == BlockSize * b
<1>2. base \in Nat
  OBVIOUS
<1>3. Disk!BlockRead(b) = [i \in 0 .. BlockSize - 1 |->
                             IF base + i \in DOMAIN file THEN file[base + i] ELSE 0]
  BY DEF Disk!BlockRead, Disk!Offset
<1> HIDE DEF base
<1>4. \A i \in 0 .. BlockSize - 1 : base + i < n => base + i \in DOMAIN file
  BY <1>1, <1>2
<1>5. \A i \in 0 .. BlockSize - 1 : (IF base + i \in DOMAIN file THEN file[base + i] ELSE 0) \in Value
  BY <1>1
<1> QED
  BY <1>3, <1>4, <1>5 DEF base

(* c[k] is a block once the WRITEs of the first k requests are put in. *)
PutsIn(c, requests, b, n) ==
  c[0] = Disk!BlockRead(b) /\ \A k \in 1 .. n : c[k] = Disk!BlockAfter(requests[k], b, c[k - 1])

LEMMA PutsExist ==
  ASSUME NEW requests, NEW b, NEW n \in Nat
  PROVE  \E c : PutsIn(c, requests, b, n)
<1> DEFINE Upto(m) == \E c : PutsIn(c, requests, b, m)
           S == { m \in 0 .. n : Upto(m) }
<1>1. 0 \in S
  <2> DEFINE c == [k \in {0} |-> Disk!BlockRead(b)]
  <2>1. c[0] = Disk!BlockRead(b) /\ 1 .. 0 = {}
    OBVIOUS
  <2> HIDE DEF c
  <2> QED BY <2>1 DEF PutsIn
<1>2. ASSUME NEW m \in 0 .. n - 1, m \in S PROVE m + 1 \in S
  <2>1. PICK c : /\ c[0] = Disk!BlockRead(b)
                 /\ \A k \in 1 .. m : c[k] = Disk!BlockAfter(requests[k], b, c[k - 1])
    BY <1>2 DEF PutsIn
  <2> DEFINE e == [k \in 0 .. m + 1 |->
                     IF k = m + 1 THEN Disk!BlockAfter(requests[m + 1], b, c[m]) ELSE c[k]]
  <2>2. /\ e[m + 1] = Disk!BlockAfter(requests[m + 1], b, c[m])
        /\ \A k \in 0 .. m : e[k] = c[k]
    OBVIOUS
  <2> HIDE DEF e
  <2>3. ASSUME NEW k \in 1 .. m + 1 PROVE e[k] = Disk!BlockAfter(requests[k], b, e[k - 1])
    <3>1. CASE k = m + 1
      <4>1. k - 1 = m /\ m \in 0 .. m
        BY <3>1
      <4> QED BY <2>2, <3>1, <4>1
    <3>2. CASE k # m + 1
      <4>1. k \in 1 .. m /\ k \in 0 .. m /\ k - 1 \in 0 .. m
        BY <3>2
      <4> QED BY <2>1, <2>2, <4>1
    <3> QED BY <3>1, <3>2
  <2>4. e[0] = Disk!BlockRead(b)
    BY <2>1, <2>2
  <2>5. PutsIn(e, requests, b, m + 1)
    BY <2>3, <2>4 DEF PutsIn
  <2> QED BY <2>5
<1>3. n \in S
  <2> HIDE DEF S
  <2> QED BY <1>1, <1>2, PrefixInduction
<1> QED
  BY <1>3

Merging(requests, b, n) == CHOOSE c : PutsIn(c, requests, b, n)

(* The recursion of BlockMerged, and what it comes to. *)
LEMMA MergedIs ==
  ASSUME NEW requests, NEW b, NEW n \in Nat, Len(requests) = n
  PROVE  /\ PutsIn(Merging(requests, b, n), requests, b, n)
         /\ Disk!BlockMerged(requests, b) = Merging(requests, b, n)[n]
<1> DEFINE c == Merging(requests, b, n)
           start == Disk!BlockRead(b)
           f == CHOOSE f : f = [k \in 0 .. n |-> IF k = 0 THEN start
                                                  ELSE Disk!BlockAfter(requests[k], b, f[k - 1])]
           g == [k \in 0 .. n |-> c[k]]
<1>0. PutsIn(c, requests, b, n)
  BY PutsExist DEF Merging
<1> HIDE DEF c
<1>1. c[0] = start /\ \A k \in 1 .. n : c[k] = Disk!BlockAfter(requests[k], b, c[k - 1])
  BY <1>0 DEF PutsIn
<1>2. g = [k \in 0 .. n |-> IF k = 0 THEN start ELSE Disk!BlockAfter(requests[k], b, g[k - 1])]
  <2>1. ASSUME NEW k \in 0 .. n
        PROVE  c[k] = IF k = 0 THEN start ELSE Disk!BlockAfter(requests[k], b, g[k - 1])
    <3>1. CASE k = 0
      BY <1>1, <3>1
    <3>2. CASE k # 0
      <4>1. k \in 1 .. n /\ k - 1 \in 0 .. n
        BY <3>2
      <4>2. g[k - 1] = c[k - 1]
        BY <4>1
      <4> HIDE DEF g
      <4> QED BY <1>1, <3>2, <4>1, <4>2
    <3> QED BY <3>1, <3>2
  <2> QED BY <2>1
<1>3. f = [k \in 0 .. n |-> IF k = 0 THEN start ELSE Disk!BlockAfter(requests[k], b, f[k - 1])]
  <2> HIDE DEF g
  <2> QED BY <1>2
<1>4. Disk!BlockMerged(requests, b) = f[n]
  BY DEF Disk!BlockMerged
<1> HIDE DEF f, g, start
<1>5. \A k \in 0 .. n : f[k] = IF k = 0 THEN start ELSE Disk!BlockAfter(requests[k], b, f[k - 1])
  BY <1>3
<1> DEFINE S == { k \in 0 .. n : f[k] = c[k] }
<1>6. 0 \in S
  BY <1>1, <1>5
<1>7. ASSUME NEW k \in 0 .. n - 1, k \in S PROVE k + 1 \in S
  <2>1. k + 1 \in 1 .. n /\ k + 1 \in 0 .. n /\ (k + 1) - 1 = k /\ k + 1 # 0
    OBVIOUS
  <2>2. f[k] = c[k]
    BY <1>7
  <2>3. /\ f[k + 1] = Disk!BlockAfter(requests[k + 1], b, f[k])
        /\ c[k + 1] = Disk!BlockAfter(requests[k + 1], b, c[k])
    BY <1>1, <1>5, <2>1
  <2> QED BY <2>1, <2>2, <2>3
<1>8. \A k \in 0 .. n : k \in S
  <2> HIDE DEF S
  <2> QED BY <1>6, <1>7, PrefixInduction
<1>9. f[n] = c[n]
  <2>1. n \in 0 .. n
    OBVIOUS
  <2> QED BY <1>8, <2>1
<1> QED
  BY <1>0, <1>4, <1>9 DEF c

(* All blocks of a batch, as its WRITEs are put in.                         *)
MergesBytes(requests, b, m) ==
  /\ Merging(requests, b, m)[0] = Disk!BlockRead(b)
  /\ \A k \in 1 .. m : Merging(requests, b, m)[k]
                        = Disk!BlockAfter(requests[k], b, Merging(requests, b, m)[k - 1])
  /\ \A k \in 0 .. m : Merging(requests, b, m)[k] \in [0 .. BlockSize - 1 -> Value]

LEMMA MergingTyped ==
  ASSUME BlockSize \in Nat \ {0}, 0 \in Value, NEW n \in Nat, FileOf(file, n),
         NEW m \in Nat, NEW requests, Len(requests) = m, \A k \in 1 .. m : Within(requests[k], n),
         NEW b \in Nat
  PROVE  MergesBytes(requests, b, m)
<1> DEFINE c == Merging(requests, b, m)
<1>1. PutsIn(c, requests, b, m)
  BY MergedIs
<1> HIDE DEF c
<1>2. c[0] = Disk!BlockRead(b) /\ \A k \in 1 .. m : c[k] = Disk!BlockAfter(requests[k], b, c[k - 1])
  BY <1>1 DEF PutsIn
<1> DEFINE S == { k \in 0 .. m : c[k] \in [0 .. BlockSize - 1 -> Value] }
<1>3. 0 \in S
  BY <1>2, BlockReadTyped
<1>4. ASSUME NEW k \in 0 .. m - 1, k \in S PROVE k + 1 \in S
  <2>1. k + 1 \in 1 .. m /\ k + 1 \in 0 .. m /\ (k + 1) - 1 = k
    OBVIOUS
  <2>2. c[k] \in [0 .. BlockSize - 1 -> Value]
    BY <1>4
  <2>3. Within(requests[k + 1], n) /\ c[k + 1] = Disk!BlockAfter(requests[k + 1], b, c[k])
    BY <1>2, <2>1
  <2> DEFINE r == requests[k + 1]
             here == c[k]
  <2> HIDE DEF r, here
  <2>4. Disk!BlockAfter(r, b, here) \in [0 .. BlockSize - 1 -> Value]
    <3>1. Within(r, n) /\ here \in [0 .. BlockSize - 1 -> Value]
      BY <2>2, <2>3 DEF r, here
    <3> QED BY <3>1, BlockAfterAt
  <2> QED BY <2>1, <2>3, <2>4 DEF r, here
<1>5. \A k \in 0 .. m : k \in S
  <2> HIDE DEF S
  <2> QED BY <1>3, <1>4, PrefixInduction
<1> QED
  BY <1>2, <1>5 DEF c, MergesBytes

(* The bytes of the memory, as the WRITEs of the first k requests are put   *)
(* in the blocks.                                                           *)
BytesAfter(requests, m, k, n) ==
  [a \in 0 .. n - 1 |-> Merging(requests, a \div BlockSize, m)[k][a - BlockSize * (a \div BlockSize)]]

LEMMA BytesFollow ==
  ASSUME BlockSize \in Nat \ {0}, 0 \in Value, NEW n \in Nat, FileOf(file, n),
         NEW m \in Nat, NEW requests, Len(requests) = m, \A k \in 1 .. m : Within(requests[k], n)
  PROVE  /\ BytesAfter(requests, m, 0, n) = BytesOf(file, n)
         /\ \A k \in 1 .. m : BytesAfter(requests, m, k, n)
                                = AfterWrite(BytesAfter(requests, m, k - 1, n), requests[k])
<1>1. ASSUME NEW a \in 0 .. n - 1
      PROVE  LET b == a \div BlockSize
                 i == a - BlockSize * b
             IN  b \in Nat /\ i \in 0 .. BlockSize - 1 /\ BlockSize * b + i = a
  <2> DEFINE b == a \div BlockSize
  <2>1. b \in Nat /\ BlockSize * b <= a /\ a < BlockSize * b + BlockSize
    BY BlockOf
  <2>2. BlockSize * b \in Nat
    BY <2>1
  <2> HIDE DEF b
  <2> DEFINE base == BlockSize * b
  <2>3. base \in Nat /\ base <= a /\ a < base + BlockSize
    BY <2>1, <2>2
  <2> HIDE DEF base
  <2>4. a - base \in 0 .. BlockSize - 1 /\ base + (a - base) = a
    BY <2>3
  <2> QED BY <2>1, <2>4 DEF b, base
<1>a. ASSUME NEW b, b \in Nat
      PROVE  /\ Merging(requests, b, m)[0] = Disk!BlockRead(b)
             /\ \A k \in 1 .. m : Merging(requests, b, m)[k]
                                   = Disk!BlockAfter(requests[k], b, Merging(requests, b, m)[k - 1])
             /\ \A k \in 0 .. m : Merging(requests, b, m)[k] \in [0 .. BlockSize - 1 -> Value]
  <2>1. MergesBytes(requests, b, m)
    BY <1>a, MergingTyped
  <2> QED BY <2>1 DEF MergesBytes
<1>2. BytesAfter(requests, m, 0, n) = BytesOf(file, n)
  <2>1. ASSUME NEW a \in 0 .. n - 1
        PROVE  Merging(requests, a \div BlockSize, m)[0][a - BlockSize * (a \div BlockSize)] = file[a]
    <3> DEFINE b == a \div BlockSize
               i == a - BlockSize * b
    <3>1. b \in Nat /\ i \in 0 .. BlockSize - 1 /\ BlockSize * b + i = a
      BY <1>1
    <3> HIDE DEF b, i
    <3>2. Merging(requests, b, m)[0] = Disk!BlockRead(b)
      BY <3>1, <1>a
    <3>3. a < n
      OBVIOUS
    <3>4. Disk!BlockRead(b)[i] = file[a]
      BY <3>1, <3>3, BlockReadTyped
    <3> QED BY <3>2, <3>4 DEF b, i
  <2> QED BY <2>1 DEF BytesAfter, BytesOf
<1>3. ASSUME NEW k \in 1 .. m
      PROVE  BytesAfter(requests, m, k, n) = AfterWrite(BytesAfter(requests, m, k - 1, n), requests[k])
  <2> DEFINE old == BytesAfter(requests, m, k - 1, n)
             r == requests[k]
             new == BytesAfter(requests, m, k, n)
  <2>0. Within(r, n)
    OBVIOUS
  <2> HIDE DEF r
  <2>1. ASSUME NEW a \in 0 .. n - 1
        PROVE  /\ old[a] = Merging(requests, a \div BlockSize, m)[k - 1][a - BlockSize * (a \div BlockSize)]
               /\ new[a] = IF r.type = "WRITE" /\ a \in CellsOf(r) THEN r.data[a - r.address] ELSE old[a]
    <3> DEFINE b == a \div BlockSize
               i == a - BlockSize * b
    <3>1. b \in Nat /\ i \in 0 .. BlockSize - 1 /\ BlockSize * b + i = a
      BY <1>1
    <3>2. old[a] = Merging(requests, b, m)[k - 1][i] /\ new[a] = Merging(requests, b, m)[k][i]
      BY DEF BytesAfter
    <3> HIDE DEF b, i, old, new
    <3> DEFINE here == Merging(requests, b, m)[k - 1]
    <3>3. /\ here \in [0 .. BlockSize - 1 -> Value]
          /\ Merging(requests, b, m)[k] = Disk!BlockAfter(r, b, here)
      <4>1. k - 1 \in 0 .. m
        OBVIOUS
      <4>2. (k - 1) \in 0 .. m /\ Merging(requests, b, m)[k - 1] \in [0 .. BlockSize - 1 -> Value]
        BY <1>a, <3>1, <4>1
      <4>3. Merging(requests, b, m)[k] = Disk!BlockAfter(requests[k], b, Merging(requests, b, m)[k - 1])
        BY <1>a, <3>1
      <4> QED BY <4>2, <4>3 DEF r
    <3> HIDE DEF here
    <3>4. Disk!BlockAfter(r, b, here)[i]
            = IF r.type = "WRITE" /\ a \in CellsOf(r) THEN r.data[a - r.address] ELSE here[i]
      <4>1. Disk!BlockAfter(r, b, here)[i]
              = IF r.type = "WRITE" /\ BlockSize * b + i \in CellsOf(r)
                THEN r.data[BlockSize * b + i - r.address] ELSE here[i]
        BY <2>0, <3>1, <3>3, BlockAfterAt
      <4> DEFINE base == BlockSize * b
      <4>2. base + i = a /\ base \in Nat /\ i \in Nat /\ r.address \in Nat
        BY <2>0, <3>1 DEF Within
      <4> HIDE DEF base
      <4>3. Disk!BlockAfter(r, b, here)[i]
              = IF r.type = "WRITE" /\ base + i \in CellsOf(r)
                THEN r.data[base + i - r.address] ELSE here[i]
        BY <4>1 DEF base
      <4>4. base + i \in CellsOf(r) <=> a \in CellsOf(r)
        BY <4>2
      <4> DEFINE ra == r.address
                 data == r.data
      <4>5. data[base + i - ra] = data[a - ra]
        <5>1. ra \in Nat
          BY <4>2
        <5> HIDE DEF ra, data
        <5> QED BY <4>2, <5>1
      <4> QED BY <4>3, <4>4, <4>5
    <3> QED BY <3>2, <3>3, <3>4 DEF b, i, here
  <2>2. old = [a \in 0 .. n - 1 |-> old[a]] /\ new = [a \in 0 .. n - 1 |-> new[a]] /\ DOMAIN old = 0 .. n - 1
    BY DEF BytesAfter
  <2> HIDE DEF old, new
  <2>3. r.type \in {"READ", "WRITE"}
    BY <2>0 DEF Within
  <2>4. CASE r.type = "READ"
    <3>1. \A a \in 0 .. n - 1 : new[a] = old[a]
      BY <2>1, <2>4
    <3>2. AfterWrite(old, r) = old
      BY <2>4 DEF AfterWrite
    <3>3. new = old
      BY <2>2, <3>1
    <3> QED BY <3>2, <3>3 DEF old, new, r
  <2>5. CASE r.type = "WRITE"
    <3>1. AfterWrite(old, r) = [a \in 0 .. n - 1 |-> IF a \in CellsOf(r) THEN r.data[a - r.address] ELSE old[a]]
      BY <2>2, <2>5 DEF AfterWrite
    <3>2. \A a \in 0 .. n - 1 : new[a] = IF a \in CellsOf(r) THEN r.data[a - r.address] ELSE old[a]
      BY <2>1, <2>5
    <3>3. new = AfterWrite(old, r)
      BY <2>2, <3>1, <3>2
    <3> QED BY <3>3 DEF old, new, r
  <2> QED BY <2>3, <2>4, <2>5
<1> QED
  BY <1>2, <1>3

(* A READ has what the file has, whichever buffers its parts come from.     *)
LEMMA DataIsRead ==
  ASSUME BlockSize \in Nat \ {0}, 0 \in Value, NEW n \in Nat, FileOf(file, n),
         NEW r, Within(r, n)
  PROVE  Disk!DataOf(r) = DataRead(BytesOf(file, n), r)
<1>1. r.address \in Nat /\ r.size \in Nat \ {0} /\ r.address + r.size <= n
  BY DEF Within
<1> DEFINE blocks == Disk!BlocksOf(r.address, r.size, BlockSize)
           Has(b, i) == i - Disk!Part(r, b).requestOffset \in 0 .. Disk!Part(r, b).size - 1
<1>2. ASSUME NEW i \in 0 .. r.size - 1
      PROVE  LET block == CHOOSE b \in blocks : Has(b, i)
                 part == Disk!Part(r, block)
             IN  Disk!BlockRead(block)[part.blockOffset + i - part.requestOffset]
                   = BytesOf(file, n)[r.address + i]
  <2> DEFINE a == r.address + i
             block == CHOOSE b \in blocks : Has(b, i)
             part == Disk!Part(r, block)
             x == part.blockOffset + i - part.requestOffset
  <2>1. a \in 0 .. n - 1
    BY <1>1
  <2>2. block \in Nat /\ x \in 0 .. BlockSize - 1 /\ BlockSize * block + x = a
    <3> DEFINE ra == r.address
               rs == r.size
    <3>1. ra \in Nat /\ rs \in Nat \ {0} /\ i \in 0 .. rs - 1
      BY <1>1
    <3> HIDE DEF ra, rs
    <3>2. LET bl == CHOOSE b \in Disk!BlocksOf(ra, rs, BlockSize) :
                      i - Disk!PartIn(b, ra, rs, BlockSize).requestOffset
                        \in 0 .. Disk!PartIn(b, ra, rs, BlockSize).size - 1
              pt == Disk!PartIn(bl, ra, rs, BlockSize)
              y == pt.blockOffset + i - pt.requestOffset
          IN  bl \in Nat /\ y \in 0 .. BlockSize - 1 /\ BlockSize * bl + y = ra + i
      BY <3>1, PartFound
    <3> QED BY <3>2 DEF ra, rs, Disk!Part
  <2> HIDE DEF x, block
  <2>3. Disk!BlockRead(block)[x] = file[a]
    <3>1. BlockSize * block + x < n
      BY <2>1, <2>2
    <3>2. Disk!BlockRead(block)[x] = file[BlockSize * block + x]
      BY <2>2, <3>1, BlockReadTyped
    <3> QED BY <2>2, <3>2
  <2>4. BytesOf(file, n)[a] = file[a]
    BY <2>1 DEF BytesOf
  <2> QED BY <2>3, <2>4 DEF x, block
<1> QED
  BY <1>2 DEF Disk!DataOf, DataRead

(* A block that a request within the memory touches starts in the memory.   *)
LEMMA TouchedWithin ==
  ASSUME BlockSize \in Nat \ {0}, NEW n \in Nat, NEW r, Within(r, n),
         NEW b, b \in Disk!BlocksOf(r.address, r.size, BlockSize)
  PROVE  b \in Nat /\ BlockSize * b \in Nat /\ BlockSize * b < n
<1> DEFINE ra == r.address
           rs == r.size
<1>1. ra \in Nat /\ rs \in Nat \ {0} /\ ra + rs <= n /\ b \in Disk!BlocksOf(ra, rs, BlockSize)
  BY DEF Within
<1> HIDE DEF ra, rs
<1> QED
  BY <1>1, TouchedStarts

LEMMA UntouchedStays ==
  ASSUME BlockSize \in Nat \ {0}, 0 \in Value, NEW n \in Nat, FileOf(file, n),
         NEW m \in Nat, NEW requests, Len(requests) = m, \A k \in 1 .. m : Within(requests[k], n),
         NEW b \in Nat,
         \A k \in 1 .. m : \/ requests[k].type # "WRITE"
                           \/ b \notin Disk!BlocksOf(requests[k].address, requests[k].size, BlockSize)
  PROVE  Merging(requests, b, m)[m] = Disk!BlockRead(b)
<1> DEFINE c == Merging(requests, b, m)
<1>0. PutsIn(c, requests, b, m)
  BY MergedIs
<1>1. /\ c[0] = Disk!BlockRead(b)
      /\ \A k \in 1 .. m : c[k] = Disk!BlockAfter(requests[k], b, c[k - 1])
  BY <1>0 DEF PutsIn
<1> HIDE DEF c
<1> DEFINE S == { k \in 0 .. m : c[k] = Disk!BlockRead(b) }
<1>2. 0 \in S
  BY <1>1
<1>3. ASSUME NEW k \in 0 .. m - 1, k \in S PROVE k + 1 \in S
  <2>1. k + 1 \in 1 .. m /\ k + 1 \in 0 .. m /\ (k + 1) - 1 = k
    OBVIOUS
  <2> DEFINE r == requests[k + 1]
  <2>2. \/ r.type # "WRITE"
        \/ b \notin Disk!BlocksOf(r.address, r.size, BlockSize)
    BY <2>1
  <2>3. c[k + 1] = Disk!BlockAfter(r, b, c[k])
    BY <1>1, <2>1
  <2> HIDE DEF r
  <2>4. c[k + 1] = c[k]
    BY <2>2, <2>3 DEF Disk!BlockAfter
  <2> QED BY <1>3, <2>1, <2>4
<1>4. \A k \in 0 .. m : k \in S
  <2> HIDE DEF S
  <2> QED BY <1>2, <1>3, PrefixInduction
<1>5. m \in 0 .. m
  OBVIOUS
<1> QED
  BY <1>4, <1>5 DEF c

(* What a batch writes: whole blocks, the last of which may make the file   *)
(* longer, with every byte of the memory as the WRITEs leave it.            *)
LEMMA Written ==
  ASSUME BlockSize \in Nat \ {0}, 0 \in Value, NEW n \in Nat, NEW q \in Nat, NEW l \in Nat,
         n <= l, l <= BlockSize * q, file \in [0 .. l - 1 -> Value],
         NEW m \in Nat, NEW requests, Len(requests) = m, DOMAIN requests = 1 .. m,
         \A k \in 1 .. m : Within(requests[k], n)
  PROVE  /\ \E e \in n .. BlockSize * q : l <= e /\ Disk!FileWritten(requests) \in [0 .. e - 1 -> Value]
         /\ BytesOf(Disk!FileWritten(requests), n) = BytesAfter(requests, m, m, n)
<1> DEFINE blocks == Disk!BlocksTouched(requests, "WRITE")
           whole == BlockSize * q
           Base(b) == BlockSize * b
           Bytes(b) == Base(b) .. Base(b) + BlockSize - 1
           now == Disk!FileWritten(requests)
           all == 0 .. l - 1 \cup UNION {Bytes(b) : b \in blocks}
<1>0. whole \in Nat /\ l \in Nat /\ n <= l /\ l <= whole
  <2>1. whole \in Nat
    OBVIOUS
  <2> HIDE DEF whole
  <2> QED BY <2>1 DEF whole
<1>a. FileOf(file, n)
  BY <1>0 DEF FileOf
<1>1. ASSUME NEW b, b \in blocks
      PROVE  b \in Nat /\ Base(b) \in Nat /\ Base(b) < n
  <2>1. PICK k \in 1 .. m : requests[k].type = "WRITE"
                            /\ b \in Disk!BlocksOf(requests[k].address, requests[k].size, BlockSize)
    BY <1>1 DEF Disk!BlocksTouched
  <2> DEFINE r == requests[k]
  <2>2. Within(r, n) /\ b \in Disk!BlocksOf(r.address, r.size, BlockSize)
    BY <2>1
  <2> HIDE DEF r
  <2> QED BY <2>2, TouchedWithin
<1>2. ASSUME NEW b \in Nat, b \notin blocks, NEW k \in 1 .. m
      PROVE  \/ requests[k].type # "WRITE"
             \/ b \notin Disk!BlocksOf(requests[k].address, requests[k].size, BlockSize)
  BY <1>2 DEF Disk!BlocksTouched
<1>3. ASSUME NEW x \in Nat, NEW y \in Nat
      PROVE  x < y => Base(x) \in Nat /\ Base(y) \in Nat /\ Base(x) + BlockSize <= Base(y)
  BY BlocksApart
<1>4. ASSUME NEW b, b \in blocks
      PROVE  Base(b) + BlockSize <= whole
  <2>1. b \in Nat /\ Base(b) \in Nat /\ Base(b) < n
    BY <1>1, <1>4
  <2>2. b < q
    <3>1. q < b => Base(q) + BlockSize <= Base(b)
      BY <1>3, <2>1
    <3>2. b = q => Base(b) = whole
      OBVIOUS
    <3>3. whole = Base(q)
      OBVIOUS
    <3> HIDE DEF Base, whole
    <3> QED BY <1>0, <2>1, <3>1, <3>2, <3>3
  <2>3. Base(b) + BlockSize <= Base(q)
    BY <1>3, <2>1, <2>2
  <2> QED BY <2>3
<1>5. now = [a \in all |-> IF \E b \in blocks : a \in Bytes(b)
                              THEN LET b == CHOOSE b \in blocks : a \in Bytes(b)
                                   IN  Disk!BlockMerged(requests, b)[a - Base(b)]
                              ELSE file[a]]
  <2>1. DOMAIN file = 0 .. l - 1
    OBVIOUS
  <2>2. ASSUME NEW a, \E b \in blocks : a \in Bytes(b)
        PROVE  LET b == CHOOSE b \in blocks : a \in Bytes(b)
               IN  [x \in blocks |-> Disk!BlockMerged(requests, x)][b] = Disk!BlockMerged(requests, b)
    <3> DEFINE b == CHOOSE b \in blocks : a \in Bytes(b)
    <3>1. b \in blocks
      BY <2>2
    <3> HIDE DEF b, blocks
    <3>2. [x \in blocks |-> Disk!BlockMerged(requests, x)][b] = Disk!BlockMerged(requests, b)
      BY <3>1
    <3> QED BY <3>2 DEF b, blocks
  <2> QED BY <2>1, <2>2 DEF Disk!FileWritten, Disk!Offset
<1> HIDE DEF blocks, now
<1>6. PICK e \in n .. whole : l <= e /\ all = 0 .. e - 1
  <2>1. CASE \E b \in blocks : Base(b) + BlockSize > l
    <3>1. PICK b \in blocks : Base(b) + BlockSize > l
      BY <2>1
    <3> DEFINE e == Base(b) + BlockSize
    <3>2. b \in Nat /\ Base(b) \in Nat /\ Base(b) < n /\ e <= whole
      BY <1>1, <1>4
    <3>3. e \in n .. whole /\ l <= e
      <4> HIDE DEF Base, whole
      <4> QED BY <1>0, <3>1, <3>2
    <3>4. ASSUME NEW x, x \in blocks
          PROVE  Bytes(x) \subseteq 0 .. e - 1
      <4>1. x \in Nat /\ Base(x) \in Nat /\ Base(x) < n
        BY <1>1, <3>4
      <4>2. /\ b < x => Base(b) + BlockSize <= Base(x)
            /\ x < b => Base(x) + BlockSize <= Base(b)
        BY <1>3, <3>2, <4>1
      <4>3. x = b => Base(x) = Base(b)
        OBVIOUS
      <4>4. Base(x) + BlockSize <= e
        <5> HIDE DEF Base
        <5> QED BY <1>0, <3>1, <3>2, <4>1, <4>2, <4>3
      <4> HIDE DEF Base, e
      <4>5. e \in Nat
        BY <1>0, <3>3
      <4> QED BY <4>1, <4>4, <4>5
    <3>5. 0 .. e - 1 \subseteq 0 .. l - 1 \cup Bytes(b)
      <4> HIDE DEF Base, whole
      <4> QED BY <1>0, <3>2
    <3>6. 0 .. l - 1 \subseteq 0 .. e - 1
      <4> HIDE DEF e, whole
      <4> QED BY <1>0, <3>3
    <3>7. all = 0 .. e - 1
      <4>1. Bytes(b) \subseteq UNION {Bytes(x) : x \in blocks}
        BY <3>1
      <4>2. UNION {Bytes(x) : x \in blocks} \subseteq 0 .. e - 1
        BY <3>4
      <4> HIDE DEF Bytes, e
      <4> QED BY <3>5, <3>6, <4>1, <4>2
    <3> QED BY <3>3, <3>7
  <2>2. CASE \A b \in blocks : ~(Base(b) + BlockSize > l)
    <3>1. ASSUME NEW x, x \in blocks
          PROVE  Bytes(x) \subseteq 0 .. l - 1
      <4>1. x \in Nat /\ Base(x) \in Nat /\ ~(Base(x) + BlockSize > l)
        BY <1>1, <2>2, <3>1
      <4> HIDE DEF Base
      <4> QED BY <1>0, <4>1
    <3>2. UNION {Bytes(x) : x \in blocks} \subseteq 0 .. l - 1
      BY <3>1
    <3>3. all = 0 .. l - 1
      <4> HIDE DEF Bytes
      <4> QED BY <3>2
    <3>4. l \in n .. whole /\ l <= l
      BY <1>0
    <3> QED BY <3>3, <3>4
  <2> QED BY <2>1, <2>2
<1> HIDE DEF all
<1>7. e \in Nat /\ n <= e
  <2> HIDE DEF whole
  <2> QED BY <1>0, <1>6
<1>8. ASSUME NEW b, b \in Nat
      PROVE  /\ Disk!BlockMerged(requests, b) = Merging(requests, b, m)[m]
             /\ Merging(requests, b, m)[m] \in [0 .. BlockSize - 1 -> Value]
             /\ b \notin blocks => Merging(requests, b, m)[m] = Disk!BlockRead(b)
  <2>1. Disk!BlockMerged(requests, b) = Merging(requests, b, m)[m]
    BY MergedIs
  <2>2. \A k \in 0 .. m : Merging(requests, b, m)[k] \in [0 .. BlockSize - 1 -> Value]
    <3>1. MergesBytes(requests, b, m)
      BY <1>a, <1>8, MergingTyped
    <3> QED BY <3>1 DEF MergesBytes
  <2>3. m \in 0 .. m
    OBVIOUS
  <2>4. b \notin blocks => Merging(requests, b, m)[m] = Disk!BlockRead(b)
    BY <1>a, <1>2, <1>8, UntouchedStays
  <2> QED BY <2>1, <2>2, <2>3, <2>4
<1>9. ASSUME NEW a \in 0 .. e - 1
      PROVE  /\ now[a] \in Value
             /\ a < n => now[a] = Merging(requests, a \div BlockSize, m)[m][a - Base(a \div BlockSize)]
  <2>1. a \in all /\ a \in Nat
    BY <1>6, <1>7
  <2> DEFINE d == a \div BlockSize
  <2>2. d \in Nat /\ Base(d) <= a /\ a < Base(d) + BlockSize /\ Base(d) \in Nat
    <3>1. d \in Nat /\ BlockSize * d <= a /\ a < BlockSize * d + BlockSize
      BY <2>1, BlockOf
    <3> HIDE DEF d
    <3>2. BlockSize * d \in Nat
      BY <3>1
    <3> QED BY <3>1, <3>2
  <2> HIDE DEF d
  <2>3. CASE \E b \in blocks : a \in Bytes(b)
    <3> DEFINE b == CHOOSE b \in blocks : a \in Bytes(b)
    <3>1. b \in blocks /\ a \in Bytes(b)
      BY <2>3
    <3>2. now[a] = Disk!BlockMerged(requests, b)[a - Base(b)]
      BY <1>5, <2>1, <2>3
    <3> HIDE DEF b
    <3>3. b \in Nat /\ Base(b) \in Nat
      BY <1>1, <3>1
    <3>4. b = d
      <4>1. /\ b < d => Base(b) + BlockSize <= Base(d)
            /\ d < b => Base(d) + BlockSize <= Base(b)
        BY <1>3, <2>2, <3>3
      <4>2. Base(b) <= a /\ a < Base(b) + BlockSize
        <5> HIDE DEF Base
        <5> QED BY <3>1, <3>3
      <4> HIDE DEF Base
      <4> QED BY <2>1, <2>2, <3>3, <4>1, <4>2
    <3>5. a - Base(b) \in 0 .. BlockSize - 1
      <4> HIDE DEF Base
      <4> QED BY <3>1, <3>3
    <3>6. Disk!BlockMerged(requests, b) = Merging(requests, b, m)[m]
          /\ Merging(requests, b, m)[m] \in [0 .. BlockSize - 1 -> Value]
      BY <1>8, <3>3
    <3>7. now[a] = Merging(requests, b, m)[m][a - Base(b)]
      BY <3>2, <3>6
    <3>8. now[a] \in Value
      <4> DEFINE c == Merging(requests, b, m)[m]
                 i == a - Base(b)
      <4>1. c \in [0 .. BlockSize - 1 -> Value] /\ i \in 0 .. BlockSize - 1 /\ now[a] = c[i]
        BY <3>5, <3>6, <3>7
      <4> HIDE DEF c, i
      <4> QED BY <4>1
    <3> QED BY <3>4, <3>7, <3>8 DEF d
  <2>4. CASE ~ \E b \in blocks : a \in Bytes(b)
    <3>1. now[a] = file[a]
      BY <1>5, <2>1, <2>4
    <3>2. a \in 0 .. l - 1
      BY <2>1, <2>4 DEF all
    <3>3. d \notin blocks
      <4>1. a \in Bytes(d)
        <5> HIDE DEF Base
        <5> QED BY <2>1, <2>2
      <4> QED BY <2>4, <4>1
    <3>4. a < n => Disk!BlockRead(d)[a - Base(d)] = file[a]
      <4> DEFINE base == Base(d)
                 i == a - base
      <4>0. base \in Nat /\ base <= a /\ a < base + BlockSize
        BY <2>2
      <4>1. i \in 0 .. BlockSize - 1 /\ base + i = a
        <5> HIDE DEF base
        <5> QED BY <2>1, <4>0
      <4> HIDE DEF i
      <4>2. BlockSize * d + i = a
        BY <4>1
      <4>3. BlockSize * d + i < n => Disk!BlockRead(d)[i] = file[BlockSize * d + i]
        BY <1>a, <2>2, <4>1, BlockReadTyped
      <4>4. a < n => Disk!BlockRead(d)[i] = file[a]
        BY <4>2, <4>3
      <4> QED BY <4>4 DEF i
    <3>5. Merging(requests, d, m)[m] = Disk!BlockRead(d)
      BY <1>8, <2>2, <3>3
    <3>6. file[a] \in Value
      BY <3>2
    <3> QED BY <3>1, <3>4, <3>5, <3>6 DEF d
  <2> QED BY <2>3, <2>4
<1>10. now \in [0 .. e - 1 -> Value]
  <2>1. now = [a \in 0 .. e - 1 |-> now[a]]
    BY <1>5, <1>6
  <2> QED BY <1>9, <2>1
<1>11. BytesOf(now, n) = BytesAfter(requests, m, m, n)
  <2>1. \A a \in 0 .. n - 1 : a \in 0 .. e - 1 /\ a < n
    BY <1>7
  <2> QED BY <1>9, <2>1 DEF BytesOf, BytesAfter
<1> QED
  BY <1>6, <1>10, <1>11 DEF now

(* What a batch returns: each READ has what the file had. *)
Returned(requests) ==
  [i \in DOMAIN requests |->
     IF requests[i].type = "READ" THEN DataRead(BytesOf(file, size), requests[i]) ELSE requests[i].data]

(* The READs first, and then the WRITEs as they come.                       *)
LEMMA ReadsThenWrites ==
  ASSUME BlockSize \in Nat \ {0}, 0 \in Value, size \in Nat, FileOf(file, size),
         NEW m \in Nat, NEW requests, Len(requests) = m, DOMAIN requests = 1 .. m,
         \A k \in 1 .. m : Within(requests[k], size)
  PROVE  Ordered(1 .. m, BytesOf(file, size), requests, BytesAfter(requests, m, m, size), Returned(requests))
<1> DEFINE start == BytesOf(file, size)
           data == Returned(requests)
           R(k) == { i \in 1 .. k : requests[i].type = "READ" }
           W(k) == R(m) \cup { i \in 1 .. k : requests[i].type # "READ" }
           Bytes(k) == BytesAfter(requests, m, k, size)
<1>1. \A i \in 1 .. m : data[i] = IF requests[i].type = "READ" THEN DataRead(start, requests[i])
                                  ELSE requests[i].data
  BY DEF Returned
<1>2. Bytes(0) = start /\ \A k \in 1 .. m : Bytes(k) = AfterWrite(Bytes(k - 1), requests[k])
  BY BytesFollow
<1> HIDE DEF start, data, Bytes
<1>3. Ordered(R(m), start, requests, start, data)
  <2> DEFINE S == { k \in 0 .. m : Ordered(R(k), start, requests, start, data) }
  <2>1. 0 \in S
    <3>1. R(0) = {}
      OBVIOUS
    <3>2. Ordered(R(0), start, requests, start, data)
      BY <3>1, NoneOrdered
    <3> QED BY <3>2
  <2>2. ASSUME NEW k \in 0 .. m - 1, k \in S PROVE k + 1 \in S
    <3>1. k + 1 \in 1 .. m /\ k + 1 \in 0 .. m
      OBVIOUS
    <3> DEFINE d == k + 1
    <3>2. Ordered(R(k), start, requests, start, data)
      BY <2>2
    <3>3. R(k + 1) = IF requests[d].type = "READ" THEN R(k) \cup {d} ELSE R(k)
      <4>1. \A i : i \in 1 .. k + 1 <=> i \in 1 .. k \/ i = d
        OBVIOUS
      <4> HIDE DEF d
      <4> QED BY <4>1
    <3>4. d \notin R(k)
      OBVIOUS
    <3> HIDE DEF d, R
    <3>5. CASE requests[d].type = "READ"
      <4>1. AfterWrite(start, requests[d]) = start
        BY <3>5 DEF AfterWrite
      <4>2. data[d] = AnswerOf(requests[d], start)
        BY <1>1, <3>1, <3>5 DEF AnswerOf, d
      <4>3. Ordered(R(k) \cup {d}, start, requests, AfterWrite(start, requests[d]), data)
        BY <3>2, <3>4, <4>2, OneMoreOrdered
      <4>4. Ordered(R(k + 1), start, requests, start, data)
        BY <3>3, <3>5, <4>1, <4>3
      <4> QED BY <3>1, <4>4
    <3>6. CASE requests[d].type # "READ"
      <4>1. Ordered(R(k + 1), start, requests, start, data)
        BY <3>2, <3>3, <3>6
      <4> QED BY <3>1, <4>1
    <3> QED BY <3>5, <3>6
  <2>3. \A k \in 0 .. m : k \in S
    <3> HIDE DEF S
    <3> QED BY <2>1, <2>2, PrefixInduction
  <2>4. m \in 0 .. m
    OBVIOUS
  <2> QED BY <2>3, <2>4
<1>4. Ordered(W(m), start, requests, Bytes(m), data)
  <2> DEFINE S == { k \in 0 .. m : Ordered(W(k), start, requests, Bytes(k), data) }
  <2>1. 0 \in S
    <3>1. W(0) = R(m)
      <4> HIDE DEF R
      <4> QED OBVIOUS
    <3>2. Ordered(W(0), start, requests, Bytes(0), data)
      <4> HIDE DEF R, W
      <4> QED BY <1>2, <1>3, <3>1
    <3> HIDE DEF W
    <3> QED BY <3>2
  <2>2. ASSUME NEW k \in 0 .. m - 1, k \in S PROVE k + 1 \in S
    <3>1. k + 1 \in 1 .. m /\ k + 1 \in 0 .. m /\ (k + 1) - 1 = k
      OBVIOUS
    <3> DEFINE d == k + 1
    <3>2. Ordered(W(k), start, requests, Bytes(k), data)
      BY <2>2
    <3>3. W(k + 1) = IF requests[d].type # "READ" THEN W(k) \cup {d} ELSE W(k)
      <4>1. \A i : i \in 1 .. k + 1 <=> i \in 1 .. k \/ i = d
        OBVIOUS
      <4> HIDE DEF d, R
      <4> QED BY <4>1
    <3>4. requests[d].type # "READ" => d \notin W(k)
      OBVIOUS
    <3>5. Bytes(k + 1) = AfterWrite(Bytes(k), requests[d])
      BY <1>2, <3>1
    <3> HIDE DEF d, W, R
    <3>6. CASE requests[d].type # "READ"
      <4>1. data[d] = AnswerOf(requests[d], Bytes(k))
        BY <1>1, <3>1, <3>6 DEF AnswerOf, d
      <4>2. Ordered(W(k) \cup {d}, start, requests, AfterWrite(Bytes(k), requests[d]), data)
        BY <3>2, <3>4, <3>6, <4>1, OneMoreOrdered
      <4>3. Ordered(W(k + 1), start, requests, Bytes(k + 1), data)
        BY <3>3, <3>5, <3>6, <4>2
      <4> QED BY <3>1, <4>3
    <3>7. CASE requests[d].type = "READ"
      <4>1. Bytes(k + 1) = Bytes(k)
        BY <3>5, <3>7 DEF AfterWrite
      <4>2. Ordered(W(k + 1), start, requests, Bytes(k + 1), data)
        BY <3>2, <3>3, <3>7, <4>1
      <4> QED BY <3>1, <4>2
    <3> QED BY <3>6, <3>7
  <2>3. \A k \in 0 .. m : k \in S
    <3> HIDE DEF S
    <3> QED BY <2>1, <2>2, PrefixInduction
  <2>4. m \in 0 .. m
    OBVIOUS
  <2> QED BY <2>3, <2>4
<1>5. W(m) = 1 .. m
  OBVIOUS
<1> HIDE DEF W
<1> QED
  BY <1>4, <1>5 DEF start, data, Bytes

(* A request with other data is a record still. *)
LEMMA DataReplaced ==
  ASSUME NEW n \in Nat, NEW r, r \in Disk!Requests(n), NEW d
  PROVE  LET q == [r EXCEPT !.data = d]
         IN  q.type = r.type /\ q.address = r.address /\ q.size = r.size /\ q.data = d
<1>1. PICK a \in 0 .. n - 1 : \E s \in {l \in 1 .. MaxLength : a + l <= n} : r \in Disk!RequestsOf(a, s)
  BY DEF Disk!Requests
<1>2. PICK s \in {l \in 1 .. MaxLength : a + l <= n} : r \in Disk!RequestsOf(a, s)
  BY <1>1
<1>3. r = [type |-> r.type, address |-> r.address, size |-> r.size, data |-> r.data]
  BY <1>2 DEF Disk!RequestsOf
<1> QED
  BY <1>3

(* The file has the bytes of the memory, and at most whole blocks; what the *)
(* batch has done last, or nothing since, leads from the bytes before to    *)
(* those of the file.                                                       *)
DiskInv(s, f, requests, b) ==
  /\ s \in Size .. Disk!WholeBlocks
  /\ \E l \in s .. Disk!WholeBlocks : f \in [0 .. l - 1 -> Value] /\ DOMAIN b \subseteq 0 .. l - 1
  /\ \E m \in Nat :
       /\ DOMAIN requests = 1 .. m /\ Len(requests) = m
       /\ \A i \in 1 .. m : DOMAIN requests[i].data = 0 .. requests[i].size - 1
       /\ Ordered(1 .. m, BytesOf(b, s), requests, BytesOf(f, s), [i \in 1 .. m |-> requests[i].data])
  /\ requests = << >> => b = f

DiskIInv == DiskInv(size, file, batch, before)

LEMMA Whole ==
  ASSUME Disk!Parameters
  PROVE  \E q \in Nat : Disk!WholeBlocks = BlockSize * q /\ BlockSize * q \in Nat /\ Size <= BlockSize * q
<1>1. Size \in Nat \ {0} /\ BlockSize \in Nat \ {0}
  BY DEF Disk!Parameters
<1> DEFINE a == Size + BlockSize - 1
           q == a \div BlockSize
           whole == BlockSize * q
<1>2. a \in Nat
  BY <1>1
<1>3. q \in Nat /\ a < whole + BlockSize
  <2> HIDE DEF a
  <2> QED BY <1>1, <1>2, BlockOf
<1>4. whole \in Nat
  <2> HIDE DEF q
  <2> QED BY <1>1, <1>3
<1>5. Size <= whole
  <2> HIDE DEF whole
  <2> QED BY <1>1, <1>3, <1>4
<1> QED
  BY <1>3, <1>4, <1>5 DEF Disk!WholeBlocks

LEMMA NothingDone ==
  ASSUME NEW requests, requests = << >>, NEW start
  PROVE  \E m \in Nat :
           /\ DOMAIN requests = 1 .. m /\ Len(requests) = m
           /\ \A i \in 1 .. m : DOMAIN requests[i].data = 0 .. requests[i].size - 1
           /\ Ordered(1 .. m, start, requests, start, [i \in 1 .. m |-> requests[i].data])
<1>1. 1 .. 0 = {} /\ DOMAIN requests = 1 .. 0 /\ Len(requests) = 0
  OBVIOUS
<1>2. Ordered({}, start, requests, start, [i \in 1 .. 0 |-> requests[i].data])
  BY NoneOrdered
<1> QED
  BY <1>1, <1>2

LEMMA DiskInitInv == ASSUME Disk!Parameters, Disk!Init PROVE DiskIInv
<1>1. /\ Size \in Nat /\ Disk!WholeBlocks \in Nat /\ Size <= Disk!WholeBlocks /\ 0 \in Value
  BY Whole DEF Disk!Parameters
<1>2. size = Size /\ file = [a \in 0 .. Size - 1 |-> 0] /\ batch = << >> /\ before = file
  BY DEF Disk!Init
<1>3. size \in Size .. Disk!WholeBlocks /\ Size \in size .. Disk!WholeBlocks
  BY <1>1, <1>2
<1>4. file \in [0 .. Size - 1 -> Value] /\ DOMAIN before \subseteq 0 .. Size - 1
  BY <1>1, <1>2
<1> QED
  BY <1>2, <1>3, <1>4, NothingDone DEF DiskIInv, DiskInv

LEMMA DiskBatchInv ==
  ASSUME Disk!Parameters, DiskIInv,
         NEW m, m \in 1 .. MaxBatch, NEW requests, requests \in [1 .. m -> Disk!Requests(size)],
         Disk!Batch(requests)
  PROVE  DiskIInv'
<1>1. /\ BlockSize \in Nat \ {0} /\ Size \in Nat /\ 0 \in Value /\ {MaxLength, MaxBatch} \subseteq Nat
      /\ m \in Nat
  BY DEF Disk!Parameters
<1>2. PICK q \in Nat : Disk!WholeBlocks = BlockSize * q /\ BlockSize * q \in Nat
  BY Whole
<1> DEFINE whole == BlockSize * q
<1>3. /\ size \in Size .. whole
      /\ \E l \in size .. whole : file \in [0 .. l - 1 -> Value]
  BY <1>2 DEF DiskIInv, DiskInv
<1>4. size \in Nat /\ size <= whole
  <2> HIDE DEF whole
  <2> QED BY <1>1, <1>3
<1>5. PICK l \in size .. whole : file \in [0 .. l - 1 -> Value]
  BY <1>3
<1>6. FileOf(file, size)
  <2>1. l \in Nat /\ size <= l
    <3> HIDE DEF whole
    <3> QED BY <1>4, <1>5
  <2> QED BY <1>5, <2>1 DEF FileOf
<1>7. Len(requests) = m /\ DOMAIN requests = 1 .. m
  BY <1>1
<1>8. ASSUME NEW k, k \in 1 .. m PROVE Within(requests[k], size) /\ requests[k] \in Disk!Requests(size)
  <2> DEFINE r == requests[k]
  <2>1. r \in Disk!Requests(size)
    BY <1>8
  <2> HIDE DEF r
  <2>2. Within(r, size)
    BY <1>1, <1>4, <2>1, RequestsWithin
  <2> QED BY <2>1, <2>2 DEF r
<1>9. /\ \E e \in size .. whole : l <= e /\ Disk!FileWritten(requests) \in [0 .. e - 1 -> Value]
      /\ BytesOf(Disk!FileWritten(requests), size) = BytesAfter(requests, m, m, size)
  <2> DEFINE n == size
  <2>1. /\ n \in Nat /\ l \in Nat /\ n <= l /\ l <= BlockSize * q
        /\ \A k \in 1 .. m : Within(requests[k], n)
    <3>1. n \in Nat /\ l \in Nat /\ n <= l /\ l <= whole
      <4> HIDE DEF whole
      <4> QED BY <1>4, <1>5
    <3> QED BY <1>8, <3>1
  <2> HIDE DEF n
  <2>2. /\ \E e \in n .. BlockSize * q : l <= e /\ Disk!FileWritten(requests) \in [0 .. e - 1 -> Value]
        /\ BytesOf(Disk!FileWritten(requests), n) = BytesAfter(requests, m, m, n)
    BY ONLY <1>1, <1>2, <1>5, <1>7, <2>1, Written
  <2> QED BY <2>2 DEF n
<1>10. /\ file' = Disk!FileWritten(requests) /\ before' = file /\ size' = size
       /\ batch' = [i \in 1 .. m |->
                      IF requests[i].type = "READ"
                      THEN [requests[i] EXCEPT !.data = Disk!DataOf(requests[i])] ELSE requests[i]]
  BY <1>7 DEF Disk!Batch
<1>11. ASSUME NEW i \in 1 .. m
       PROVE  /\ SameRequest(requests[i], batch'[i])
              /\ batch'[i].data = Returned(requests)[i]
              /\ DOMAIN batch'[i].data = 0 .. batch'[i].size - 1
  <2> DEFINE r == requests[i]
             d == DataRead(BytesOf(file, size), r)
             got == batch'[i]
  <2>1. Within(r, size) /\ r \in Disk!Requests(size)
    BY <1>8
  <2>2. Returned(requests)[i] = IF r.type = "READ" THEN d ELSE r.data
    BY <1>7 DEF Returned
  <2>3. got = IF r.type = "READ" THEN [r EXCEPT !.data = Disk!DataOf(r)] ELSE r
    BY <1>10
  <2> HIDE DEF r, d, got
  <2>4. Disk!DataOf(r) = d
    BY <1>1, <1>4, <1>6, <2>1, DataIsRead DEF d
  <2>5. DOMAIN d = 0 .. r.size - 1 /\ DOMAIN r.data = 0 .. r.size - 1
    BY <2>1 DEF d, DataRead, Within
  <2>6. CASE r.type = "READ"
    <3>1. got = [r EXCEPT !.data = d]
      BY <2>3, <2>4, <2>6
    <3>2. got.type = r.type /\ got.address = r.address /\ got.size = r.size /\ got.data = d
      BY <1>4, <2>1, <3>1, DataReplaced
    <3> QED BY <2>2, <2>5, <2>6, <3>2 DEF SameRequest, r, got
  <2>7. CASE r.type # "READ"
    <3>1. got = r
      BY <2>3, <2>7
    <3> QED BY <2>2, <2>5, <2>7, <3>1 DEF SameRequest, r, got
  <2> QED BY <2>6, <2>7
<1> DEFINE data == [i \in 1 .. m |-> batch'[i].data]
<1>12. Ordered(1 .. m, BytesOf(file, size), requests, BytesAfter(requests, m, m, size), Returned(requests))
  BY <1>1, <1>4, <1>6, <1>7, <1>8, ReadsThenWrites
<1>13. Ordered(1 .. m, BytesOf(before', size'), batch', BytesOf(file', size'), data)
  <2>1. \A p \in 1 .. m : SameRequest(requests[p], batch'[p]) /\ Returned(requests)[p] = data[p]
    BY <1>11
  <2> DEFINE others == batch'
             start == BytesOf(file, size)
             end == BytesAfter(requests, m, m, size)
             answers == Returned(requests)
  <2> HIDE DEF others, start, end, answers, data
  <2>2. Ordered(1 .. m, start, requests, end, answers)
    BY <1>12 DEF start, end, answers
  <2>3. \A p \in 1 .. m : SameRequest(requests[p], others[p]) /\ answers[p] = data[p]
    BY <2>1 DEF others, answers
  <2>4. Ordered(1 .. m, start, others, end, data)
    BY <2>2, <2>3, SameOrdered
  <2> QED BY <1>9, <1>10, <2>4 DEF others, start, end
<1>14. DOMAIN batch' = 1 .. m /\ Len(batch') = m /\ batch' # << >>
  BY <1>1, <1>10
<1>15. \E e \in size' .. whole : file' \in [0 .. e - 1 -> Value] /\ DOMAIN before' \subseteq 0 .. e - 1
  <2>1. PICK e \in size .. whole : l <= e /\ Disk!FileWritten(requests) \in [0 .. e - 1 -> Value]
    BY <1>9
  <2>2. 0 .. l - 1 \subseteq 0 .. e - 1
    <3> HIDE DEF whole
    <3> QED BY <1>4, <1>5, <2>1
  <2> QED BY <1>5, <1>10, <2>1, <2>2
<1>16. DiskInv(size', file', batch', before')
  <2> HIDE DEF data
  <2>1. size' \in Size .. Disk!WholeBlocks
    BY <1>2, <1>3, <1>10
  <2> HIDE DEF whole
  <2> QED BY <1>1, <1>2, <1>11, <1>13, <1>14, <1>15, <2>1 DEF DiskInv, data, whole
<1> QED
  BY <1>16 DEF DiskIInv

LEMMA DiskReturnInv == ASSUME DiskIInv, Disk!Return PROVE DiskIInv'
<1>1. /\ size' = size /\ file' = file /\ before' = file /\ batch' = << >>
  BY DEF Disk!Return
<1>2. /\ size \in Size .. Disk!WholeBlocks
      /\ \E l \in size .. Disk!WholeBlocks : file \in [0 .. l - 1 -> Value]
  BY DEF DiskIInv, DiskInv
<1>3. \E l \in size .. Disk!WholeBlocks : file \in [0 .. l - 1 -> Value] /\ DOMAIN file \subseteq 0 .. l - 1
  BY <1>2
<1>4. DiskInv(size', file', batch', before')
  BY <1>1, <1>2, <1>3, NothingDone DEF DiskInv
<1> QED
  BY <1>4 DEF DiskIInv

LEMMA DiskSaveAndLoadInv == ASSUME Disk!Parameters, DiskIInv, Disk!SaveAndLoad PROVE DiskIInv'
<1>1. /\ size' = Disk!Cardinality(DOMAIN file) /\ file' = file /\ before' = before /\ batch' = batch
      /\ batch = << >> /\ before = file
  BY DEF Disk!SaveAndLoad, DiskIInv, DiskInv
<1>2. Size \in Nat /\ Disk!WholeBlocks \in Nat
  BY Whole DEF Disk!Parameters
<1>3. PICK l \in size .. Disk!WholeBlocks : size \in Size .. Disk!WholeBlocks /\ file \in [0 .. l - 1 -> Value]
  BY DEF DiskIInv, DiskInv
<1>4. l \in Nat /\ l \in Size .. Disk!WholeBlocks /\ l \in l .. Disk!WholeBlocks
  BY <1>2, <1>3
<1>5. size' = l
  <2>1. 0 \in Int /\ l - 1 \in Int /\ DOMAIN file = 0 .. l - 1
    BY <1>3, <1>4
  <2>2. Cardinality(0 .. l - 1) = IF 0 > l - 1 THEN 0 ELSE l - 1 - 0 + 1
    BY <2>1, FS_Interval
  <2>3. Disk!Cardinality(DOMAIN file) = Cardinality(DOMAIN file)
    BY DiskOrder
  <2> QED BY <1>1, <1>4, <2>1, <2>2, <2>3
<1>6. \E k \in l .. Disk!WholeBlocks : file' \in [0 .. k - 1 -> Value] /\ DOMAIN before' \subseteq 0 .. k - 1
  BY <1>1, <1>3, <1>4
<1>7. DiskInv(size', file', batch', before')
  BY <1>1, <1>4, <1>5, <1>6, NothingDone DEF DiskInv
<1> QED
  BY <1>7 DEF DiskIInv

LEMMA DiskInvariance == ASSUME Disk!Parameters PROVE Disk!Spec => []DiskIInv
<1>1. Disk!Init => DiskIInv
  BY DiskInitInv
<1>2. DiskIInv /\ [Disk!Next]_(Disk!vars) => DiskIInv'
  <2> SUFFICES ASSUME DiskIInv, [Disk!Next]_(Disk!vars)
               PROVE  DiskIInv'
    OBVIOUS
  <2>1. ASSUME NEW m, m \in 1 .. MaxBatch, NEW requests, requests \in [1 .. m -> Disk!Requests(size)],
               Disk!Batch(requests)
        PROVE  DiskIInv'
    BY <2>1, DiskBatchInv
  <2>2. CASE Disk!Return
    BY <2>2, DiskReturnInv
  <2>3. CASE Disk!SaveAndLoad
    BY <2>3, DiskSaveAndLoadInv
  <2>4. CASE UNCHANGED Disk!vars
    <3>1. size' = size /\ file' = file /\ batch' = batch /\ before' = before
      BY <2>4 DEF Disk!vars
    <3> QED BY <3>1 DEF DiskIInv
  <2> QED BY <2>1, <2>2, <2>3, <2>4 DEF Disk!Next
<1> QED
  BY <1>1, <1>2, PTL DEF Disk!Spec

(* The file is never shorter than the memory nor longer than whole blocks,  *)
(* however often its last block is written and the file opened again.       *)
THEOREM DiskTypeCorrect == ASSUME Disk!Parameters PROVE Disk!Spec => []Disk!TypeOK
<1>1. ASSUME DiskIInv PROVE Disk!TypeOK
  BY <1>1 DEF DiskIInv, DiskInv, Disk!TypeOK
<1> QED
  BY <1>1, DiskInvariance, PTL

(* A batch of reads and writes of any lengths leaves the bytes of the       *)
(* memory, and brings the data, of some order of its requests, although     *)
(* whole blocks are read and written: no part of a request is lost where it *)
(* shares a block with others or goes over several blocks.                  *)
THEOREM DiskDoneInSomeOrder == ASSUME Disk!Parameters PROVE Disk!Spec => []Disk!BatchDoneInSomeOrder
<1>1. ASSUME DiskIInv PROVE Disk!BatchDoneInSomeOrder
  <2> DEFINE start == BytesOf(before, size)
             end == BytesOf(file, size)
             data == [i \in DOMAIN batch |-> batch[i].data]
  <2>1. PICK m \in Nat : /\ DOMAIN batch = 1 .. m /\ Len(batch) = m
                         /\ Ordered(1 .. m, start, batch, end, data)
    BY <1>1 DEF DiskIInv, DiskInv
  <2> HIDE DEF start, end, data
  <2>2. InSomeOrder(start, batch, end, data)
    BY <2>1, OrderedInSomeOrder
  <2>3. Disk!InSomeOrder(start, batch, end, data)
    BY <2>2, DiskOrder
  <2> QED BY <2>3 DEF Disk!BatchDoneInSomeOrder, BytesOf, start, end, data
<1> QED
  BY <1>1, DiskInvariance, PTL

-----------------------------------------------------------------------------
(* MemoryAdapters: the sections. *)

Total == LowerSize + UpperSize

LastSection == Len(SplitPoints) + 1

SizeOf(i) == Adapters!To(i) - Adapters!From(i)

(* From one end to the next, each a whole number of blocks. *)
LEMMA Ends ==
  ASSUME Adapters!Parameters
  PROVE  /\ BlockSize \in Nat \ {0} /\ Total \in Nat /\ Total % BlockSize = 0 /\ LastSection \in Nat \ {0}
         /\ Adapters!Section = 1 .. LastSection /\ Adapters!TotalSize = Total
         /\ \A i \in 1 .. LastSection :
              /\ Adapters!From(i) \in 0 .. Total /\ Adapters!To(i) \in 0 .. Total
              /\ Adapters!From(i) % BlockSize = 0 /\ Adapters!To(i) % BlockSize = 0
              /\ Adapters!From(i) <= Adapters!To(i) /\ SizeOf(i) \in Nat
         /\ Adapters!From(1) = 0 /\ Adapters!To(LastSection) = Total
         /\ \A i \in 1 .. LastSection - 1 : Adapters!From(i + 1) = Adapters!To(i)
<1> DEFINE End == {a \in 0 .. Total : a % BlockSize = 0}
<1>1. /\ BlockSize \in Nat \ {0} /\ LowerSize \in Nat /\ UpperSize \in Nat
      /\ SplitPoints \in Seq(End) /\ Total % BlockSize = 0 /\ Adapters!TotalSize = Total
      /\ \A i \in Adapters!Section : Adapters!From(i) <= Adapters!To(i)
  BY DEF Adapters!Parameters, Adapters!TotalSize, Total
<1>2. Total \in Nat /\ 0 \in End /\ Total \in End
  <2>1. Total \in Nat
    BY <1>1 DEF Total
  <2>2. 0 % BlockSize = 0
    BY <1>1
  <2> QED BY <1>1, <2>1, <2>2
<1>3. /\ Len(SplitPoints) \in Nat /\ LastSection \in Nat \ {0} /\ Adapters!Section = 1 .. LastSection
      /\ \A i \in 1 .. Len(SplitPoints) : SplitPoints[i] \in End
  <2>1. Len(SplitPoints) \in Nat /\ \A i \in 1 .. Len(SplitPoints) : SplitPoints[i] \in End
    <3> HIDE DEF End
    <3> QED BY <1>1, LenProperties, ElementOfSeq
  <2> QED BY <2>1 DEF LastSection, Adapters!Section
<1>4. ASSUME NEW i \in 1 .. LastSection
      PROVE  Adapters!From(i) \in End /\ Adapters!To(i) \in End
  <2>1. Adapters!From(i) \in End
    <3>1. i # 1 => i - 1 \in 1 .. Len(SplitPoints)
      BY <1>3 DEF LastSection
    <3> HIDE DEF End
    <3> QED BY <1>2, <1>3, <3>1 DEF Adapters!From
  <2>2. Adapters!To(i) \in End
    <3>1. i <= Len(SplitPoints) => i \in 1 .. Len(SplitPoints)
      BY <1>3
    <3> HIDE DEF End
    <3> QED BY <1>1, <1>2, <1>3, <3>1 DEF Adapters!To
  <2> QED BY <2>1, <2>2
<1>5. Adapters!From(1) = 0 /\ Adapters!To(LastSection) = Total
  BY <1>1, <1>3 DEF Adapters!From, Adapters!To, LastSection
<1>6. ASSUME NEW i \in 1 .. LastSection - 1
      PROVE  Adapters!From(i + 1) = Adapters!To(i)
  <2>1. i <= Len(SplitPoints) /\ i + 1 # 1 /\ (i + 1) - 1 = i
    BY <1>3 DEF LastSection
  <2> QED BY <2>1 DEF Adapters!From, Adapters!To
<1>7. ASSUME NEW i \in 1 .. LastSection
      PROVE  SizeOf(i) \in Nat
  <2>1. Adapters!From(i) \in Nat /\ Adapters!To(i) \in Nat /\ Adapters!From(i) <= Adapters!To(i)
    BY <1>1, <1>2, <1>3, <1>4
  <2> QED BY <2>1 DEF SizeOf
<1> QED
  BY <1>1, <1>2, <1>3, <1>4, <1>5, <1>6, <1>7

(* A section ends before the next ones start. *)
LEMMA SectionsInOrder ==
  ASSUME Adapters!Parameters, NEW i \in 1 .. LastSection, NEW j \in 1 .. LastSection, i < j
  PROVE  Adapters!To(i) <= Adapters!From(j)
<1> DEFINE n == LastSection
           S == { k \in 0 .. n - 1 : i < k + 1 => Adapters!To(i) <= Adapters!From(k + 1) }
<1>1. /\ n \in Nat \ {0}
      /\ \A k \in 1 .. n : /\ Adapters!From(k) \in Nat /\ Adapters!To(k) \in Nat
                           /\ Adapters!From(k) <= Adapters!To(k)
      /\ \A k \in 1 .. n - 1 : Adapters!From(k + 1) = Adapters!To(k)
  BY Ends
<1> HIDE DEF n
<1>2. 0 \in S
  BY <1>1 DEF n
<1>3. ASSUME NEW k \in 0 .. (n - 1) - 1, k \in S PROVE k + 1 \in S
  <2>1. k + 1 \in 0 .. n - 1 /\ k + 1 \in 1 .. n - 1 /\ k + 1 \in 1 .. n
    BY <1>1
  <2>2. Adapters!From(k + 1 + 1) = Adapters!To(k + 1) /\ Adapters!From(k + 1) <= Adapters!To(k + 1)
    BY <1>1, <2>1
  <2>3. i < k + 1 => Adapters!To(i) <= Adapters!From(k + 1)
    BY <1>3
  <2>4. i < k + 1 + 1 => Adapters!To(i) <= Adapters!From(k + 1 + 1)
    <3>1. CASE i < k + 1
      <4>1. Adapters!To(i) \in Nat /\ Adapters!From(k + 1) \in Nat /\ Adapters!To(k + 1) \in Nat
        BY <1>1, <2>1 DEF n
      <4> QED BY <2>2, <2>3, <3>1, <4>1
    <3>2. CASE ~(i < k + 1)
      <4>1. i < k + 1 + 1 => i = k + 1
        BY <2>1, <3>2
      <4>2. Adapters!To(k + 1) \in Nat
        BY <1>1, <2>1
      <4> QED BY <2>2, <4>1, <4>2
    <3> QED BY <3>1, <3>2
  <2> QED BY <2>1, <2>4
<1>4. \A k \in 0 .. n - 1 : k \in S
  <2> HIDE DEF S
  <2>1. n - 1 \in Nat
    BY <1>1
  <2> QED BY <1>2, <1>3, <2>1, PrefixInduction
<1>5. j - 1 \in 0 .. n - 1 /\ (j - 1) + 1 = j
  BY <1>1 DEF n
<1> QED
  BY <1>4, <1>5

(* Each address is in a section. *)
LEMMA InASection ==
  ASSUME Adapters!Parameters, NEW a \in 0 .. Total - 1
  PROVE  \E i \in 1 .. LastSection : Adapters!From(i) <= a /\ a < Adapters!To(i)
<1> DEFINE n == LastSection
           S == { k \in 0 .. n - 1 : Adapters!From(k + 1) <= a }
<1>1. SUFFICES ASSUME \A i \in 1 .. n : Adapters!From(i) <= a => ~(a < Adapters!To(i))
               PROVE  FALSE
  OBVIOUS
<1>2. /\ n \in Nat \ {0} /\ Total \in Nat
      /\ Adapters!From(1) = 0 /\ Adapters!To(n) = Total
      /\ \A k \in 1 .. n : Adapters!From(k) \in Nat /\ Adapters!To(k) \in Nat
      /\ \A k \in 1 .. n - 1 : Adapters!From(k + 1) = Adapters!To(k)
  BY Ends
<1> HIDE DEF n
<1>3. 0 \in S
  BY <1>2
<1>4. ASSUME NEW k \in 0 .. (n - 1) - 1, k \in S PROVE k + 1 \in S
  <2>1. k + 1 \in 0 .. n - 1 /\ k + 1 \in 1 .. n - 1 /\ k + 1 \in 1 .. n
    BY <1>2
  <2>2. Adapters!From(k + 1) <= a
    BY <1>4
  <2>3. ~(a < Adapters!To(k + 1)) /\ Adapters!From(k + 1 + 1) = Adapters!To(k + 1)
        /\ Adapters!To(k + 1) \in Nat
    BY <1>1, <1>2, <2>1, <2>2
  <2>4. Adapters!From(k + 1 + 1) <= a
    BY <2>3
  <2> QED BY <2>1, <2>4
<1>5. \A k \in 0 .. n - 1 : k \in S
  <2> HIDE DEF S
  <2>1. n - 1 \in Nat
    BY <1>2
  <2> QED BY <1>3, <1>4, <2>1, PrefixInduction
<1>6. n - 1 \in 0 .. n - 1 /\ (n - 1) + 1 = n /\ n \in 1 .. n
  BY <1>2
<1>7. Adapters!From(n) <= a
  BY <1>5, <1>6
<1>8. ~(a < Total)
  BY <1>1, <1>2, <1>6, <1>7
<1> QED
  BY <1>2, <1>8

(* The recursion of ChildOffset. *)
LEMMA OffsetsAre ==
  ASSUME Adapters!Parameters
  PROVE  \A i \in 1 .. LastSection :
           Adapters!ChildOffset(i) = IF i <= 2 THEN 0 ELSE Adapters!ChildOffset(i - 2) + SizeOf(i - 2)
<1> DEFINE n == LastSection
           Up(c, m) == \A j \in 1 .. m : c[j] = IF j <= 2 THEN 0 ELSE c[j - 2] + SizeOf(j - 2)
           S == { m \in 0 .. n : \E c : Up(c, m) }
           f == CHOOSE f : f = [j \in 1 .. n |-> IF j <= 2 THEN 0 ELSE f[j - 2] + SizeOf(j - 2)]
<1>1. n \in Nat \ {0} /\ Adapters!Section = 1 .. n
  BY Ends
<1>2. \A i : Adapters!ChildOffset(i) = f[i]
  BY <1>1 DEF Adapters!ChildOffset, SizeOf
<1> HIDE DEF n, f
<1>3. 0 \in S
  <2>1. 1 .. 0 = {} /\ 0 \in 0 .. n
    BY <1>1
  <2> QED BY <2>1
<1>4. ASSUME NEW m \in 0 .. n - 1, m \in S PROVE m + 1 \in S
  <2>1. PICK c : Up(c, m)
    BY <1>4
  <2> DEFINE v == IF m + 1 <= 2 THEN 0 ELSE c[(m + 1) - 2] + SizeOf((m + 1) - 2)
             e == [j \in 1 .. m + 1 |-> IF j = m + 1 THEN v ELSE c[j]]
  <2>2. e[m + 1] = v /\ \A j \in 1 .. m : e[j] = c[j]
    BY <1>1
  <2> HIDE DEF e
  <2>3. ASSUME NEW j \in 1 .. m + 1
        PROVE  e[j] = IF j <= 2 THEN 0 ELSE e[j - 2] + SizeOf(j - 2)
    <3>1. j > 2 => j - 2 \in 1 .. m
      BY <1>1
    <3>2. CASE j = m + 1
      BY <1>1, <2>2, <3>1, <3>2
    <3>3. CASE j # m + 1
      <4>1. j \in 1 .. m
        BY <1>1, <3>3
      <4> QED BY <1>1, <2>1, <2>2, <3>1, <4>1
    <3> QED BY <3>2, <3>3
  <2>4. m + 1 \in 0 .. n
    BY <1>1
  <2> QED BY <2>3, <2>4
<1>5. \A m \in 0 .. n : m \in S
  <2> HIDE DEF S
  <2> QED BY <1>1, <1>3, <1>4, PrefixInduction
<1>6. PICK c : Up(c, n)
  <2>1. n \in 0 .. n
    BY <1>1
  <2> QED BY <1>5, <2>1
<1> DEFINE g == [j \in 1 .. n |-> c[j]]
<1>7. g = [j \in 1 .. n |-> IF j <= 2 THEN 0 ELSE g[j - 2] + SizeOf(j - 2)]
  <2>1. ASSUME NEW j \in 1 .. n
        PROVE  c[j] = IF j <= 2 THEN 0 ELSE g[j - 2] + SizeOf(j - 2)
    <3>1. j > 2 => j - 2 \in 1 .. n
      BY <1>1
    <3>2. j > 2 => g[j - 2] = c[j - 2]
      BY <3>1
    <3> HIDE DEF g
    <3> QED BY <1>1, <1>6, <3>2
  <2> QED BY <2>1
<1>8. f = [j \in 1 .. n |-> IF j <= 2 THEN 0 ELSE f[j - 2] + SizeOf(j - 2)]
  <2> HIDE DEF g
  <2> QED BY <1>7 DEF f
<1>9. \A j \in 1 .. n : f[j] = IF j <= 2 THEN 0 ELSE f[j - 2] + SizeOf(j - 2)
  BY <1>8
<1> QED
  BY <1>2, <1>9 DEF n

LEMMA OffsetsTyped ==
  ASSUME Adapters!Parameters
  PROVE  \A i \in 1 .. LastSection : Adapters!ChildOffset(i) \in Nat
<1> DEFINE n == LastSection
           S == { k \in 0 .. n : \A j \in 1 .. k : Adapters!ChildOffset(j) \in Nat }
<1>1. n \in Nat \ {0} /\ \A i \in 1 .. n : SizeOf(i) \in Nat
  BY Ends
<1>2. \A i \in 1 .. n :
        Adapters!ChildOffset(i) = IF i <= 2 THEN 0 ELSE Adapters!ChildOffset(i - 2) + SizeOf(i - 2)
  BY OffsetsAre
<1> HIDE DEF n
<1>3. 0 \in S
  BY <1>1
<1>4. ASSUME NEW k \in 0 .. n - 1, k \in S PROVE k + 1 \in S
  <2>1. ASSUME NEW j \in 1 .. k + 1 PROVE Adapters!ChildOffset(j) \in Nat
    <3>1. CASE j \in 1 .. k
      BY <1>4, <3>1
    <3>2. CASE j \notin 1 .. k
      <4>1. j = k + 1 /\ j \in 1 .. n
        BY <1>1, <3>2
      <4>2. CASE j <= 2
        BY <1>2, <4>1, <4>2
      <4>3. CASE ~(j <= 2)
        <5>1. j - 2 \in 1 .. k /\ j - 2 \in 1 .. n
          BY <1>1, <4>1, <4>3
        <5>2. Adapters!ChildOffset(j - 2) \in Nat /\ SizeOf(j - 2) \in Nat
          BY <1>1, <1>4, <5>1
        <5> QED BY <1>2, <4>1, <4>3, <5>2
      <4> QED BY <4>2, <4>3
    <3> QED BY <3>1, <3>2
  <2>2. k + 1 \in 0 .. n
    BY <1>1
  <2> QED BY <2>1, <2>2
<1>5. \A k \in 0 .. n : k \in S
  <2> HIDE DEF S
  <2> QED BY <1>1, <1>3, <1>4, PrefixInduction
<1>6. n \in 0 .. n
  BY <1>1
<1> QED
  BY <1>5, <1>6 DEF n

(* The sections of a memory follow each other in it. *)
LEMMA SectionsApart ==
  ASSUME Adapters!Parameters, NEW i \in 1 .. LastSection, NEW j \in 1 .. LastSection, i < j,
         Adapters!IsUpper(i) = Adapters!IsUpper(j)
  PROVE  Adapters!ChildOffset(i) + SizeOf(i) <= Adapters!ChildOffset(j)
<1> DEFINE n == LastSection
           O(k) == Adapters!ChildOffset(k)
           Before(k) == \A x \in 1 .. k : i < x /\ (i % 2 = 0 <=> x % 2 = 0) => O(i) + SizeOf(i) <= O(x)
           S == { k \in 0 .. n : Before(k) }
<1>1. /\ n \in Nat \ {0}
      /\ \A k \in 1 .. n : SizeOf(k) \in Nat /\ O(k) \in Nat
      /\ \A k \in 1 .. n : k > 2 => O(k) = O(k - 2) + SizeOf(k - 2)
  <2>1. \A k \in 1 .. n : O(k) = IF k <= 2 THEN 0 ELSE O(k - 2) + SizeOf(k - 2)
    BY OffsetsAre
  <2>2. n \in Nat \ {0} /\ (\A k \in 1 .. n : SizeOf(k) \in Nat) /\ \A k \in 1 .. n : O(k) \in Nat
    BY Ends, OffsetsTyped
  <2>3. \A k \in 1 .. n : k > 2 => ~(k <= 2)
    BY <2>2
  <2> HIDE DEF n, O
  <2> QED BY <2>1, <2>2, <2>3
<1> HIDE DEF n, O
<1>2. 0 \in S
  BY <1>1
<1>3. ASSUME NEW k \in 0 .. n - 1, k \in S PROVE k + 1 \in S
  <2>1. ASSUME NEW x \in 1 .. k + 1, i < x, i % 2 = 0 <=> x % 2 = 0
        PROVE  O(i) + SizeOf(i) <= O(x)
    <3>1. CASE x \in 1 .. k
      BY <1>3, <2>1, <3>1
    <3>2. CASE x \notin 1 .. k
      <4>1. x \in 1 .. n /\ i \in 1 .. n
        BY <1>1 DEF n
      <4>2. i # x - 1 /\ x > 2 /\ i <= x - 2
        BY <2>1, <4>1
      <4>3. O(x) = O(x - 2) + SizeOf(x - 2)
        BY <1>1, <4>1, <4>2
      <4>4. x - 2 \in 1 .. n /\ x - 2 \in 1 .. k /\ (i % 2 = 0 <=> (x - 2) % 2 = 0)
        <5>1. x \in Int /\ (x - 2) % 2 = x % 2
          BY <1>1, <4>1
        <5>2. x - 2 \in 1 .. n /\ x - 2 \in 1 .. k
          BY <1>1, <4>1, <4>2
        <5> QED BY <2>1, <5>1, <5>2
      <4>5. O(i) \in Nat /\ SizeOf(i) \in Nat /\ O(x - 2) \in Nat /\ SizeOf(x - 2) \in Nat
        BY <1>1, <4>1, <4>4
      <4>6. CASE i = x - 2
        BY <4>3, <4>5, <4>6
      <4>7. CASE i # x - 2
        <5>1. O(i) + SizeOf(i) <= O(x - 2)
          BY <1>3, <4>1, <4>2, <4>4, <4>7
        <5> QED BY <4>3, <4>5, <5>1
      <4> QED BY <4>6, <4>7
    <3> QED BY <3>1, <3>2
  <2>2. k + 1 \in 0 .. n
    BY <1>1
  <2> QED BY <2>1, <2>2
<1>4. \A k \in 0 .. n : k \in S
  <2> HIDE DEF S
  <2> QED BY <1>1, <1>2, <1>3, PrefixInduction
<1>5. n \in 0 .. n /\ j \in 1 .. n
  BY <1>1 DEF n
<1>6. i % 2 = 0 <=> j % 2 = 0
  BY DEF Adapters!IsUpper
<1> QED
  BY <1>4, <1>5, <1>6 DEF O

(* The section of an address, and its cell there.                           *)
SectionAt(a) == CHOOSE i \in 1 .. LastSection : Adapters!From(i) <= a /\ a < Adapters!To(i)

Place(a) ==
  [isUpper |-> Adapters!IsUpper(SectionAt(a)),
   at |-> Adapters!ChildOffset(SectionAt(a)) + (a - Adapters!From(SectionAt(a)))]

LEMMA SectionAtIs ==
  ASSUME Adapters!Parameters, NEW a \in 0 .. Total - 1
  PROVE  /\ SectionAt(a) \in 1 .. LastSection
         /\ Adapters!From(SectionAt(a)) <= a /\ a < Adapters!To(SectionAt(a))
         /\ \A j \in 1 .. LastSection :
              /\ Adapters!From(j) <= a => j <= SectionAt(a)
              /\ a < Adapters!To(j) => SectionAt(a) <= j
<1> DEFINE i == SectionAt(a)
<1>1. i \in 1 .. LastSection /\ Adapters!From(i) <= a /\ a < Adapters!To(i)
  BY InASection DEF SectionAt
<1> HIDE DEF i
<1>2. /\ LastSection \in Nat /\ Total \in Nat /\ a \in Nat
      /\ \A j \in 1 .. LastSection : Adapters!From(j) \in Nat /\ Adapters!To(j) \in Nat
  BY Ends
<1>3. ASSUME NEW j \in 1 .. LastSection
      PROVE  (Adapters!From(j) <= a => j <= i) /\ (a < Adapters!To(j) => i <= j)
  <2>1. i < j => Adapters!To(i) <= Adapters!From(j)
    BY <1>1, SectionsInOrder
  <2>2. j < i => Adapters!To(j) <= Adapters!From(i)
    BY <1>1, SectionsInOrder
  <2>3. /\ Adapters!From(j) \in Nat /\ Adapters!To(j) \in Nat
        /\ Adapters!From(i) \in Nat /\ Adapters!To(i) \in Nat /\ i \in Nat /\ j \in Nat
    BY <1>1, <1>2
  <2> QED BY <1>1, <1>2, <2>1, <2>2, <2>3
<1> QED
  BY <1>1, <1>3 DEF i

(* What lower_bound finds in the mapping. *)
LEMMA LocatedIs ==
  ASSUME Adapters!Parameters, mapping = Adapters!Mapping, NEW a \in 0 .. Total - 1
  PROVE  Adapters!Located(a) = Place(a)
<1> DEFINE i == SectionAt(a)
           Entry(j) == [start |-> Adapters!From(j), isUpper |-> Adapters!IsUpper(j),
                        offset |-> Adapters!ChildOffset(j)]
           Found(s) == /\ s.start <= a
                       /\ \A t \in mapping : t.start <= a => t.start <= s.start
<1>1. /\ i \in 1 .. LastSection /\ Adapters!From(i) <= a /\ a < Adapters!To(i)
      /\ \A j \in 1 .. LastSection : /\ Adapters!From(j) <= a => j <= i
                                     /\ a < Adapters!To(j) => i <= j
  BY SectionAtIs
<1>2. /\ LastSection \in Nat /\ Total \in Nat /\ a \in Nat
      /\ \A j \in 1 .. LastSection : Adapters!From(j) \in Nat /\ Adapters!To(j) \in Nat
      /\ Adapters!Section = 1 .. LastSection
  BY Ends
<1> HIDE DEF i
<1>3. mapping = {Entry(j) : j \in {k \in 1 .. LastSection : Adapters!From(k) < Adapters!To(k)}}
  BY <1>2 DEF Adapters!Mapping
<1>4. \A j : /\ Entry(j).start = Adapters!From(j) /\ Entry(j).isUpper = Adapters!IsUpper(j)
             /\ Entry(j).offset = Adapters!ChildOffset(j)
  OBVIOUS
<1> HIDE DEF Entry
<1>5. Entry(i) \in mapping
  <2>1. Adapters!From(i) < Adapters!To(i)
    BY <1>1, <1>2
  <2> QED BY <1>1, <1>3, <2>1
<1>6. Found(Entry(i))
  <2>1. ASSUME NEW t \in mapping, t.start <= a
        PROVE  t.start <= Adapters!From(i)
    <3>1. PICK j \in 1 .. LastSection : t = Entry(j) /\ Adapters!From(j) < Adapters!To(j)
      BY <1>3
    <3>2. j <= i
      BY <1>1, <1>4, <2>1, <3>1
    <3>3. CASE j = i
      BY <1>1, <1>2, <1>4, <3>1, <3>3
    <3>4. CASE j # i
      <4>1. Adapters!To(j) <= Adapters!From(i)
        BY <1>1, <1>2, <3>2, <3>4, SectionsInOrder
      <4>2. Adapters!From(j) \in Nat /\ Adapters!To(j) \in Nat /\ Adapters!From(i) \in Nat
        BY <1>1, <1>2
      <4> QED BY <1>4, <3>1, <4>1, <4>2
    <3> QED BY <3>3, <3>4
  <2> QED BY <1>1, <1>4, <2>1
<1>7. ASSUME NEW s \in mapping, Found(s)
      PROVE  s = Entry(i)
  <2>1. PICK j \in 1 .. LastSection : s = Entry(j) /\ Adapters!From(j) < Adapters!To(j)
    BY <1>3
  <2>2. Adapters!From(j) <= a /\ Adapters!From(i) <= Adapters!From(j)
    BY <1>1, <1>4, <1>5, <1>7, <2>1
  <2>3. j <= i
    BY <1>1, <2>2
  <2>4. CASE j = i
    BY <2>1, <2>4
  <2>5. CASE j # i
    <3>1. Adapters!To(j) <= Adapters!From(i)
      BY <1>1, <1>2, <2>3, <2>5, SectionsInOrder
    <3>2. Adapters!From(j) \in Nat /\ Adapters!To(j) \in Nat /\ Adapters!From(i) \in Nat
      BY <1>1, <1>2
    <3> QED BY <2>1, <2>2, <3>1, <3>2
  <2> QED BY <2>4, <2>5
<1>8. (CHOOSE s \in mapping : Found(s)) = Entry(i)
  <2> HIDE DEF Found
  <2> QED BY <1>5, <1>6, <1>7
<1>9. Adapters!SectionOf(a) = Entry(i)
  BY <1>8 DEF Adapters!SectionOf
<1> QED
  BY <1>4, <1>9 DEF Adapters!Located, Place, i

SizeOfChild(isUpper) == IF isUpper THEN UpperSize ELSE LowerSize

(* Each cell of a memory is of one address. *)
LEMMA PlaceIn ==
  ASSUME Adapters!Parameters, NEW a \in 0 .. Total - 1
  PROVE  /\ Place(a).isUpper \in BOOLEAN
         /\ Place(a).at \in 0 .. SizeOfChild(Place(a).isUpper) - 1
         /\ \A b \in 0 .. Total - 1 :
              Place(a).isUpper = Place(b).isUpper /\ Place(a).at = Place(b).at => a = b
<1> DEFINE O(k) == Adapters!ChildOffset(k)
           F(k) == Adapters!From(k)
           At(x) == SectionAt(x)
<1>1. /\ LastSection \in Nat /\ Total \in Nat /\ a \in Nat /\ LowerSize \in Nat /\ UpperSize \in Nat
      /\ \A j \in 1 .. LastSection :
           /\ F(j) \in Nat /\ SizeOf(j) \in Nat /\ O(j) \in Nat
           /\ O(j) + SizeOf(j) <= SizeOfChild(Adapters!IsUpper(j))
  <2>1. /\ LastSection \in Nat /\ Total \in Nat /\ a \in Nat
        /\ \A j \in 1 .. LastSection : F(j) \in Nat /\ SizeOf(j) \in Nat
        /\ Adapters!Section = 1 .. LastSection
    BY Ends
  <2>2. \A j \in 1 .. LastSection : O(j) \in Nat
    BY OffsetsTyped
  <2> QED BY <2>1, <2>2 DEF Adapters!Parameters, SizeOf, SizeOfChild
<1>2. ASSUME NEW x \in 0 .. Total - 1
      PROVE  /\ At(x) \in 1 .. LastSection /\ F(At(x)) <= x /\ x - F(At(x)) < SizeOf(At(x))
             /\ Place(x).isUpper = Adapters!IsUpper(At(x))
             /\ Place(x).at = O(At(x)) + (x - F(At(x)))
  <2>1. At(x) \in 1 .. LastSection /\ F(At(x)) <= x /\ x < Adapters!To(At(x))
    BY SectionAtIs
  <2>2. F(At(x)) \in Nat /\ Adapters!To(At(x)) \in Nat
    BY <2>1, Ends
  <2>3. SizeOf(At(x)) = Adapters!To(At(x)) - F(At(x))
    BY DEF SizeOf
  <2>4. x - F(At(x)) < SizeOf(At(x))
    <3> HIDE DEF At, F
    <3> QED BY <2>1, <2>2, <2>3
  <2> QED BY <2>1, <2>4 DEF Place
<1>3. ASSUME NEW i \in 1 .. LastSection, NEW j \in 1 .. LastSection, i < j,
             Adapters!IsUpper(i) = Adapters!IsUpper(j)
      PROVE  O(i) + SizeOf(i) <= O(j)
  BY <1>3, SectionsApart
<1> HIDE DEF O, F, At
<1>4. Place(a).at \in 0 .. SizeOfChild(Place(a).isUpper) - 1
  <2>1. /\ At(a) \in 1 .. LastSection /\ F(At(a)) \in Nat /\ O(At(a)) \in Nat /\ SizeOf(At(a)) \in Nat
        /\ F(At(a)) <= a /\ a - F(At(a)) < SizeOf(At(a))
        /\ O(At(a)) + SizeOf(At(a)) <= SizeOfChild(Place(a).isUpper)
        /\ Place(a).at = O(At(a)) + (a - F(At(a)))
    BY <1>1, <1>2
  <2>2. SizeOfChild(Place(a).isUpper) \in Nat
    BY <1>1 DEF SizeOfChild
  <2> QED BY <1>1, <2>1, <2>2
<1>5. Place(a).isUpper \in BOOLEAN
  BY <1>2 DEF Adapters!IsUpper
<1>6. ASSUME NEW b \in 0 .. Total - 1, Place(a).isUpper = Place(b).isUpper, Place(a).at = Place(b).at
      PROVE  a = b
  <2>1. /\ At(a) \in 1 .. LastSection /\ F(At(a)) \in Nat /\ O(At(a)) \in Nat /\ SizeOf(At(a)) \in Nat
        /\ F(At(a)) <= a /\ a - F(At(a)) < SizeOf(At(a)) /\ Place(a).at = O(At(a)) + (a - F(At(a)))
        /\ Place(a).isUpper = Adapters!IsUpper(At(a))
    BY <1>1, <1>2
  <2>2. /\ At(b) \in 1 .. LastSection /\ F(At(b)) \in Nat /\ O(At(b)) \in Nat /\ SizeOf(At(b)) \in Nat
        /\ F(At(b)) <= b /\ b - F(At(b)) < SizeOf(At(b)) /\ Place(b).at = O(At(b)) + (b - F(At(b)))
        /\ Place(b).isUpper = Adapters!IsUpper(At(b)) /\ b \in Nat
    BY <1>1, <1>2
  <2> DEFINE i == At(a)
             j == At(b)
             oi == O(i)
             oj == O(j)
             fi == F(i)
             fj == F(j)
             si == SizeOf(i)
             sj == SizeOf(j)
  <2>3. /\ i \in Nat /\ j \in Nat /\ a \in Nat /\ b \in Nat
        /\ fi \in Nat /\ fj \in Nat /\ oi \in Nat /\ oj \in Nat /\ si \in Nat /\ sj \in Nat
        /\ fi <= a /\ a - fi < si /\ fj <= b /\ b - fj < sj
        /\ oi + (a - fi) = oj + (b - fj)
    <3>1. oi + (a - fi) = Place(a).at /\ oj + (b - fj) = Place(b).at
      BY <2>1, <2>2
    <3>2. oi + (a - fi) = oj + (b - fj)
      BY <1>6, <3>1
    <3>3. i \in Nat /\ j \in Nat
      BY <1>1, <2>1, <2>2
    <3> QED BY <1>1, <2>1, <2>2, <3>2, <3>3
  <2>4. /\ i < j => oi + si <= oj
        /\ j < i => oj + sj <= oi
    BY <1>3, <1>6, <2>1, <2>2
  <2>5. i = j => oi = oj /\ fi = fj
    OBVIOUS
  <2> HIDE DEF i, j, oi, oj, fi, fj, si, sj
  <2>6. ~(i < j) /\ ~(j < i)
    BY ONLY <2>3, <2>4
  <2>7. oi = oj /\ fi = fj
    BY <2>3, <2>5, <2>6
  <2> QED BY ONLY <2>3, <2>7
<1> QED
  BY <1>4, <1>5, <1>6

(* A whole number of blocks does not end within one. *)
LEMMA WholeBlocksEnd ==
  ASSUME NEW B \in Nat \ {0}, NEW e \in Nat, e % B = 0, NEW b \in Nat, NEW x \in 0 .. B - 1
  PROVE  e <= B * b + x <=> e <= B * b
<1> DEFINE q == e \div B
           end == B * q
           base == B * b
<1>1. q \in Nat /\ e = end
  OBVIOUS
<1>2. (q < b => B * q + B <= B * b) /\ (b < q => B * b + B <= B * q)
  <2> HIDE DEF q
  <2> QED BY <1>1, BlocksApart
<1>3. base \in Nat /\ end \in Nat /\ (q = b => end = base)
  <2> HIDE DEF q
  <2> QED BY <1>1
<1>4. (q < b => end + B <= base) /\ (b < q => base + B <= end)
  BY <1>2
<1> HIDE DEF q, base, end
<1>5. q < b \/ b < q \/ q = b
  BY <1>1
<1>6. e <= base + x <=> e <= base
  BY <1>1, <1>3, <1>4, <1>5
<1> QED
  BY <1>6 DEF base

(* The cells of a block are next to each other. *)
LEMMA PlaceInBlock ==
  ASSUME Adapters!Parameters, NEW b \in Nat, NEW x \in 0 .. BlockSize - 1, BlockSize * b < Total
  PROVE  /\ BlockSize * b \in 0 .. Total - 1 /\ BlockSize * b + x \in 0 .. Total - 1
         /\ Place(BlockSize * b + x).isUpper = Place(BlockSize * b).isUpper
         /\ Place(BlockSize * b + x).at = Place(BlockSize * b).at + x
<1> DEFINE base == BlockSize * b
           a == base + x
           i == SectionAt(base)
<1>1. /\ BlockSize \in Nat \ {0} /\ Total \in Nat /\ Total % BlockSize = 0 /\ LastSection \in Nat
      /\ \A j \in 1 .. LastSection :
           /\ Adapters!From(j) \in Nat /\ Adapters!To(j) \in Nat
           /\ Adapters!From(j) % BlockSize = 0 /\ Adapters!To(j) % BlockSize = 0
  BY Ends
<1>2. base \in Nat /\ base < Total
  BY <1>1
<1>3. \A e \in Nat : e % BlockSize = 0 => (e <= a <=> e <= base)
  BY <1>1, WholeBlocksEnd
<1> HIDE DEF base
<1>4. base \in 0 .. Total - 1 /\ a \in 0 .. Total - 1
  <2>1. ~(Total <= a)
    BY <1>1, <1>2, <1>3
  <2> QED BY <1>1, <1>2, <2>1
<1> HIDE DEF a
<1>5. /\ SectionAt(base) \in 1 .. LastSection /\ Adapters!From(i) <= base /\ base < Adapters!To(i)
  BY <1>4, SectionAtIs
<1>6. /\ SectionAt(a) \in 1 .. LastSection
      /\ Adapters!From(i) <= a => i <= SectionAt(a)
      /\ a < Adapters!To(i) => SectionAt(a) <= i
  BY <1>4, <1>5, SectionAtIs
<1> HIDE DEF i
<1>7. i \in 1 .. LastSection
  BY <1>5 DEF i
<1>8. Adapters!From(i) \in Nat /\ Adapters!To(i) \in Nat
  BY <1>1, <1>7
<1>9. Adapters!From(i) <= a /\ a < Adapters!To(i)
  <2>1. Adapters!From(i) <= a
    BY <1>1, <1>3, <1>5, <1>7, <1>8
  <2>2. ~(Adapters!To(i) <= a)
    BY <1>1, <1>2, <1>3, <1>5, <1>7, <1>8
  <2> QED BY <1>4, <1>8, <2>1, <2>2
<1>10. SectionAt(a) = i
  BY <1>1, <1>6, <1>7, <1>9
<1>11. /\ Place(a).isUpper = Adapters!IsUpper(i) /\ Place(base).isUpper = Adapters!IsUpper(i)
       /\ Place(a).at = Adapters!ChildOffset(i) + (a - Adapters!From(i))
       /\ Place(base).at = Adapters!ChildOffset(i) + (base - Adapters!From(i))
  BY <1>10 DEF Place, i
<1>12. Place(a).at = Place(base).at + x
  <2>1. Adapters!ChildOffset(i) \in Nat
    BY <1>7, OffsetsTyped
  <2> QED BY <1>2, <1>8, <1>11, <2>1 DEF a
<1> QED
  BY <1>4, <1>11, <1>12 DEF a, base

-----------------------------------------------------------------------------
(* The bits, as two memories have them. *)
BitsIn(lo, up) ==
  [a \in 0 .. Total - 1 |-> IF Place(a).isUpper THEN up[Place(a).at] ELSE lo[Place(a).at]]

ChildrenTyped(lo, up) == lo \in [0 .. LowerSize - 1 -> {0, 1}] /\ up \in [0 .. UpperSize - 1 -> {0, 1}]

LEMMA BitsAre ==
  ASSUME Adapters!Parameters, mapping = Adapters!Mapping
  PROVE  Adapters!Bits = BitsIn(lower, upper)
<1>1. \A a \in 0 .. Total - 1 : Adapters!Located(a) = Place(a)
  BY LocatedIs
<1>2. Adapters!TotalSize = Total
  BY Ends
<1> QED
  BY <1>1, <1>2 DEF Adapters!Bits, Adapters!BitAt, BitsIn

LEMMA BitsTyped ==
  ASSUME Adapters!Parameters, NEW lo, NEW up, ChildrenTyped(lo, up)
  PROVE  BitsIn(lo, up) \in [0 .. Total - 1 -> {0, 1}]
<1>1. ASSUME NEW a \in 0 .. Total - 1
      PROVE  (IF Place(a).isUpper THEN up[Place(a).at] ELSE lo[Place(a).at]) \in {0, 1}
  <2>1. Place(a).isUpper \in BOOLEAN /\ Place(a).at \in 0 .. SizeOfChild(Place(a).isUpper) - 1
    BY PlaceIn
  <2> DEFINE u == Place(a).isUpper
             p == Place(a).at
  <2> HIDE DEF u, p
  <2>2. u \in BOOLEAN /\ p \in 0 .. SizeOfChild(u) - 1
    BY <2>1 DEF u, p
  <2>3. (IF u THEN up[p] ELSE lo[p]) \in {0, 1}
    BY <2>2 DEF SizeOfChild, ChildrenTyped
  <2> QED BY <2>3 DEF u, p
<1> QED
  BY <1>1 DEF BitsIn

-----------------------------------------------------------------------------
(* MemoryAdapters: a batch. *)

LEMMA AdaptersOrder ==
  /\ \A start, requests : Adapters!InOrder(start, requests) = InOrder(start, requests)
  /\ \A a, s, B : Adapters!BlocksOf(a, s, B) = Disk!BlocksOf(a, s, B)
  /\ \A b, a, s, B : Adapters!PartIn(b, a, s, B) = Disk!PartIn(b, a, s, B)
<1>1. \A cells, r : /\ Adapters!AfterWrite(cells, r) = AfterWrite(cells, r)
                    /\ Adapters!DataRead(cells, r) = DataRead(cells, r)
  BY DEF Adapters!AfterWrite, Adapters!DataRead, Adapters!CellsOf, AfterWrite, DataRead, CellsOf
<1>2. \A start, requests : Adapters!CellsAfter(start, requests) = CellsAfter(start, requests)
  BY <1>1 DEF Adapters!CellsAfter, CellsAfter
<1>3. \A start, requests : Adapters!InOrder(start, requests) = InOrder(start, requests)
  BY <1>1, <1>2 DEF Adapters!InOrder, InOrder
<1>4. \A a, s, B : Adapters!BlocksOf(a, s, B) = Disk!BlocksOf(a, s, B)
  BY DEF Adapters!BlocksOf, Disk!BlocksOf
<1>5. \A b, a, s, B : Adapters!PartIn(b, a, s, B) = Disk!PartIn(b, a, s, B)
  BY <1>4 DEF Adapters!PartIn, Disk!PartIn
<1> QED
  BY <1>3, <1>4, <1>5

(* A request within the bits. *)
OfBits(r) ==
  /\ r.type \in {"READ", "WRITE"}
  /\ r.address \in Nat /\ r.size \in Nat \ {0} /\ r.address + r.size <= Total
  /\ r.data \in [0 .. r.size - 1 -> {0, 1}]

LEMMA RequestsOfBits ==
  ASSUME Adapters!Parameters, NEW r, r \in Adapters!Requests
  PROVE  /\ OfBits(r)
         /\ \A d : LET q == [r EXCEPT !.data = d]
                   IN  q.type = r.type /\ q.address = r.address /\ q.size = r.size /\ q.data = d
<1>1. Adapters!TotalSize = Total /\ Total \in Nat /\ MaxLength \in Nat
  BY Ends DEF Adapters!Parameters
<1>2. PICK a \in 0 .. Total - 1 : \E s \in {l \in 1 .. MaxLength : a + l <= Total} : r \in Adapters!RequestsOf(a, s)
  BY <1>1 DEF Adapters!Requests
<1>3. PICK s \in {l \in 1 .. MaxLength : a + l <= Total} : r \in Adapters!RequestsOf(a, s)
  BY <1>2
<1>4. a \in Nat /\ s \in Nat \ {0} /\ a + s <= Total
  BY <1>1, <1>3
<1>5. r.address = a /\ r.size = s /\ r.type \in {"READ", "WRITE"} /\ r.data \in [0 .. s - 1 -> {0, 1}]
  <2>1. [i \in 0 .. s - 1 |-> 0] \in [0 .. s - 1 -> {0, 1}]
    OBVIOUS
  <2> QED BY <1>3, <2>1 DEF Adapters!RequestsOf, Adapters!Bit
<1>6. r = [type |-> r.type, address |-> r.address, size |-> r.size, data |-> r.data]
  BY <1>3 DEF Adapters!RequestsOf
<1> QED
  BY <1>4, <1>5, <1>6 DEF OfBits

(* A WRITE changes the bits of a block that it has. *)
LEMMA BitsAfterAt ==
  ASSUME Adapters!Parameters, NEW r, OfBits(r), NEW b \in Nat, NEW bits, NEW x \in 0 .. BlockSize - 1
  PROVE  Adapters!BlockAfter(r, b, bits)[x]
           = IF r.type = "WRITE" /\ BlockSize * b + x \in CellsOf(r)
             THEN r.data[BlockSize * b + x - r.address] ELSE bits[x]
<1> DEFINE blocks == Disk!BlocksOf(r.address, r.size, BlockSize)
           part == Disk!PartIn(b, r.address, r.size, BlockSize)
           base == BlockSize * b
           after == Adapters!BlockAfter(r, b, bits)
<1>1. BlockSize \in Nat \ {0} /\ r.address \in Nat /\ r.size \in Nat \ {0} /\ base \in Nat
  BY Ends DEF OfBits
<1>2. /\ base + x \in r.address .. r.address + r.size - 1 => b \in blocks
      /\ b \in blocks =>
           /\ part.blockOffset \in Nat /\ part.requestOffset \in Nat /\ part.size \in Nat
           /\ base + part.blockOffset = r.address + part.requestOffset
           /\ x \in part.blockOffset .. part.blockOffset + part.size - 1
                <=> base + x \in r.address .. r.address + r.size - 1
  <2> DEFINE ra == r.address
             rs == r.size
  <2>1. ra \in Nat /\ rs \in Nat \ {0}
    BY <1>1
  <2> HIDE DEF ra, rs
  <2> QED BY <1>1, <2>1, PartOf DEF ra, rs
<1>3. CellsOf(r) = r.address .. r.address + r.size - 1
  BY DEF CellsOf
<1>4. CASE r.type = "WRITE" /\ b \in blocks
  <2>1. after = [i \in 0 .. BlockSize - 1 |->
                   IF i - part.blockOffset \in 0 .. part.size - 1
                   THEN r.data[part.requestOffset + i - part.blockOffset] ELSE bits[i]]
    BY <1>4, AdaptersOrder DEF Adapters!BlockAfter, Adapters!Part
  <2>2. after[x] = IF x - part.blockOffset \in 0 .. part.size - 1
                   THEN r.data[part.requestOffset + x - part.blockOffset] ELSE bits[x]
    BY <2>1
  <2> DEFINE bo == part.blockOffset
             ro == part.requestOffset
             sz == part.size
             ra == r.address
  <2>3. /\ bo \in Nat /\ ro \in Nat /\ ra \in Nat /\ sz \in Nat /\ base + bo = ra + ro
        /\ x \in bo .. bo + sz - 1 <=> base + x \in CellsOf(r)
    BY <1>1, <1>2, <1>3, <1>4
  <2> HIDE DEF bo, ro, sz, ra, base, after, part
  <2>4. ro + x - bo = base + x - ra
    BY <1>1, <2>3
  <2>5. x - bo \in 0 .. sz - 1 <=> base + x \in CellsOf(r)
    <3>1. x - bo \in 0 .. sz - 1 <=> x \in bo .. bo + sz - 1
      BY <1>1, <2>3
    <3> QED BY <2>3, <3>1
  <2>6. after[x] = IF x - bo \in 0 .. sz - 1 THEN r.data[ro + x - bo] ELSE bits[x]
    BY <2>2 DEF bo, ro, sz
  <2>7. after[x] = IF base + x \in CellsOf(r) THEN r.data[base + x - ra] ELSE bits[x]
    BY <2>4, <2>5, <2>6
  <2> QED BY <1>4, <2>7 DEF base, after, ra
<1>5. CASE ~(r.type = "WRITE" /\ b \in blocks)
  <2>1. after = bits
    BY <1>5, AdaptersOrder DEF Adapters!BlockAfter
  <2>2. ~(r.type = "WRITE" /\ base + x \in CellsOf(r))
    BY <1>2, <1>3, <1>5
  <2> QED BY <2>1, <2>2
<1> QED
  BY <1>4, <1>5

(* The recursion of BlockAfterFirst. *)
LEMMA BlockAfterFirstIs ==
  ASSUME NEW requests, NEW b, NEW n \in Nat, Len(requests) = n
  PROVE  /\ Adapters!BlockAfterFirst(requests, b, 0) = Adapters!BlockFrom(b)
         /\ \A k \in 1 .. n :
              Adapters!BlockAfterFirst(requests, b, k)
                = Adapters!BlockAfter(requests[k], b, Adapters!BlockAfterFirst(requests, b, k - 1))
<1> DEFINE start == Adapters!BlockFrom(b)
           Next1(k, bits) == Adapters!BlockAfter(requests[k], b, bits)
           Up(c, m) == c[0] = start /\ \A k \in 1 .. m : c[k] = Next1(k, c[k - 1])
           S == { m \in 0 .. n : \E c : Up(c, m) }
           f == CHOOSE f : f = [k \in 0 .. n |-> IF k = 0 THEN start ELSE Next1(k, f[k - 1])]
<1>1. \A k : Adapters!BlockAfterFirst(requests, b, k) = f[k]
  BY DEF Adapters!BlockAfterFirst
<1> HIDE DEF f, start, Next1
<1>2. 0 \in S
  <2> DEFINE c == [k \in {0} |-> start]
  <2>1. c[0] = start /\ 1 .. 0 = {}
    OBVIOUS
  <2> HIDE DEF c
  <2> QED BY <2>1
<1>3. ASSUME NEW m \in 0 .. n - 1, m \in S PROVE m + 1 \in S
  <2>1. PICK c : Up(c, m)
    BY <1>3
  <2> DEFINE e == [k \in 0 .. m + 1 |-> IF k = m + 1 THEN Next1(m + 1, c[m]) ELSE c[k]]
  <2>2. e[m + 1] = Next1(m + 1, c[m]) /\ \A k \in 0 .. m : e[k] = c[k]
    OBVIOUS
  <2> HIDE DEF e
  <2>3. ASSUME NEW k \in 1 .. m + 1 PROVE e[k] = Next1(k, e[k - 1])
    <3>1. CASE k = m + 1
      <4>1. k - 1 = m /\ m \in 0 .. m
        BY <3>1
      <4> QED BY <2>2, <3>1, <4>1
    <3>2. CASE k # m + 1
      <4>1. k \in 1 .. m /\ k \in 0 .. m /\ k - 1 \in 0 .. m
        BY <3>2
      <4> QED BY <2>1, <2>2, <4>1
    <3> QED BY <3>1, <3>2
  <2>4. e[0] = start /\ m + 1 \in 0 .. n
    BY <2>1, <2>2
  <2>5. Up(e, m + 1)
    BY <2>3, <2>4
  <2> HIDE DEF Up
  <2> QED BY <2>4, <2>5
<1>4. \A m \in 0 .. n : m \in S
  <2> HIDE DEF S
  <2> QED BY <1>2, <1>3, PrefixInduction
<1>5. PICK c : Up(c, n)
  <2>1. n \in 0 .. n
    OBVIOUS
  <2> QED BY <1>4, <2>1
<1> DEFINE g == [k \in 0 .. n |-> c[k]]
<1>6. g = [k \in 0 .. n |-> IF k = 0 THEN start ELSE Next1(k, g[k - 1])]
  <2>1. ASSUME NEW k \in 0 .. n
        PROVE  c[k] = IF k = 0 THEN start ELSE Next1(k, g[k - 1])
    <3>1. CASE k = 0
      BY <1>5, <3>1
    <3>2. CASE k # 0
      <4>1. k \in 1 .. n /\ k - 1 \in 0 .. n
        BY <3>2
      <4>2. g[k - 1] = c[k - 1]
        BY <4>1
      <4> HIDE DEF g
      <4> QED BY <1>5, <3>2, <4>1, <4>2
    <3> QED BY <3>1, <3>2
  <2> QED BY <2>1
<1>7. f = [k \in 0 .. n |-> IF k = 0 THEN start ELSE Next1(k, f[k - 1])]
  <2> HIDE DEF g
  <2> QED BY <1>6 DEF f
<1>8. \A k \in 0 .. n : f[k] = IF k = 0 THEN start ELSE Next1(k, f[k - 1])
  BY <1>7
<1>9. f[0] = start /\ \A k \in 1 .. n : f[k] = Next1(k, f[k - 1])
  BY <1>8
<1> QED
  BY <1>1, <1>9 DEF start, Next1

(* The bits stay bits, and those that no WRITE has stay as they are.        *)
LEMMA BitsFollow ==
  ASSUME Adapters!Parameters, NEW start, start \in [0 .. Total - 1 -> {0, 1}],
         NEW m \in Nat, NEW requests, \A k \in 1 .. m : OfBits(requests[k]),
         NEW c, Follows(c, start, requests, m)
  PROVE  \A k \in 0 .. m :
           /\ c[k] \in [0 .. Total - 1 -> {0, 1}]
           /\ \A a \in 0 .. Total - 1 :
                (\A j \in 1 .. m : ~(requests[j].type = "WRITE" /\ a \in CellsOf(requests[j])))
                  => c[k][a] = start[a]
<1> DEFINE All == 0 .. Total - 1
           Free(a) == \A j \in 1 .. m : ~(requests[j].type = "WRITE" /\ a \in CellsOf(requests[j]))
           Good(k) == c[k] \in [All -> {0, 1}] /\ \A a \in All : Free(a) => c[k][a] = start[a]
           S == { k \in 0 .. m : Good(k) }
<1>1. c[0] = start /\ \A k \in 1 .. m : c[k] = AfterWrite(c[k - 1], requests[k])
  BY DEF Follows
<1>2. 0 \in S
  <2>1. Good(0)
    <3> HIDE DEF Free
    <3> QED BY <1>1
  <2>2. 0 \in 0 .. m
    OBVIOUS
  <2> HIDE DEF Good
  <2> QED BY <2>1, <2>2
<1>3. ASSUME NEW k \in 0 .. m - 1, k \in S PROVE k + 1 \in S
  <2>1. k + 1 \in 1 .. m /\ k + 1 \in 0 .. m /\ (k + 1) - 1 = k
    OBVIOUS
  <2> DEFINE r == requests[k + 1]
             old == c[k]
             new == c[k + 1]
  <2>2. /\ OfBits(r) /\ new = AfterWrite(old, r) /\ old \in [All -> {0, 1}]
        /\ \A a \in All : Free(a) => old[a] = start[a] /\ ~(r.type = "WRITE" /\ a \in CellsOf(r))
    BY <1>1, <1>3, <2>1
  <2> HIDE DEF r, old, new, Free
  <2>3. CASE r.type = "READ"
    <3>1. new = old
      BY <2>2, <2>3 DEF AfterWrite
    <3> QED BY <2>1, <2>2, <3>1 DEF new
  <2>4. CASE r.type = "WRITE"
    <3>1. new = [a \in All |-> IF a \in CellsOf(r) THEN r.data[a - r.address] ELSE old[a]]
      BY <2>2, <2>4 DEF AfterWrite
    <3>2. ASSUME NEW a \in All
          PROVE  (IF a \in CellsOf(r) THEN r.data[a - r.address] ELSE old[a]) \in {0, 1}
      <4>1. a \in CellsOf(r) => a - r.address \in 0 .. r.size - 1
        <5>1. r.address \in Nat /\ r.size \in Nat /\ CellsOf(r) = r.address .. r.address + r.size - 1
          BY <2>2 DEF OfBits, CellsOf
        <5> QED BY <5>1
      <4>2. r.data \in [0 .. r.size - 1 -> {0, 1}]
        BY <2>2 DEF OfBits
      <4> QED BY <2>2, <4>1, <4>2
    <3>3. new \in [All -> {0, 1}]
      BY <3>1, <3>2
    <3>4. \A a \in All : Free(a) => new[a] = start[a]
      BY <2>2, <2>4, <3>1
    <3> QED BY <2>1, <3>3, <3>4 DEF new
  <2> QED BY <2>2, <2>3, <2>4 DEF OfBits
<1>4. \A k \in 0 .. m : k \in S
  <2> HIDE DEF S
  <2> QED BY <1>2, <1>3, PrefixInduction
<1> QED
  BY <1>4

(* A block, as the first requests are done on its bits.                     *)
LEMMA BlocksFollow ==
  ASSUME Adapters!Parameters, mapping = Adapters!Mapping,
         NEW m \in Nat, NEW requests, Len(requests) = m, \A k \in 1 .. m : OfBits(requests[k]),
         ChildrenTyped(lower, upper), NEW c, Follows(c, BitsIn(lower, upper), requests, m),
         NEW b \in Nat, BlockSize * b < Total
  PROVE  \A k \in 0 .. m :
           Adapters!BlockAfterFirst(requests, b, k)
             = [x \in 0 .. BlockSize - 1 |-> c[k][BlockSize * b + x]]
<1> DEFINE base == BlockSize * b
           In == 0 .. BlockSize - 1
           After(k) == Adapters!BlockAfterFirst(requests, b, k)
           Here(k) == [x \in In |-> c[k][base + x]]
           S == { k \in 0 .. m : After(k) = Here(k) }
<1>1. c[0] = BitsIn(lower, upper) /\ \A k \in 1 .. m : c[k] = AfterWrite(c[k - 1], requests[k])
  BY DEF Follows
<1>2. /\ After(0) = Adapters!BlockFrom(b)
      /\ \A k \in 1 .. m : After(k) = Adapters!BlockAfter(requests[k], b, After(k - 1))
  BY BlockAfterFirstIs
<1>3. \A x \in In : /\ base \in 0 .. Total - 1 /\ base + x \in 0 .. Total - 1
                    /\ Place(base + x).isUpper = Place(base).isUpper
                    /\ Place(base + x).at = Place(base).at + x
  BY PlaceInBlock
<1>4. 0 \in S
  <2>1. b * BlockSize = base /\ 0 \in In
    BY Ends
  <2>2. Adapters!Located(base) = Place(base)
    BY <1>3, <2>1, LocatedIs
  <2> DEFINE u == Place(base).isUpper
             p == Place(base).at
  <2>3. Adapters!BlockFrom(b) = [x \in In |-> (IF u THEN upper ELSE lower)[p + x]]
    BY <2>1, <2>2 DEF Adapters!BlockFrom
  <2>4. ASSUME NEW x \in In
        PROVE  (IF u THEN upper ELSE lower)[p + x] = c[0][base + x]
    <3>1. base + x \in 0 .. Total - 1 /\ Place(base + x).isUpper = u /\ Place(base + x).at = p + x
      BY <1>3
    <3> QED BY <1>1, <3>1 DEF BitsIn
  <2> QED BY <1>2, <2>3, <2>4
<1>5. ASSUME NEW k \in 0 .. m - 1, k \in S PROVE k + 1 \in S
  <2>1. k + 1 \in 1 .. m /\ k + 1 \in 0 .. m /\ (k + 1) - 1 = k /\ k \in 0 .. m
    OBVIOUS
  <2> DEFINE r == requests[k + 1]
             old == c[k]
             new == c[k + 1]
             bits == After(k)
             after == After(k + 1)
  <2>2. OfBits(r) /\ new = AfterWrite(old, r) /\ after = Adapters!BlockAfter(r, b, bits)
    BY <1>1, <1>2, <2>1
  <2>3. old \in [0 .. Total - 1 -> {0, 1}]
    <3>1. BitsIn(lower, upper) \in [0 .. Total - 1 -> {0, 1}]
      BY BitsTyped
    <3> QED BY <2>1, <3>1, BitsFollow
  <2>4. bits = [x \in In |-> old[base + x]]
    BY <1>5
  <2> HIDE DEF r, old, new, bits, after
  <2>5. ASSUME NEW a \in 0 .. Total - 1
        PROVE  new[a] = IF r.type = "WRITE" /\ a \in CellsOf(r) THEN r.data[a - r.address] ELSE old[a]
    <3>1. CASE r.type = "READ"
      BY <2>2, <3>1 DEF AfterWrite
    <3>2. CASE r.type = "WRITE"
      <4>1. new = [y \in 0 .. Total - 1 |-> IF y \in CellsOf(r) THEN r.data[y - r.address] ELSE old[y]]
        BY <2>2, <2>3, <3>2 DEF AfterWrite
      <4> QED BY <3>2, <4>1
    <3>3. r.type = "READ" \/ r.type = "WRITE"
      BY <2>2 DEF OfBits
    <3> QED BY <3>1, <3>2, <3>3
  <2>6. ASSUME NEW x \in In
        PROVE  after[x] = new[base + x]
    <3>1. after[x] = IF r.type = "WRITE" /\ base + x \in CellsOf(r)
                     THEN r.data[base + x - r.address] ELSE bits[x]
      BY <2>2, BitsAfterAt
    <3>2. new[base + x] = IF r.type = "WRITE" /\ base + x \in CellsOf(r)
                          THEN r.data[base + x - r.address] ELSE old[base + x]
      <4>1. base + x \in 0 .. Total - 1
        BY <1>3
      <4> DEFINE ra == r.address
                 data == r.data
      <4>2. base \in Nat /\ x \in Nat /\ ra \in Nat
        BY <1>3, <2>2 DEF OfBits
      <4> HIDE DEF base, ra, data
      <4>3. new[base + x] = IF r.type = "WRITE" /\ base + x \in CellsOf(r)
                            THEN data[base + x - ra] ELSE old[base + x]
        BY <2>5, <4>1, <4>2 DEF ra, data
      <4> QED BY <4>3 DEF ra, data
    <3>3. bits[x] = old[base + x]
      BY <2>4
    <3> QED BY <3>1, <3>2, <3>3
  <2>7. after = [x \in In |-> after[x]]
    <3>1. DOMAIN bits = In /\ bits = [x \in In |-> bits[x]]
      BY <2>4
    <3> QED BY <2>2, <3>1 DEF Adapters!BlockAfter
  <2>8. after = [x \in In |-> new[base + x]]
    BY <2>6, <2>7
  <2> QED BY <2>1, <2>8 DEF after, new
<1>6. \A k \in 0 .. m : k \in S
  <2> HIDE DEF S
  <2> QED BY <1>4, <1>5, PrefixInduction
<1> QED
  BY <1>6

(* The data of a READ, as the requests before it leave the bits. *)
LEMMA BitsAreRead ==
  ASSUME Adapters!Parameters, mapping = Adapters!Mapping,
         NEW m \in Nat, NEW requests, Len(requests) = m, \A k \in 1 .. m : OfBits(requests[k]),
         ChildrenTyped(lower, upper), NEW c, Follows(c, BitsIn(lower, upper), requests, m),
         NEW k \in 1 .. m, requests[k].type = "READ"
  PROVE  Adapters!DataOf(requests, k) = DataRead(c[k - 1], requests[k])
<1> DEFINE r == requests[k]
           Has(b, i) == i - Adapters!Part(r, b).requestOffset \in 0 .. Adapters!Part(r, b).size - 1
           blocks == Disk!BlocksOf(r.address, r.size, BlockSize)
<1>1. /\ BlockSize \in Nat \ {0} /\ OfBits(r) /\ r.type = "READ" /\ k \in 0 .. m
      /\ Total \in Nat /\ Total % BlockSize = 0
  BY Ends
<1>2. c[k] = c[k - 1]
  BY <1>1 DEF Follows, AfterWrite
<1>3. /\ \A b : Adapters!Part(r, b) = Disk!PartIn(b, r.address, r.size, BlockSize)
      /\ Adapters!BlocksOf(r.address, r.size, BlockSize) = blocks
  BY AdaptersOrder DEF Adapters!Part
<1>4. ASSUME NEW i \in 0 .. r.size - 1
      PROVE  LET block == CHOOSE b \in blocks : Has(b, i)
                 part == Adapters!Part(r, block)
             IN  Adapters!BlockAfterFirst(requests, block, k)[part.blockOffset + i - part.requestOffset]
                   = c[k][r.address + i]
  <2> DEFINE block == CHOOSE b \in blocks : Has(b, i)
             part == Adapters!Part(r, block)
             x == part.blockOffset + i - part.requestOffset
             base == BlockSize * block
  <2>1. block \in Nat /\ x \in 0 .. BlockSize - 1 /\ base + x = r.address + i
    <3> DEFINE ra == r.address
               rs == r.size
    <3>1. ra \in Nat /\ rs \in Nat \ {0} /\ i \in 0 .. rs - 1
      BY <1>1 DEF OfBits
    <3> HIDE DEF ra, rs
    <3>2. LET bl == CHOOSE b \in Disk!BlocksOf(ra, rs, BlockSize) :
                      i - Disk!PartIn(b, ra, rs, BlockSize).requestOffset
                        \in 0 .. Disk!PartIn(b, ra, rs, BlockSize).size - 1
              pt == Disk!PartIn(bl, ra, rs, BlockSize)
              y == pt.blockOffset + i - pt.requestOffset
          IN  bl \in Nat /\ y \in 0 .. BlockSize - 1 /\ BlockSize * bl + y = ra + i
      BY <1>1, <3>1, PartFound
    <3> QED BY <1>3, <3>2 DEF ra, rs
  <2> HIDE DEF block, x
  <2>2. base < Total
    <3>1. base \in Nat
      BY <1>1, <2>1
    <3>2. r.address \in Nat /\ r.size \in Nat /\ r.address + r.size <= Total
      BY <1>1 DEF OfBits
    <3> DEFINE ra == r.address
               rs == r.size
    <3>3. base \in Nat /\ x \in Nat /\ ra \in Nat /\ rs \in Nat /\ ra + rs <= Total /\ base + x = ra + i
          /\ i \in 0 .. rs - 1
      BY <2>1, <3>1, <3>2
    <3> HIDE DEF base, ra, rs
    <3> QED BY <1>1, <3>3
  <2>3. Adapters!BlockAfterFirst(requests, block, k) = [y \in 0 .. BlockSize - 1 |-> c[k][base + y]]
    BY <1>1, <2>1, <2>2, BlocksFollow
  <2>4. Adapters!BlockAfterFirst(requests, block, k)[x] = c[k][r.address + i]
    BY <2>1, <2>3
  <2> QED BY <2>4 DEF x, block
<1> QED
  BY <1>2, <1>3, <1>4 DEF Adapters!DataOf, DataRead

(* What blocks written back leave in the cells of a memory.                 *)
LEMMA WrittenBackAt ==
  ASSUME Adapters!Parameters, mapping = Adapters!Mapping, NEW u \in BOOLEAN, NEW child,
         child \in [0 .. SizeOfChild(u) - 1 -> {0, 1}], NEW blocks,
         \A b \in DOMAIN blocks : /\ b \in Nat /\ BlockSize * b < Total
                                  /\ blocks[b] \in [0 .. BlockSize - 1 -> {0, 1}]
  PROVE  /\ Adapters!WrittenBack(child, u, blocks) \in [0 .. SizeOfChild(u) - 1 -> {0, 1}]
         /\ \A a \in 0 .. Total - 1 :
              Place(a).isUpper = u =>
                Adapters!WrittenBack(child, u, blocks)[Place(a).at]
                  = IF a \div BlockSize \in DOMAIN blocks
                    THEN blocks[a \div BlockSize][a - BlockSize * (a \div BlockSize)]
                    ELSE child[Place(a).at]
<1> DEFINE Base(b) == BlockSize * b
           mine == {b \in DOMAIN blocks : Place(Base(b)).isUpper = u}
           Has(z, b) == z - Place(Base(b)).at \in 0 .. BlockSize - 1
           now == Adapters!WrittenBack(child, u, blocks)
           In == 0 .. BlockSize - 1
           One(z) == CHOOSE b \in mine : Has(z, b)
<1>1. BlockSize \in Nat \ {0} /\ Total \in Nat
  BY Ends
<1>2. ASSUME NEW b, b \in DOMAIN blocks
      PROVE  /\ b \in Nat /\ Base(b) < Total /\ b * BlockSize = Base(b)
             /\ Adapters!Located(b * BlockSize) = Place(Base(b))
             /\ \A x \in In : /\ Base(b) + x \in 0 .. Total - 1
                              /\ Place(Base(b) + x).isUpper = Place(Base(b)).isUpper
                              /\ Place(Base(b) + x).at = Place(Base(b)).at + x
             /\ Place(Base(b)).at \in Nat
  <2>1. b \in Nat /\ Base(b) < Total
    BY <1>2
  <2>2. b * BlockSize = Base(b)
    BY <1>1, <2>1
  <2>3. 0 \in In
    BY <1>1
  <2>4. \A x \in In : /\ Base(b) \in 0 .. Total - 1 /\ Base(b) + x \in 0 .. Total - 1
                      /\ Place(Base(b) + x).isUpper = Place(Base(b)).isUpper
                      /\ Place(Base(b) + x).at = Place(Base(b)).at + x
    BY <2>1, PlaceInBlock
  <2>5. Base(b) \in 0 .. Total - 1
    BY <2>3, <2>4
  <2>6. Adapters!Located(Base(b)) = Place(Base(b))
    <3> HIDE DEF Base
    <3> QED BY <2>5, LocatedIs
  <2>7. Place(Base(b)).at \in Nat
    <3> DEFINE y == Base(b)
    <3> HIDE DEF Base
    <3>1. Place(y).at \in 0 .. SizeOfChild(Place(y).isUpper) - 1
      BY <2>5, PlaceIn
    <3> QED BY <3>1
  <2> QED BY <2>1, <2>2, <2>4, <2>6, <2>7
<1>3. now = [z \in 0 .. SizeOfChild(u) - 1 |->
               IF \E b \in mine : Has(z, b) THEN blocks[One(z)][z - Place(Base(One(z))).at] ELSE child[z]]
  <2>1. mine = {b \in DOMAIN blocks : Adapters!Located(b * BlockSize).isUpper = u}
    BY <1>2
  <2>2. \A z : \A b \in mine : Has(z, b) <=> z - Adapters!Located(b * BlockSize).at \in In
    BY <1>2
  <2> DEFINE Was(z, b) == z - Adapters!Located(b * BlockSize).at \in In
  <2>3. \A z : (CHOOSE b \in mine : Was(z, b)) = One(z)
    <3> HIDE DEF mine, Has
    <3> QED BY <2>2
  <2>4. \A z : (\E b \in mine : Has(z, b)) => One(z) \in mine /\ Has(z, One(z))
    <3> HIDE DEF mine, Has
    <3> QED OBVIOUS
  <2>5. \A z : (\E b \in mine : Has(z, b)) =>
                 Adapters!Located(One(z) * BlockSize).at = Place(Base(One(z))).at
    <3>1. \A b \in mine : Adapters!Located(b * BlockSize).at = Place(Base(b)).at
      BY <1>2
    <3> HIDE DEF mine, Has, One, Base
    <3> QED BY <2>4, <3>1
  <2>6. now = [z \in 0 .. SizeOfChild(u) - 1 |->
                 IF \E b \in mine : Was(z, b)
                 THEN LET b == CHOOSE b \in mine : Was(z, b)
                      IN  blocks[b][z - Adapters!Located(b * BlockSize).at]
                 ELSE child[z]]
    <3>1. DOMAIN child = 0 .. SizeOfChild(u) - 1
      OBVIOUS
    <3> HIDE DEF mine
    <3> QED BY <2>1, <3>1 DEF Adapters!WrittenBack
  <2> HIDE DEF mine, Has, One, Base, now
  <2> QED BY <2>2, <2>3, <2>5, <2>6
<1>4. \A z : (\E b \in mine : Has(z, b)) => One(z) \in mine /\ Has(z, One(z))
  <2> HIDE DEF mine, Has
  <2> QED OBVIOUS
<1> HIDE DEF now, One
<1>5. now \in [0 .. SizeOfChild(u) - 1 -> {0, 1}]
  <2>1. ASSUME NEW z \in 0 .. SizeOfChild(u) - 1
        PROVE  now[z] \in {0, 1}
    <3>1. CASE \E b \in mine : Has(z, b)
      <4>1. now[z] = blocks[One(z)][z - Place(Base(One(z))).at]
        BY <1>3, <3>1
      <4>2. One(z) \in DOMAIN blocks /\ z - Place(Base(One(z))).at \in In
        BY <1>4, <3>1
      <4>3. blocks[One(z)] \in [In -> {0, 1}]
        BY <4>2
      <4> QED BY <4>1, <4>2, <4>3
    <3>2. CASE ~ \E b \in mine : Has(z, b)
      BY <1>3, <3>2
    <3> QED BY <3>1, <3>2
  <2>2. now = [z \in 0 .. SizeOfChild(u) - 1 |-> now[z]]
    BY <1>3
  <2> QED BY <2>1, <2>2
<1>6. ASSUME NEW a \in 0 .. Total - 1, Place(a).isUpper = u
      PROVE  now[Place(a).at] = IF a \div BlockSize \in DOMAIN blocks
                                THEN blocks[a \div BlockSize][a - BlockSize * (a \div BlockSize)]
                                ELSE child[Place(a).at]
  <2> DEFINE d == a \div BlockSize
             z == Place(a).at
             y == a - BlockSize * d
  <2>1. z \in 0 .. SizeOfChild(u) - 1
    BY <1>6, PlaceIn
  <2>2. d \in Nat /\ y \in In /\ Base(d) + y = a
    <3>1. d \in Nat /\ BlockSize * d <= a /\ a < BlockSize * d + BlockSize
      BY <1>1, BlockOf
    <3>2. BlockSize * d \in Nat
      <4> HIDE DEF d
      <4> QED BY <1>1, <3>1
    <3> HIDE DEF d
    <3> DEFINE base == BlockSize * d
    <3>3. base \in Nat /\ base <= a /\ a < base + BlockSize
      BY <3>1, <3>2
    <3> HIDE DEF base
    <3>4. a - base \in In /\ base + (a - base) = a
      BY <1>1, <3>3
    <3> QED BY <3>1, <3>4 DEF base
  <2> HIDE DEF d, y
  <2>3. ASSUME NEW b \in mine, Has(z, b)
        PROVE  b = d /\ z - Place(Base(b)).at = y
    <3> DEFINE x == z - Place(Base(b)).at
    <3>1. /\ b \in Nat /\ x \in In /\ Place(Base(b)).at \in Nat /\ Place(Base(b)).isUpper = u
      BY <1>2, <2>3
    <3>2. /\ Base(b) + x \in 0 .. Total - 1 /\ Place(Base(b) + x).isUpper = u
          /\ Place(Base(b) + x).at = Place(Base(b)).at + x
      BY <1>2, <2>3, <3>1
    <3>3. Place(Base(b)).at + x = z
      <4> DEFINE p == Place(Base(b)).at
      <4>1. p \in Nat /\ z \in Int
        BY <2>1, <3>1
      <4> HIDE DEF p, z
      <4>2. p + (z - p) = z
        BY <4>1
      <4> QED BY <4>2 DEF p
    <3>4. Base(b) + x = a
      <4> DEFINE w == Base(b) + x
      <4>1. w \in 0 .. Total - 1 /\ Place(w).isUpper = Place(a).isUpper /\ Place(w).at = Place(a).at
        BY <1>6, <3>2, <3>3
      <4> HIDE DEF w
      <4>2. w = a
        BY <4>1, PlaceIn
      <4> QED BY <4>2 DEF w
    <3> HIDE DEF x
    <3>5. /\ b < d => Base(b) + BlockSize <= Base(d)
          /\ d < b => Base(d) + BlockSize <= Base(b)
      BY <1>1, <2>2, <3>1, BlocksApart
    <3>6. Base(b) \in Nat /\ Base(d) \in Nat
      BY <1>1, <2>2, <3>1
    <3>7. b = d => Base(b) = Base(d)
      OBVIOUS
    <3>8. b = d /\ x = y
      <4> HIDE DEF Base
      <4> QED BY <1>1, <2>2, <3>1, <3>4, <3>5, <3>6, <3>7
    <3> QED BY <3>8 DEF x
  <2>4. CASE d \in DOMAIN blocks
    <3>1. /\ Place(Base(d)).at \in Nat
          /\ Place(a).isUpper = Place(Base(d)).isUpper /\ z = Place(Base(d)).at + y
      BY <1>2, <2>2, <2>4
    <3>2. d \in mine /\ Has(z, d)
      <4> DEFINE p == Place(Base(d)).at
      <4>1. p \in Nat /\ z = p + y /\ y \in In
        BY <2>2, <3>1
      <4> HIDE DEF p, z
      <4>2. z - p \in In
        BY <1>1, <4>1
      <4> QED BY <1>6, <2>4, <3>1, <4>2 DEF p
    <3>3. One(z) = d /\ z - Place(Base(One(z))).at = y
      BY <1>4, <2>3, <3>2
    <3>4. now[z] = blocks[One(z)][z - Place(Base(One(z))).at]
      BY <1>3, <2>1, <3>2
    <3> QED BY <2>4, <3>3, <3>4 DEF d, y
  <2>5. CASE d \notin DOMAIN blocks
    <3>1. ~ \E b \in mine : Has(z, b)
      BY <2>3, <2>5
    <3>2. now[z] = child[z]
      BY <1>3, <2>1, <3>1
    <3> QED BY <2>5, <3>2 DEF d
  <2> QED BY <2>4, <2>5
<1> QED
  BY <1>5, <1>6 DEF now

(* The blocks that a batch writes back. *)
LEMMA BlocksWrittenAre ==
  ASSUME Adapters!Parameters, mapping = Adapters!Mapping, ChildrenTyped(lower, upper),
         NEW m \in Nat, NEW requests, DOMAIN requests = 1 .. m, Len(requests) = m,
         \A k \in 1 .. m : OfBits(requests[k]),
         NEW c, Follows(c, BitsIn(lower, upper), requests, m)
  PROVE  LET blocks == Adapters!BlocksWritten(requests)
         IN  /\ \A b \in DOMAIN blocks :
                  /\ b \in Nat /\ BlockSize * b < Total
                  /\ blocks[b] = [x \in 0 .. BlockSize - 1 |-> c[m][BlockSize * b + x]]
                  /\ blocks[b] \in [0 .. BlockSize - 1 -> {0, 1}]
             /\ \A k \in 1 .. m :
                  requests[k].type = "WRITE" =>
                    Disk!BlocksOf(requests[k].address, requests[k].size, BlockSize) \subseteq DOMAIN blocks
<1> DEFINE blocks == Adapters!BlocksWritten(requests)
           Of(k) == Disk!BlocksOf(requests[k].address, requests[k].size, BlockSize)
           touched == UNION {Of(k) : k \in 1 .. m}
<1>1. BlockSize \in Nat \ {0} /\ Total \in Nat /\ m \in 0 .. m
  BY Ends
<1>2. blocks = IF \A k \in 1 .. m : requests[k].type = "READ" THEN << >>
               ELSE [b \in touched |-> Adapters!BlockAfterFirst(requests, b, m)]
  BY AdaptersOrder DEF Adapters!BlocksWritten
<1> HIDE DEF blocks
<1>3. ASSUME NEW b, b \in touched
      PROVE  b \in Nat /\ BlockSize * b < Total
  <2>1. PICK k \in 1 .. m : b \in Of(k)
    BY <1>3
  <2> DEFINE ra == requests[k].address
             rs == requests[k].size
  <2>2. ra \in Nat /\ rs \in Nat \ {0} /\ ra + rs <= Total /\ b \in Disk!BlocksOf(ra, rs, BlockSize)
    BY <2>1 DEF OfBits
  <2> HIDE DEF ra, rs
  <2> QED BY <1>1, <2>2, TouchedStarts
<1>4. ASSUME NEW b, b \in DOMAIN blocks
      PROVE  /\ b \in Nat /\ BlockSize * b < Total
             /\ blocks[b] = [x \in 0 .. BlockSize - 1 |-> c[m][BlockSize * b + x]]
             /\ blocks[b] \in [0 .. BlockSize - 1 -> {0, 1}]
  <2>1. b \in touched /\ blocks[b] = Adapters!BlockAfterFirst(requests, b, m)
    <3> HIDE DEF touched
    <3>1. ~ \A k \in 1 .. m : requests[k].type = "READ"
      BY <1>2, <1>4
    <3> QED BY <1>2, <1>4, <3>1
  <2>2. b \in Nat /\ BlockSize * b < Total
    BY <1>3, <2>1
  <2>3. blocks[b] = [x \in 0 .. BlockSize - 1 |-> c[m][BlockSize * b + x]]
    BY <1>1, <2>1, <2>2, BlocksFollow
  <2>4. c[m] \in [0 .. Total - 1 -> {0, 1}]
    <3>1. BitsIn(lower, upper) \in [0 .. Total - 1 -> {0, 1}]
      BY BitsTyped
    <3> QED BY <1>1, <3>1, BitsFollow
  <2>5. \A x \in 0 .. BlockSize - 1 : BlockSize * b + x \in 0 .. Total - 1
    BY <2>2, PlaceInBlock
  <2>6. \A x \in 0 .. BlockSize - 1 : c[m][BlockSize * b + x] \in {0, 1}
    BY <2>4, <2>5
  <2> QED BY <2>2, <2>3, <2>6
<1>5. ASSUME NEW k \in 1 .. m, requests[k].type = "WRITE"
      PROVE  Of(k) \subseteq DOMAIN blocks
  <2>1. blocks = [b \in touched |-> Adapters!BlockAfterFirst(requests, b, m)]
    <3> HIDE DEF touched
    <3> QED BY <1>2, <1>5
  <2>2. DOMAIN blocks = touched
    <3> HIDE DEF touched
    <3> QED BY <2>1
  <2> QED BY <2>2
<1> QED
  BY <1>4, <1>5 DEF blocks

(* After a batch the two memories have the bits as its requests leave them. *)
LEMMA BitsWritten ==
  ASSUME Adapters!Parameters, mapping = Adapters!Mapping, ChildrenTyped(lower, upper),
         NEW m \in Nat, NEW requests, DOMAIN requests = 1 .. m, Len(requests) = m,
         \A k \in 1 .. m : OfBits(requests[k]),
         NEW c, Follows(c, BitsIn(lower, upper), requests, m)
  PROVE  LET lo == Adapters!WrittenBack(lower, FALSE, Adapters!BlocksWritten(requests))
             up == Adapters!WrittenBack(upper, TRUE, Adapters!BlocksWritten(requests))
         IN  ChildrenTyped(lo, up) /\ BitsIn(lo, up) = c[m]
<1> DEFINE blocks == Adapters!BlocksWritten(requests)
           lo == Adapters!WrittenBack(lower, FALSE, blocks)
           up == Adapters!WrittenBack(upper, TRUE, blocks)
           start == BitsIn(lower, upper)
<1>1. /\ BlockSize \in Nat \ {0} /\ Total \in Nat /\ m \in 0 .. m
      /\ start \in [0 .. Total - 1 -> {0, 1}]
  BY Ends, BitsTyped
<1>2. /\ \A b \in DOMAIN blocks :
           /\ b \in Nat /\ BlockSize * b < Total
           /\ blocks[b] = [x \in 0 .. BlockSize - 1 |-> c[m][BlockSize * b + x]]
           /\ blocks[b] \in [0 .. BlockSize - 1 -> {0, 1}]
      /\ \A k \in 1 .. m :
           requests[k].type = "WRITE" =>
             Disk!BlocksOf(requests[k].address, requests[k].size, BlockSize) \subseteq DOMAIN blocks
  BY BlocksWrittenAre
<1>3. lower \in [0 .. SizeOfChild(FALSE) - 1 -> {0, 1}] /\ upper \in [0 .. SizeOfChild(TRUE) - 1 -> {0, 1}]
  BY DEF ChildrenTyped, SizeOfChild
<1> HIDE DEF blocks
<1>4. /\ lo \in [0 .. SizeOfChild(FALSE) - 1 -> {0, 1}]
      /\ \A a \in 0 .. Total - 1 :
           Place(a).isUpper = FALSE =>
             lo[Place(a).at] = IF a \div BlockSize \in DOMAIN blocks
                               THEN blocks[a \div BlockSize][a - BlockSize * (a \div BlockSize)]
                               ELSE lower[Place(a).at]
  BY <1>2, <1>3, WrittenBackAt
<1>5. /\ up \in [0 .. SizeOfChild(TRUE) - 1 -> {0, 1}]
      /\ \A a \in 0 .. Total - 1 :
           Place(a).isUpper = TRUE =>
             up[Place(a).at] = IF a \div BlockSize \in DOMAIN blocks
                               THEN blocks[a \div BlockSize][a - BlockSize * (a \div BlockSize)]
                               ELSE upper[Place(a).at]
  BY <1>2, <1>3, WrittenBackAt
<1> HIDE DEF lo, up
<1>6. ASSUME NEW a \in 0 .. Total - 1
      PROVE  BitsIn(lo, up)[a] = c[m][a]
  <2> DEFINE d == a \div BlockSize
             y == a - BlockSize * d
  <2>1. d \in Nat /\ y \in 0 .. BlockSize - 1 /\ BlockSize * d + y = a
    <3>1. d \in Nat /\ BlockSize * d <= a /\ a < BlockSize * d + BlockSize
      BY <1>1, BlockOf
    <3>2. BlockSize * d \in Nat
      <4> HIDE DEF d
      <4> QED BY <1>1, <3>1
    <3> HIDE DEF d
    <3> DEFINE base == BlockSize * d
    <3>3. base \in Nat /\ base <= a /\ a < base + BlockSize
      BY <3>1, <3>2
    <3> HIDE DEF base
    <3>4. a - base \in 0 .. BlockSize - 1 /\ base + (a - base) = a
      BY <1>1, <3>3
    <3> QED BY <3>1, <3>4 DEF base
  <2>2. BitsIn(lo, up)[a] = IF d \in DOMAIN blocks THEN blocks[d][y] ELSE start[a]
    <3>1. Place(a).isUpper \in BOOLEAN
      BY PlaceIn
    <3>2. start[a] = IF Place(a).isUpper THEN upper[Place(a).at] ELSE lower[Place(a).at]
      BY DEF BitsIn
    <3>3. BitsIn(lo, up)[a] = IF Place(a).isUpper THEN up[Place(a).at] ELSE lo[Place(a).at]
      BY DEF BitsIn
    <3> HIDE DEF start
    <3>4. CASE Place(a).isUpper = TRUE
      BY <1>5, <3>2, <3>3, <3>4
    <3>5. CASE Place(a).isUpper = FALSE
      BY <1>4, <3>2, <3>3, <3>5
    <3> QED BY <3>1, <3>4, <3>5
  <2> HIDE DEF d, y
  <2>3. CASE d \in DOMAIN blocks
    <3>1. blocks[d] = [x \in 0 .. BlockSize - 1 |-> c[m][BlockSize * d + x]]
      BY <1>2, <2>3
    <3>2. blocks[d][y] = c[m][BlockSize * d + y]
      BY <2>1, <3>1
    <3> QED BY <2>1, <2>2, <2>3, <3>2
  <2>4. CASE d \notin DOMAIN blocks
    <3>1. ASSUME NEW j \in 1 .. m, requests[j].type = "WRITE", a \in CellsOf(requests[j])
          PROVE  FALSE
      <4> DEFINE ra == requests[j].address
                 rs == requests[j].size
      <4>1. ra \in Nat /\ rs \in Nat \ {0} /\ BlockSize * d + y \in ra .. ra + rs - 1
        BY <2>1, <3>1 DEF OfBits, CellsOf
      <4> HIDE DEF ra, rs
      <4>2. d \in Disk!BlocksOf(ra, rs, BlockSize)
        BY <1>1, <2>1, <4>1, PartOf
      <4> QED BY <1>2, <2>4, <3>1, <4>2 DEF ra, rs
    <3>2. c[m][a] = start[a]
      BY <1>1, <3>1, BitsFollow
    <3> QED BY <2>2, <2>4, <3>2
  <2> QED BY <2>3, <2>4
<1>7. c[m] \in [0 .. Total - 1 -> {0, 1}]
  BY <1>1, BitsFollow
<1>8. BitsIn(lo, up) = c[m]
  <2>1. BitsIn(lo, up) = [a \in 0 .. Total - 1 |-> BitsIn(lo, up)[a]]
    BY DEF BitsIn
  <2>2. c[m] = [a \in 0 .. Total - 1 |-> c[m][a]]
    BY <1>7
  <2> QED BY <1>6, <2>1, <2>2
<1>9. ChildrenTyped(lo, up)
  BY <1>4, <1>5 DEF ChildrenTyped, SizeOfChild
<1> QED
  BY <1>8, <1>9 DEF lo, up, blocks

(* The mapping is as it was made; what the batch has done last, or nothing  *)
(* since, leads from the bits before to those that the two memories have.   *)
AdaptersInv(lo, up, map, requests, b) ==
  /\ map = Adapters!Mapping
  /\ ChildrenTyped(lo, up)
  /\ b \in [0 .. Total - 1 -> {0, 1}]
  /\ \E m \in Nat :
       /\ DOMAIN requests = 1 .. m /\ Len(requests) = m
       /\ \A k \in 1 .. m : requests[k].data \in [0 .. requests[k].size - 1 -> {0, 1}]
       /\ \E c : /\ Follows(c, b, requests, m) /\ c[m] = BitsIn(lo, up)
                 /\ \A k \in 1 .. m : requests[k].data = AnswerOf(requests[k], c[k - 1])

AdaptersIInv == AdaptersInv(lower, upper, mapping, batch, before)

LEMMA NoBatch ==
  ASSUME NEW start, NEW requests, requests = << >>
  PROVE  \E m \in Nat :
           /\ DOMAIN requests = 1 .. m /\ Len(requests) = m
           /\ \A k \in 1 .. m : requests[k].data \in [0 .. requests[k].size - 1 -> {0, 1}]
           /\ \E c : /\ Follows(c, start, requests, m) /\ c[m] = start
                     /\ \A k \in 1 .. m : requests[k].data = AnswerOf(requests[k], c[k - 1])
<1> DEFINE c == [k \in {0} |-> start]
<1>1. 1 .. 0 = {} /\ DOMAIN requests = 1 .. 0 /\ Len(requests) = 0 /\ c[0] = start
  OBVIOUS
<1> HIDE DEF c
<1>2. Follows(c, start, requests, 0)
  BY <1>1 DEF Follows
<1> QED
  BY <1>1, <1>2

LEMMA AdaptersInitInv == ASSUME Adapters!Parameters, Adapters!Init PROVE AdaptersIInv
<1>1. /\ lower = [a \in 0 .. LowerSize - 1 |-> 0] /\ upper = [a \in 0 .. UpperSize - 1 |-> 0]
      /\ mapping = Adapters!Mapping /\ batch = << >> /\ before = [a \in 0 .. Total - 1 |-> 0]
  BY Ends DEF Adapters!Init
<1>2. ChildrenTyped(lower, upper)
  BY <1>1 DEF ChildrenTyped
<1>3. BitsIn(lower, upper) = before
  <2>1. ASSUME NEW a \in 0 .. Total - 1
        PROVE  (IF Place(a).isUpper THEN upper[Place(a).at] ELSE lower[Place(a).at]) = 0
    <3> DEFINE u == Place(a).isUpper
               p == Place(a).at
    <3>1. u \in BOOLEAN /\ p \in 0 .. SizeOfChild(u) - 1
      BY PlaceIn
    <3> HIDE DEF u, p
    <3>2. (IF u THEN upper[p] ELSE lower[p]) = 0
      BY <1>1, <3>1 DEF SizeOfChild
    <3> QED BY <3>2 DEF u, p
  <2> QED BY <1>1, <2>1 DEF BitsIn
<1>4. before \in [0 .. Total - 1 -> {0, 1}]
  BY <1>1
<1>5. \E m \in Nat :
        /\ DOMAIN batch = 1 .. m /\ Len(batch) = m
        /\ \A k \in 1 .. m : batch[k].data \in [0 .. batch[k].size - 1 -> {0, 1}]
        /\ \E c : /\ Follows(c, before, batch, m) /\ c[m] = BitsIn(lower, upper)
                  /\ \A k \in 1 .. m : batch[k].data = AnswerOf(batch[k], c[k - 1])
  <2>1. \E m \in Nat :
          /\ DOMAIN batch = 1 .. m /\ Len(batch) = m
          /\ \A k \in 1 .. m : batch[k].data \in [0 .. batch[k].size - 1 -> {0, 1}]
          /\ \E c : /\ Follows(c, before, batch, m) /\ c[m] = before
                    /\ \A k \in 1 .. m : batch[k].data = AnswerOf(batch[k], c[k - 1])
    <3>1. batch = << >>
      BY <1>1
    <3> QED BY ONLY <3>1, NoBatch
  <2> QED BY <1>3, <2>1
<1> QED
  BY <1>1, <1>2, <1>4, <1>5 DEF AdaptersIInv, AdaptersInv

LEMMA AdaptersBatchInv ==
  ASSUME Adapters!Parameters, AdaptersIInv,
         NEW m, m \in 1 .. MaxBatch, NEW requests, requests \in [1 .. m -> Adapters!Requests],
         Adapters!Batch(requests)
  PROVE  AdaptersIInv'
<1>1. m \in Nat /\ DOMAIN requests = 1 .. m /\ Len(requests) = m
  BY DEF Adapters!Parameters
<1>2. mapping = Adapters!Mapping /\ ChildrenTyped(lower, upper)
  BY DEF AdaptersIInv, AdaptersInv
<1>3. ASSUME NEW k \in 1 .. m
      PROVE  /\ OfBits(requests[k])
             /\ \A d : LET q == [requests[k] EXCEPT !.data = d]
                       IN  /\ q.type = requests[k].type /\ q.address = requests[k].address
                           /\ q.size = requests[k].size /\ q.data = d
  <2>1. requests[k] \in Adapters!Requests
    OBVIOUS
  <2> QED BY <2>1, RequestsOfBits
<1> DEFINE start == BitsIn(lower, upper)
<1>4. start \in [0 .. Total - 1 -> {0, 1}] /\ Adapters!Bits = start
  BY <1>2, BitsTyped, BitsAre
<1>5. PICK c : Follows(c, start, requests, m)
  BY <1>1, CellsExist
<1>6. /\ before' = start /\ mapping' = mapping
      /\ batch' = [k \in 1 .. m |-> IF requests[k].type = "READ"
                                    THEN [requests[k] EXCEPT !.data = Adapters!DataOf(requests, k)]
                                    ELSE requests[k]]
      /\ lower' = Adapters!WrittenBack(lower, FALSE, Adapters!BlocksWritten(requests))
      /\ upper' = Adapters!WrittenBack(upper, TRUE, Adapters!BlocksWritten(requests))
  BY <1>1, <1>4 DEF Adapters!Batch
<1>7. ChildrenTyped(lower', upper') /\ BitsIn(lower', upper') = c[m]
  BY <1>1, <1>2, <1>3, <1>5, <1>6, BitsWritten
<1>8. \A k \in 0 .. m : c[k] \in [0 .. Total - 1 -> {0, 1}]
  BY <1>1, <1>3, <1>4, <1>5, BitsFollow
<1>9. ASSUME NEW k \in 1 .. m
      PROVE  /\ SameRequest(requests[k], batch'[k])
             /\ batch'[k].data = AnswerOf(requests[k], c[k - 1])
             /\ batch'[k].data \in [0 .. batch'[k].size - 1 -> {0, 1}]
  <2> DEFINE r == requests[k]
             d == Adapters!DataOf(requests, k)
             got == batch'[k]
  <2>1. OfBits(r)
    BY <1>3
  <2>2. got = IF r.type = "READ" THEN [r EXCEPT !.data = d] ELSE r
    BY <1>6
  <2>3. r.type = "READ" => d = DataRead(c[k - 1], r)
    BY <1>1, <1>2, <1>3, <1>5, BitsAreRead
  <2>4. LET q == [r EXCEPT !.data = d]
        IN  q.type = r.type /\ q.address = r.address /\ q.size = r.size /\ q.data = d
    BY <1>3
  <2> HIDE DEF r, d, got
  <2>5. CASE r.type = "READ"
    <3>1. got.type = r.type /\ got.address = r.address /\ got.size = r.size /\ got.data = d
      BY <2>2, <2>4, <2>5
    <3>2. DataRead(c[k - 1], r) \in [0 .. r.size - 1 -> {0, 1}]
      <4>1. k - 1 \in 0 .. m
        BY <1>1
      <4> DEFINE cells == c[k - 1]
                 ra == r.address
                 rs == r.size
      <4>2. cells \in [0 .. Total - 1 -> {0, 1}] /\ ra \in Nat /\ rs \in Nat /\ ra + rs <= Total
        BY <1>8, <2>1, <4>1 DEF OfBits
      <4> HIDE DEF cells, ra, rs
      <4>3. \A i \in 0 .. rs - 1 : ra + i \in 0 .. Total - 1
        BY <4>2, Ends
      <4>4. [i \in 0 .. rs - 1 |-> cells[ra + i]] \in [0 .. rs - 1 -> {0, 1}]
        BY <4>2, <4>3
      <4> QED BY <4>4 DEF DataRead, cells, ra, rs
    <3> QED BY <2>3, <2>5, <3>1, <3>2 DEF SameRequest, AnswerOf, r, got
  <2>6. CASE r.type # "READ"
    <3>1. got = r
      BY <2>2, <2>6
    <3> QED BY <2>1, <2>6, <3>1 DEF SameRequest, AnswerOf, OfBits, r, got
  <2> QED BY <2>5, <2>6
<1>10. /\ Follows(c, start, batch', m)
       /\ \A k \in 1 .. m : batch'[k].data = AnswerOf(batch'[k], c[k - 1])
  <2>1. c[0] = start /\ \A k \in 1 .. m : c[k] = AfterWrite(c[k - 1], requests[k])
    BY <1>5 DEF Follows
  <2>2. ASSUME NEW k \in 1 .. m
        PROVE  /\ c[k] = AfterWrite(c[k - 1], batch'[k])
               /\ batch'[k].data = AnswerOf(batch'[k], c[k - 1])
    <3> DEFINE q == requests[k]
               r == batch'[k]
               cells == c[k - 1]
    <3>1. SameRequest(q, r) /\ r.data = AnswerOf(q, cells) /\ c[k] = AfterWrite(cells, q)
      BY <1>9, <2>1
    <3> HIDE DEF q, r, cells
    <3>2. AfterWrite(cells, q) = AfterWrite(cells, r) /\ AnswerOf(q, cells) = AnswerOf(r, cells)
      BY <3>1, SameDone
    <3> QED BY <3>1, <3>2 DEF r, cells
  <2> QED BY <2>1, <2>2 DEF Follows
<1>11. DOMAIN batch' = 1 .. m /\ Len(batch') = m
  BY <1>1, <1>6
<1>12. AdaptersInv(lower', upper', mapping', batch', before')
  <2> DEFINE requests1 == batch'
             start1 == before'
             bits1 == BitsIn(lower', upper')
  <2>1. /\ Follows(c, start1, requests1, m) /\ c[m] = bits1
        /\ \A k \in 1 .. m : requests1[k].data = AnswerOf(requests1[k], c[k - 1])
    BY <1>6, <1>7, <1>10
  <2>2. start1 \in [0 .. Total - 1 -> {0, 1}]
    BY <1>4, <1>6
  <2>3. DOMAIN requests1 = 1 .. m /\ Len(requests1) = m
        /\ \A k \in 1 .. m : requests1[k].data \in [0 .. requests1[k].size - 1 -> {0, 1}]
    BY <1>9, <1>11
  <2>4. mapping' = Adapters!Mapping /\ ChildrenTyped(lower', upper')
    BY <1>2, <1>6, <1>7
  <2> HIDE DEF requests1, start1, bits1, start
  <2>5. \E n \in Nat :
          /\ DOMAIN requests1 = 1 .. n /\ Len(requests1) = n
          /\ \A k \in 1 .. n : requests1[k].data \in [0 .. requests1[k].size - 1 -> {0, 1}]
          /\ \E e : /\ Follows(e, start1, requests1, n) /\ e[n] = bits1
                    /\ \A k \in 1 .. n : requests1[k].data = AnswerOf(requests1[k], e[k - 1])
    BY <1>1, <2>1, <2>3
  <2> QED BY <2>2, <2>4, <2>5 DEF AdaptersInv, requests1, start1, bits1
<1> QED
  BY <1>12 DEF AdaptersIInv

LEMMA AdaptersReturnInv ==
  ASSUME Adapters!Parameters, AdaptersIInv, Adapters!Return PROVE AdaptersIInv'
<1>1. mapping = Adapters!Mapping /\ ChildrenTyped(lower, upper)
  BY DEF AdaptersIInv, AdaptersInv
<1>2. Adapters!Bits = BitsIn(lower, upper) /\ BitsIn(lower, upper) \in [0 .. Total - 1 -> {0, 1}]
  BY <1>1, BitsAre, BitsTyped
<1>3. /\ lower' = lower /\ upper' = upper /\ mapping' = mapping
      /\ batch' = << >> /\ before' = BitsIn(lower, upper)
  BY <1>2 DEF Adapters!Return
<1>4. AdaptersInv(lower', upper', mapping', batch', before')
  BY <1>1, <1>2, <1>3, NoBatch DEF AdaptersInv
<1> QED
  BY <1>4 DEF AdaptersIInv

LEMMA AdaptersInvariance == ASSUME Adapters!Parameters PROVE Adapters!Spec => []AdaptersIInv
<1>1. Adapters!Init => AdaptersIInv
  BY AdaptersInitInv
<1>2. AdaptersIInv /\ [Adapters!Next]_(Adapters!vars) => AdaptersIInv'
  <2> SUFFICES ASSUME AdaptersIInv, [Adapters!Next]_(Adapters!vars)
               PROVE  AdaptersIInv'
    OBVIOUS
  <2>1. ASSUME NEW m, m \in 1 .. MaxBatch, NEW requests, requests \in [1 .. m -> Adapters!Requests],
               Adapters!Batch(requests)
        PROVE  AdaptersIInv'
    BY <2>1, AdaptersBatchInv
  <2>2. CASE Adapters!Return
    BY <2>2, AdaptersReturnInv
  <2>3. CASE UNCHANGED Adapters!vars
    <3>1. /\ lower' = lower /\ upper' = upper /\ mapping' = mapping
          /\ batch' = batch /\ before' = before
      BY <2>3 DEF Adapters!vars
    <3> QED BY <3>1 DEF AdaptersIInv
  <2> QED BY <2>1, <2>2, <2>3 DEF Adapters!Next
<1> QED
  BY <1>1, <1>2, PTL DEF Adapters!Spec

(* The bits of both memories stay bits, and a batch brings data of the      *)
(* sizes its requests have.                                                 *)
THEOREM AdaptersTypeCorrect == ASSUME Adapters!Parameters PROVE Adapters!Spec => []Adapters!TypeOK
<1>1. ASSUME AdaptersIInv PROVE Adapters!TypeOK
  <2>1. Adapters!TotalSize = Total
    BY Ends
  <2> QED BY <1>1, <2>1 DEF AdaptersIInv, AdaptersInv, ChildrenTyped, Adapters!TypeOK, Adapters!Bit
<1> QED
  BY <1>1, AdaptersInvariance, PTL

(* Requests of bits, packed in blocks and the blocks spread over two        *)
(* memories by turns, come to what they would come to one after the other   *)
(* on one array of bits, whatever the split points, sizes and batches: the  *)
(* sections of a memory do not overlap, no block crosses a split, and each  *)
(* READ has the WRITEs before it and none after it.                         *)
THEOREM AdaptersDoneInOrder == ASSUME Adapters!Parameters PROVE Adapters!Spec => []Adapters!BatchDoneInOrder
<1>1. ASSUME AdaptersIInv PROVE Adapters!BatchDoneInOrder
  <2>1. mapping = Adapters!Mapping
    BY <1>1 DEF AdaptersIInv, AdaptersInv
  <2>2. PICK m \in Nat :
          /\ DOMAIN batch = 1 .. m /\ Len(batch) = m
          /\ \E c : /\ Follows(c, before, batch, m) /\ c[m] = BitsIn(lower, upper)
                    /\ \A k \in 1 .. m : batch[k].data = AnswerOf(batch[k], c[k - 1])
    BY <1>1 DEF AdaptersIInv, AdaptersInv
  <2>3. PICK c : /\ Follows(c, before, batch, m) /\ c[m] = BitsIn(lower, upper)
                 /\ \A k \in 1 .. m : batch[k].data = AnswerOf(batch[k], c[k - 1])
    BY <2>2
  <2> DEFINE cells == CellsAfter(before, batch)
  <2>4. \A k \in 0 .. m : cells[k] = c[k]
    BY <2>2, <2>3, CellsAfterIs
  <2> HIDE DEF cells
  <2>5. cells[m] = BitsIn(lower, upper)
    <3>1. m \in 0 .. m
      OBVIOUS
    <3> QED BY <2>3, <2>4, <3>1
  <2>6. ASSUME NEW k \in 1 .. m
        PROVE  (IF batch[k].type = "READ" THEN DataRead(cells[k - 1], batch[k]) ELSE batch[k].data)
                 = batch[k].data
    <3>1. k - 1 \in 0 .. m
      OBVIOUS
    <3>2. cells[k - 1] = c[k - 1]
      BY <2>4, <3>1
    <3> QED BY <2>3, <3>2 DEF AnswerOf
  <2>7. [k \in 1 .. m |-> IF batch[k].type = "READ" THEN DataRead(cells[k - 1], batch[k]) ELSE batch[k].data]
          = [k \in 1 .. m |-> batch[k].data]
    BY <2>6
  <2>8. /\ InOrder(before, batch).cells = cells[m]
        /\ InOrder(before, batch).data
             = [k \in 1 .. m |-> IF batch[k].type = "READ" THEN DataRead(cells[k - 1], batch[k])
                                                           ELSE batch[k].data]
    BY <2>2 DEF InOrder, cells
  <2>9. Adapters!Bits = BitsIn(lower, upper)
    BY <2>1, BitsAre
  <2>10. Adapters!InOrder(before, batch) = InOrder(before, batch)
    BY AdaptersOrder
  <2> QED BY <2>2, <2>5, <2>7, <2>8, <2>9, <2>10 DEF Adapters!BatchDoneInOrder
<1> QED
  BY <1>1, AdaptersInvariance, PTL
=============================================================================
