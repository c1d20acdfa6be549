---------------------------- MODULE TreesProofs -----------------------------
(***************************************************************************)
(* What lies in the pages of a tree, for pages of any number of levels.    *)
(*                                                                         *)
(* The valid bit tree, leaf pages deeper or shallower than the others.     *)
(* The chain of counters never breaks and no counter is used twice for a   *)
(* page: each page was encrypted under the counter its parent holds for    *)
(* it.  The bits of a bucket are where they were put, by address or by     *)
(* index: no two buckets share a place.                                    *)
(*                                                                         *)
(* The bucket tree, in either layout and for buckets and pages of any      *)
(* size.  No two buckets share a byte, the pointers lead to the buckets of *)
(* the path, and writing a path back, whole pages at a time, leaves every  *)
(* other bucket alone: the controller implements TreeStore.                *)
(***************************************************************************)
EXTENDS ValidBitTree, TreePathsProofs, FiniteSetTheorems, SequenceTheorems, FunctionTheorems

(* The levels of buckets a page level begins with.                         *)
LEMMA PageLevelFacts ==
  /\ Levels \in Nat /\ PageLevels \in Nat /\ PageLevels >= 2
  /\ LevelsPerNonLeafPage \in Nat \ {0} /\ LevelsPerLeafPage \in Nat \ {0}
  /\ LevelsPerNonLeafPage \in 0 .. Levels
  /\ FirstLevel(0) = 0
  /\ FirstLevel(PageLevels - 1) = Levels - LevelsPerLeafPage
  /\ \A k \in PageLevel : k \in Nat /\ FirstLevel(k) \in 0 .. Levels - 1
  /\ \A k \in PageLevel : k # 0 => /\ k - 1 \in PageLevel
                                   /\ FirstLevel(k) = FirstLevel(k - 1) + LevelsPerNonLeafPage
<1> DEFINE n == LevelsPerNonLeafPage
           last == PageLevels - 1
<1>1. /\ Levels \in Nat /\ PageLevels \in Nat /\ PageLevels >= 2 /\ last \in Nat /\ last >= 1
      /\ n \in Nat \ {0} /\ LevelsPerLeafPage \in Nat \ {0}
      /\ Levels = last * n + LevelsPerLeafPage
  BY ValidBitTreeAssumption, LevelsFacts DEF Parameters
<1>2. last * n \in Nat /\ n <= last * n
  <2> HIDE DEF last, n
  <2> QED BY <1>1, Z3
<1>3. last * n = Levels - LevelsPerLeafPage
  <2> HIDE DEF last, n
  <2> DEFINE m == last * n
  <2>1. m \in Nat /\ Levels = m + LevelsPerLeafPage
    BY <1>1, <1>2
  <2> HIDE DEF m
  <2>2. m = Levels - LevelsPerLeafPage
    BY <1>1, <2>1
  <2> QED BY <2>2 DEF m
<1>4. ASSUME NEW k \in PageLevel PROVE k \in Nat /\ FirstLevel(k) \in 0 .. Levels - 1
  <2>1. k \in Nat /\ k <= last
    BY <1>1, <1>4 DEF PageLevel
  <2>2. k * n \in Nat /\ k * n <= last * n
    <3> HIDE DEF last, n
    <3> QED BY <1>1, <2>1, Z3
  <2> DEFINE x == k * n
             y == last * n
  <2>3. x \in Nat /\ y \in Nat /\ x <= y /\ y = Levels - LevelsPerLeafPage
    BY <1>2, <1>3, <2>2
  <2> HIDE DEF x, y
  <2>4. x \in 0 .. Levels - 1
    BY <1>1, <2>3
  <2> QED BY <2>1, <2>4 DEF FirstLevel, x
<1>5. ASSUME NEW k \in PageLevel, k # 0
      PROVE  k - 1 \in PageLevel /\ FirstLevel(k) = FirstLevel(k - 1) + n
  <2>1. k \in Nat /\ k - 1 \in PageLevel
    BY <1>1, <1>5 DEF PageLevel
  <2>2. k * n = (k - 1) * n + n
    <3> HIDE DEF n
    <3> QED BY <1>1, <2>1, Z3
  <2> QED BY <2>1, <2>2 DEF FirstLevel
<1>6. FirstLevel(0) = 0
  BY <1>1 DEF FirstLevel
<1>7. n \in 0 .. Levels
  <2> DEFINE y == last * n
  <2>1. y \in Nat /\ n <= y /\ y = Levels - LevelsPerLeafPage
    BY <1>2, <1>3
  <2> HIDE DEF y
  <2> QED BY <1>1, <2>1
<1> QED
  BY <1>1, <1>3, <1>4, <1>5, <1>6, <1>7 DEF FirstLevel

-----------------------------------------------------------------------------
(* The page above a page, and which of its children the page is.           *)
Parent(p) == <<p[1] - 1, p[2] \div TwoToThe[LevelsPerNonLeafPage]>>

Index(p) == p[2] % TwoToThe[LevelsPerNonLeafPage]

LEMMA PageIs ==
  ASSUME NEW p
  PROVE  p \in Page <=> /\ p = <<p[1], p[2]>> /\ p[1] \in PageLevel
                        /\ p[2] \in 0 .. TwoToThe[FirstLevel(p[1])] - 1
<1>1. ASSUME p \in Page
      PROVE  /\ p = <<p[1], p[2]>> /\ p[1] \in PageLevel
             /\ p[2] \in 0 .. TwoToThe[FirstLevel(p[1])] - 1
  <2>1. PICK k \in PageLevel : p \in {k} \X (0 .. TwoToThe[FirstLevel(k)] - 1)
    BY <1>1 DEF Page
  <2> QED BY <2>1
<1>2. ASSUME p = <<p[1], p[2]>>, p[1] \in PageLevel, p[2] \in 0 .. TwoToThe[FirstLevel(p[1])] - 1
      PROVE  p \in Page
  <2>1. <<p[1], p[2]>> \in {p[1]} \X (0 .. TwoToThe[FirstLevel(p[1])] - 1)
    BY <1>2
  <2>2. p \in {p[1]} \X (0 .. TwoToThe[FirstLevel(p[1])] - 1)
    BY <1>2, <2>1
  <2> QED BY <1>2, <2>2 DEF Page
<1> QED
  BY <1>1, <1>2

LEMMA PageOnFacts ==
  ASSUME NEW path \in Path, NEW k \in PageLevel
  PROVE  PageOn(path, k) \in Page /\ PageOn(path, k)[1] = k
<1> DEFINE b == FirstLevel(k)
           a == Levels - 1 - FirstLevel(k)
<1>1. a \in Nat /\ b \in Nat /\ a + b = Levels - 1 /\ a + b <= Levels
  BY PageLevelFacts
<1>2. path \in 0 .. TwoToThe[a + b] - 1
  BY <1>1, PathBound
<1> HIDE DEF a, b
<1>3. path \div TwoToThe[a] \in 0 .. TwoToThe[b] - 1
  BY <1>1, <1>2, ShiftedBound
<1> QED
  BY <1>3, PageIs DEF a, b, PageOn

LEMMA ParentFacts ==
  ASSUME NEW p \in Page, p[1] # 0
  PROVE  /\ p[1] - 1 \in PageLevel /\ Parent(p) \in Page /\ Parent(p)[1] = p[1] - 1
         /\ Index(p) \in Children(p[1] - 1)
         /\ p[2] = TwoToThe[LevelsPerNonLeafPage] * Parent(p)[2] + Index(p)
<1> DEFINE n == LevelsPerNonLeafPage
           b == FirstLevel(p[1] - 1)
           k == p[1]
           i == p[2]
<1>1. /\ k \in PageLevel /\ i \in 0 .. TwoToThe[FirstLevel(k)] - 1 /\ p = <<k, i>>
  BY PageIs
<1>2. /\ k # 0 /\ k \in Nat /\ k - 1 \in PageLevel /\ p[1] = k /\ p[2] = i
      /\ FirstLevel(k) = b + n /\ FirstLevel(k) \in 0 .. Levels - 1
      /\ n \in Nat /\ b \in 0 .. Levels - 1
  BY <1>1, PageLevelFacts
<1>3. n \in 0 .. Levels /\ TwoToThe[n] \in Nat \ {0}
  BY PageLevelFacts, TwoToTheFacts
<1> HIDE DEF b, n, i, k
<1>4. i \in 0 .. TwoToThe[n + b] - 1 /\ n + b <= Levels /\ b \in Nat
  BY <1>1, <1>2, LevelsFacts
<1>5. i \div TwoToThe[n] \in 0 .. TwoToThe[b] - 1
  BY <1>2, <1>4, ShiftedBound
<1>6. i \in Nat /\ i = TwoToThe[n] * (i \div TwoToThe[n]) + (i % TwoToThe[n])
      /\ i % TwoToThe[n] \in 0 .. TwoToThe[n] - 1
  <2>1. i \in Nat
    BY <1>4
  <2> QED BY <1>3, <2>1, QuotientFacts
<1>7. Parent(p) = <<k - 1, i \div TwoToThe[n]>> /\ Index(p) = i % TwoToThe[n]
  BY <1>2 DEF Parent, Index, n
<1>8. Children(k - 1) = 0 .. TwoToThe[n] - 1
  <2>1. k - 1 # PageLevels - 1
    BY <1>1, <1>2, PageLevelFacts DEF PageLevel
  <2> QED BY <2>1 DEF Children, n
<1>9. Parent(p) \in Page
  BY <1>2, <1>5, <1>7, PageIs DEF b
<1>10. Parent(p)[1] = k - 1 /\ Parent(p)[2] = i \div TwoToThe[n]
  BY <1>7
<1>11. Index(p) \in Children(k - 1) /\ i = TwoToThe[n] * Parent(p)[2] + Index(p)
  BY <1>6, <1>7, <1>8, <1>10
<1> QED
  BY <1>2, <1>9, <1>10, <1>11 DEF n

(* The pages of a path are parents of each other, child by ChildIndex.      *)
LEMMA PathParent ==
  ASSUME NEW path \in Path, NEW k \in PageLevel, k # 0
  PROVE  /\ k - 1 \in PageLevel /\ PageOn(path, k - 1) \in Page
         /\ Parent(PageOn(path, k)) = PageOn(path, k - 1)
         /\ Index(PageOn(path, k)) = ChildIndex(path, k)
         /\ ChildIndex(path, k) \in Children(k - 1)
<1> DEFINE n == LevelsPerNonLeafPage
           e == Levels - 1 - FirstLevel(k)
<1>1. /\ k - 1 \in PageLevel /\ PageOn(path, k) \in Page /\ PageOn(path, k)[1] = k
      /\ PageOn(path, k - 1) \in Page /\ PageOn(path, k - 1)[1] = k - 1
  BY PageLevelFacts, PageOnFacts
<1>2. /\ e \in Nat /\ n \in Nat /\ e + n <= Levels
      /\ Levels - 1 - FirstLevel(k - 1) = e + n /\ n \in 0 .. Levels /\ e \in 0 .. Levels
  <2>1. /\ Levels \in Nat /\ n \in Nat /\ n \in 0 .. Levels
        /\ FirstLevel(k) \in 0 .. Levels - 1 /\ FirstLevel(k - 1) \in 0 .. Levels - 1
        /\ FirstLevel(k) = FirstLevel(k - 1) + n
    BY <1>1, PageLevelFacts
  <2> HIDE DEF n
  <2> QED BY <2>1
<1> HIDE DEF e, n
<1>3. TwoToThe[e + n] = TwoToThe[e] * TwoToThe[n] /\ TwoToThe[e] \in Nat \ {0}
      /\ TwoToThe[n] \in Nat \ {0}
  BY <1>2, PowersAdd, TwoToTheFacts
<1>4. path \in Nat
  <2>1. \A m : path \in 0 .. m => path \in Nat
    OBVIOUS
  <2> QED BY <2>1, PathBound
<1>5. path \div TwoToThe[e + n] = (path \div TwoToThe[e]) \div TwoToThe[n]
  BY <1>3, <1>4, NestedDivision
<1>6. PageOn(path, k)[2] = path \div TwoToThe[e]
      /\ PageOn(path, k - 1)[2] = path \div TwoToThe[e + n]
  BY <1>2 DEF PageOn, e
<1>7. Parent(PageOn(path, k)) = PageOn(path, k - 1)
  BY <1>1, <1>5, <1>6 DEF Parent, PageOn, n
<1>8. Index(PageOn(path, k)) = ChildIndex(path, k)
  BY DEF Index, ChildIndex
<1> QED
  BY <1>1, <1>7, <1>8, ParentFacts

(* A page is on a path if its parent is and the path goes on to it.         *)
LEMMA OnPath ==
  ASSUME NEW path \in Path, NEW p \in Page
  PROVE  /\ p[1] \in PageLevel /\ p[1] \in Nat
         /\ p[1] = 0 => p = PageOn(path, 0)
         /\ p[1] # 0 => (p = PageOn(path, p[1])
                           <=> /\ Parent(p) = PageOn(path, p[1] - 1)
                               /\ Index(p) = ChildIndex(path, p[1]))
<1> DEFINE k == p[1]
<1>1. /\ k \in PageLevel /\ p[2] \in 0 .. TwoToThe[FirstLevel(k)] - 1 /\ p = <<k, p[2]>>
  BY PageIs
<1>2. p[1] = k /\ k \in Nat
  BY <1>1, PageLevelFacts
<1> HIDE DEF k
<1>3. CASE k = 0
  <2>1. TwoToThe[FirstLevel(0)] = 1 /\ 0 \in PageLevel
    BY <1>1, <1>3, PageLevelFacts, TwoToTheFacts
  <2>2. p = <<0, 0>>
    BY <1>1, <1>3, <2>1
  <2>3. PageOn(path, 0) \in Page /\ PageOn(path, 0)[1] = 0
    BY <2>1, PageOnFacts
  <2>4. PageOn(path, 0) = <<0, 0>>
    <3> DEFINE q == PageOn(path, 0)
    <3>1. q = <<q[1], q[2]>> /\ q[2] \in 0 .. TwoToThe[FirstLevel(q[1])] - 1 /\ q[1] = 0
      BY <2>3, PageIs
    <3> HIDE DEF q
    <3> QED BY <2>1, <3>1 DEF q
  <2> QED BY <1>1, <1>2, <1>3, <2>2, <2>4
<1>4. CASE k # 0
  <2> DEFINE q == PageOn(path, k)
  <2>1. q \in Page /\ q[1] = k /\ q = <<k, q[2]>> /\ p = <<k, p[2]>>
    BY <1>1, PageOnFacts DEF PageOn
  <2>2. /\ p[2] = TwoToThe[LevelsPerNonLeafPage] * Parent(p)[2] + Index(p)
        /\ q[2] = TwoToThe[LevelsPerNonLeafPage] * Parent(q)[2] + Index(q)
    BY <1>2, <1>4, <2>1, ParentFacts
  <2>3. Parent(q) = PageOn(path, k - 1) /\ Index(q) = ChildIndex(path, k)
    BY <1>1, <1>4, PathParent
  <2> HIDE DEF q
  <2>4. Parent(p) = Parent(q) /\ Index(p) = Index(q) => p = q
    BY <2>1, <2>2
  <2> QED BY <1>1, <1>2, <1>4, <2>3, <2>4 DEF q
<1> QED
  BY <1>2, <1>3, <1>4

-----------------------------------------------------------------------------
(* The types of what is stored and of what is in the buffer: no counter     *)
(* exceeds root_counter, which every write advances.                        *)
StoredPage(k, r) ==
  [under : 0 .. r, bits : [BucketIndex(k) -> Bits], counters : [Children(k) -> 0 .. r]]

BufferPage(k, r) == [bits : [BucketIndex(k) -> Bits], counters : [Children(k) -> 0 .. r]]

MemoryTyped ==
  /\ rootCounter \in 0 .. MaxWrites + 1
  /\ memory = [p \in Page |-> memory[p]]
  /\ \A p \in Page : memory[p] \in StoredPage(p[1], rootCounter)

(* The buffer has the counters of the pages it was read from or written to; *)
(* its bits may have been changed since.                                    *)
BufferTyped ==
  loaded # NoPath =>
    /\ encrypted
    /\ buffer = [k \in PageLevel |-> buffer[k]]
    /\ \A k \in PageLevel :
         /\ buffer[k] \in BufferPage(k, rootCounter)
         /\ buffer[k].counters = memory[PageOn(loaded, k)].counters
    /\ pending \in [Level -> Bits]

Typed ==
  /\ MemoryTyped /\ BufferTyped
  /\ encrypted \in BOOLEAN
  /\ loaded \in Path \cup {NoPath}
  /\ written \in [Bucket -> Bits]

(* The counter the page above a page holds for it.                          *)
CounterOf(p) == IF p[1] = 0 THEN rootCounter ELSE memory[Parent(p)].counters[Index(p)]

Chained ==
  /\ encrypted => \A p \in Page : memory[p].under = CounterOf(p)
  /\ ~encrypted => rootCounter = 0

LEMMA PageLevelOfPage == \A p \in Page : p[1] \in PageLevel /\ p[1] \in Nat
BY PageIs, PageLevelFacts

LEMMA LoadedPages ==
  ASSUME Typed, loaded # NoPath
  PROVE  /\ loaded \in Path /\ encrypted /\ rootCounter \in Nat
         /\ \A k \in PageLevel : /\ PageOn(loaded, k) \in Page /\ PageOn(loaded, k)[1] = k
                                 /\ memory[PageOn(loaded, k)] \in StoredPage(k, rootCounter)
<1>1. loaded \in Path
  BY DEF Typed
<1>2. MaxWrites \in Nat
  BY ValidBitTreeAssumption DEF Parameters
<1>3. rootCounter \in Nat
  BY <1>2 DEF Typed, MemoryTyped
<1> QED
  BY <1>1, <1>3, PageOnFacts DEF Typed, BufferTyped, MemoryTyped

(* The counters of a path after they are advanced.                          *)
LEMMA AdvancedFields ==
  ASSUME Typed, loaded # NoPath, NEW k \in PageLevel
  PROVE  /\ CountersAdvanced[k] \in BufferPage(k, rootCounter + 1)
         /\ CountersAdvanced[k].bits = buffer[k].bits
         /\ \A c \in Children(k) :
              CountersAdvanced[k].counters[c] =
                IF c = ChildIndex(loaded, k + 1)
                THEN memory[PageOn(loaded, k)].counters[c] + 1
                ELSE memory[PageOn(loaded, k)].counters[c]
<1> DEFINE r == rootCounter
           old == buffer[k]
           new == CountersAdvanced[k]
           c0 == ChildIndex(loaded, k + 1)
<1>1. /\ old \in BufferPage(k, r) /\ old.counters = memory[PageOn(loaded, k)].counters
      /\ r \in Nat
  BY LoadedPages DEF Typed, BufferTyped
<1>2. new = IF k = PageLevels - 1 THEN old ELSE [old EXCEPT !.counters[c0] = @ + 1]
  BY DEF CountersAdvanced
<1> HIDE DEF new, old, c0, r
<1>3. /\ old.bits \in [BucketIndex(k) -> Bits] /\ old.counters \in [Children(k) -> 0 .. r]
      /\ old = [bits |-> old.bits, counters |-> old.counters]
  BY <1>1 DEF BufferPage
<1>4. ASSUME NEW c \in Children(k) PROVE old.counters[c] \in 0 .. r
  BY <1>3
<1>5. CASE k = PageLevels - 1
  <2>1. new = old /\ Children(k) = {}
    BY <1>2, <1>5 DEF Children
  <2>2. old.counters \in [Children(k) -> 0 .. r + 1]
    BY <1>3, <2>1
  <2>3. new \in BufferPage(k, r + 1)
    BY <1>3, <2>1, <2>2 DEF BufferPage
  <2> QED BY <2>1, <2>3 DEF new, old, r
<1>6. CASE k # PageLevels - 1
  <2> DEFINE counters == [old.counters EXCEPT ![c0] = @ + 1]
  <2>1. new = [bits |-> old.bits, counters |-> counters]
    BY <1>2, <1>3, <1>6
  <2>2. \A c \in Children(k) :
          counters[c] = IF c = c0 THEN old.counters[c] + 1 ELSE old.counters[c]
    BY <1>3
  <2>3. counters \in [Children(k) -> 0 .. r + 1]
    <3>1. \A c \in Children(k) : old.counters[c] + 1 \in 0 .. r + 1
            /\ old.counters[c] \in 0 .. r + 1
      BY <1>1, <1>4
    <3> QED BY <1>3, <2>2, <3>1
  <2> HIDE DEF counters
  <2>4. new \in BufferPage(k, r + 1) /\ new.bits = old.bits /\ new.counters = counters
    BY <1>3, <2>1, <2>3 DEF BufferPage
  <2> QED BY <1>1, <2>2, <2>4 DEF new, old, c0, r
<1> QED
  BY <1>5, <1>6

(* What write_path stores: a page of the path under the counter after the   *)
(* one it was encrypted under, any other page as it was.                    *)
LEMMA WrittenPages ==
  ASSUME Typed, WritePath, NEW p \in Page
  PROVE  /\ memory'[p] \in StoredPage(p[1], rootCounter + 1)
         /\ p = PageOn(loaded, p[1]) =>
              /\ memory'[p].under = CounterOf(p) + 1
              /\ memory'[p].bits = buffer[p[1]].bits
              /\ \A c \in Children(p[1]) :
                   memory'[p].counters[c] = IF c = ChildIndex(loaded, p[1] + 1)
                                            THEN memory[p].counters[c] + 1
                                            ELSE memory[p].counters[c]
         /\ p # PageOn(loaded, p[1]) => memory'[p] = memory[p]
<1> DEFINE k == p[1]
           r == rootCounter
<1>1. loaded # NoPath /\ loaded \in Path /\ encrypted /\ r \in Nat /\ k \in PageLevel /\ k \in Nat
  BY LoadedPages, PageLevelOfPage DEF WritePath
<1>2. memory'[p] = IF p = PageOn(loaded, k) THEN Encrypted(k) ELSE memory[p]
  BY DEF WritePath
<1>3. memory[p] \in StoredPage(k, r)
  BY DEF Typed, MemoryTyped
<1>4. CASE p # PageOn(loaded, k)
  <2>1. 0 .. r \subseteq 0 .. r + 1
    BY <1>1
  <2>2. memory[p] \in StoredPage(k, r + 1)
    BY <1>3, <2>1 DEF StoredPage
  <2> QED BY <1>2, <1>4, <2>2
<1>5. CASE p = PageOn(loaded, k)
  <2>1. /\ CountersAdvanced[k] \in BufferPage(k, r + 1)
        /\ CountersAdvanced[k].bits = buffer[k].bits
        /\ \A c \in Children(k) :
             CountersAdvanced[k].counters[c] =
               IF c = ChildIndex(loaded, k + 1) THEN memory[p].counters[c] + 1
               ELSE memory[p].counters[c]
    BY <1>1, <1>5, AdvancedFields
  <2>2. CounterAbove(CountersAdvanced, r + 1, loaded, k) = CounterOf(p) + 1
        /\ CounterOf(p) \in 0 .. r
    <3>1. CASE k = 0
      BY <1>1, <3>1 DEF CounterAbove, CounterOf
    <3>2. CASE k # 0
      <4>1. /\ k - 1 \in PageLevel /\ Parent(p) = PageOn(loaded, k - 1)
            /\ Index(p) = ChildIndex(loaded, k) /\ Index(p) \in Children(k - 1)
            /\ (k - 1) + 1 = k
        BY <1>1, <1>5, <3>2, PathParent
      <4>2. CountersAdvanced[k - 1].counters[Index(p)] = memory[Parent(p)].counters[Index(p)] + 1
        BY <1>1, <4>1, AdvancedFields
      <4>3. memory[Parent(p)].counters \in [Children(k - 1) -> 0 .. r]
        BY <1>1, <4>1, LoadedPages DEF StoredPage
      <4>4. CounterOf(p) = memory[Parent(p)].counters[Index(p)]
        BY <3>2 DEF CounterOf
      <4>5. CounterAbove(CountersAdvanced, r + 1, loaded, k)
              = CountersAdvanced[k - 1].counters[Index(p)]
        BY <3>2, <4>1 DEF CounterAbove
      <4> QED BY <4>1, <4>2, <4>3, <4>4, <4>5
    <3> QED BY <3>1, <3>2
  <2>3. memory'[p] = [under |-> CounterOf(p) + 1, bits |-> CountersAdvanced[k].bits,
                      counters |-> CountersAdvanced[k].counters]
    BY <1>2, <1>5, <2>2 DEF Encrypted
  <2> DEFINE new == CountersAdvanced[k]
             u == CounterOf(p)
  <2>4. new \in BufferPage(k, r + 1) /\ u + 1 \in 0 .. r + 1
    BY <1>1, <2>1, <2>2
  <2> HIDE DEF new, u
  <2>5. memory'[p] = [under |-> u + 1, bits |-> new.bits, counters |-> new.counters]
    BY <2>3 DEF new, u
  <2>6. memory'[p] \in StoredPage(k, r + 1) /\ memory'[p].under = u + 1
        /\ memory'[p].bits = new.bits /\ memory'[p].counters = new.counters
    BY <2>4, <2>5 DEF StoredPage, BufferPage
  <2> QED BY <1>5, <2>1, <2>6 DEF new, u
<1> QED
  BY <1>4, <1>5

IInv == Typed /\ Chained

LEMMA EncryptPreserves ==
  ASSUME IInv, EncryptContents
  PROVE  IInv' /\ NewNonces
<1>1. /\ rootCounter = 0 /\ rootCounter' = 1 /\ encrypted' = TRUE /\ loaded = NoPath
      /\ loaded' = loaded /\ written' = written /\ ~encrypted
  BY DEF IInv, Typed, BufferTyped, Chained, EncryptContents
<1>2. ASSUME NEW p \in Page
      PROVE  /\ memory[p].bits \in [BucketIndex(p[1]) -> Bits] /\ memory[p].under = 0
             /\ \A c \in Children(p[1]) : memory[p].counters[c] = 0
  <2>1. memory[p] \in StoredPage(p[1], 0)
    BY <1>1 DEF IInv, Typed, MemoryTyped
  <2>2. /\ memory[p].bits \in [BucketIndex(p[1]) -> Bits] /\ memory[p].under \in 0 .. 0
        /\ memory[p].counters \in [Children(p[1]) -> 0 .. 0]
    BY <2>1 DEF StoredPage
  <2>3. \A c \in Children(p[1]) : memory[p].counters[c] \in 0 .. 0
    BY <2>2
  <2> QED BY <2>2, <2>3
<1>3. ASSUME NEW p \in Page
      PROVE  memory'[p] = [under |-> 1, bits |-> memory[p].bits,
                           counters |-> [c \in Children(p[1]) |-> 1]]
  <2>1. memory'[p] =
          [under |-> IF p[1] = 0 THEN rootCounter + 1
                     ELSE memory[Parent(p)].counters[Index(p)] + 1,
           bits |-> memory[p].bits,
           counters |-> [c \in Children(p[1]) |-> memory[p].counters[c] + 1]]
    BY DEF EncryptContents, Parent, Index
  <2>2. [c \in Children(p[1]) |-> memory[p].counters[c] + 1] = [c \in Children(p[1]) |-> 1]
    BY <1>2
  <2>3. p[1] # 0 => memory[Parent(p)].counters[Index(p)] = 0
    BY <1>2, ParentFacts
  <2> QED BY <1>1, <2>1, <2>2, <2>3
<1>4. memory' = [p \in Page |-> memory'[p]]
  BY DEF EncryptContents
<1>5. ASSUME NEW p \in Page
      PROVE  memory'[p] \in StoredPage(p[1], 1) /\ memory'[p].under = 1 /\ CounterOf(p)' = 1
  <2>1. memory'[p] \in StoredPage(p[1], 1) /\ memory'[p].under = 1
    <3> DEFINE bits == memory[p].bits
               C == Children(p[1])
               B == BucketIndex(p[1])
    <3>1. bits \in [B -> Bits] /\ [c \in C |-> 1] \in [C -> 0 .. 1] /\ 1 \in 0 .. 1
      BY <1>2
    <3>2. memory'[p] = [under |-> 1, bits |-> bits, counters |-> [c \in C |-> 1]]
      BY <1>3
    <3> HIDE DEF bits, C, B
    <3>3. memory'[p] \in [under : 0 .. 1, bits : [B -> Bits], counters : [C -> 0 .. 1]]
          /\ memory'[p].under = 1
      BY <3>1, <3>2
    <3> QED BY <3>3 DEF StoredPage, C, B
  <2>2. p[1] # 0 => memory'[Parent(p)].counters[Index(p)] = 1
    <3>1. SUFFICES ASSUME p[1] # 0 PROVE memory'[Parent(p)].counters[Index(p)] = 1
      OBVIOUS
    <3>2. Parent(p) \in Page /\ Index(p) \in Children(Parent(p)[1])
      BY <3>1, ParentFacts
    <3> DEFINE q == Parent(p)
               C == Children(q[1])
    <3>3. memory'[q] = [under |-> 1, bits |-> memory[q].bits, counters |-> [c \in C |-> 1]]
      BY <1>3, <3>2
    <3>4. Index(p) \in C
      BY <3>2
    <3> HIDE DEF q, C
    <3>5. memory'[q].counters[Index(p)] = 1
      BY <3>3, <3>4
    <3> QED BY <3>5 DEF q
  <2>3. CounterOf(p)' = IF p[1] = 0 THEN rootCounter'
                        ELSE memory'[Parent(p)].counters[Index(p)]
    BY DEF CounterOf
  <2> QED BY <1>1, <2>1, <2>2, <2>3
<1>6. MemoryTyped'
  <2>1. MaxWrites \in Nat
    BY ValidBitTreeAssumption DEF Parameters
  <2>2. rootCounter' \in 0 .. MaxWrites + 1
    BY <1>1, <2>1
  <2> QED BY <1>1, <1>4, <1>5, <2>2 DEF MemoryTyped
<1>7. Typed'
  BY <1>1, <1>6 DEF IInv, Typed, BufferTyped
<1>8. Chained'
  BY <1>1, <1>5 DEF Chained
<1>9. NewNonces
  BY <1>2, <1>5 DEF NewNonces
<1> QED
  BY <1>7, <1>8, <1>9 DEF IInv

(* The counters of a path go up together, so that the chain holds both on  *)
(* the path and at the pages that hang from it.                             *)
LEMMA WritePreserves ==
  ASSUME IInv, WritePath
  PROVE  IInv' /\ NewNonces
<1>1. /\ loaded # NoPath /\ encrypted /\ rootCounter <= MaxWrites
      /\ rootCounter' = rootCounter + 1 /\ encrypted' = encrypted /\ loaded' = loaded
      /\ pending' = pending /\ buffer' = CountersAdvanced
  BY DEF WritePath
<1>2. /\ Typed /\ loaded \in Path /\ rootCounter \in Nat /\ MaxWrites \in Nat
  BY <1>1, LoadedPages, ValidBitTreeAssumption DEF IInv, Parameters
<1>3. rootCounter' \in 0 .. MaxWrites + 1
  BY <1>1, <1>2
<1>4. memory' = [p \in Page |-> memory'[p]]
  BY DEF WritePath
<1>5. ASSUME NEW p \in Page
      PROVE  /\ p[1] \in PageLevel /\ memory'[p] \in StoredPage(p[1], rootCounter')
             /\ memory[p].under \in Nat
  BY <1>1, <1>2, WrittenPages, PageLevelOfPage DEF MemoryTyped, Typed, StoredPage
<1>6. ASSUME NEW p \in Page PROVE memory[p].under = CounterOf(p)
  BY <1>1 DEF IInv, Chained
<1>7. ASSUME NEW p \in Page PROVE memory'[p].under = CounterOf(p)'
  <2> DEFINE k == p[1]
  <2>1. CounterOf(p)' = IF k = 0 THEN rootCounter'
                        ELSE memory'[Parent(p)].counters[Index(p)]
    BY DEF CounterOf
  <2>2. CounterOf(p) = IF k = 0 THEN rootCounter ELSE memory[Parent(p)].counters[Index(p)]
    BY DEF CounterOf
  <2>3. CASE p = PageOn(loaded, k)
    <3>1. memory'[p].under = CounterOf(p) + 1
      BY <1>2, <2>3, WrittenPages
    <3>2. CASE k = 0
      BY <1>1, <2>1, <2>2, <3>1, <3>2
    <3>3. CASE k # 0
      <4>1. /\ Parent(p) \in Page /\ Parent(p)[1] = k - 1 /\ Parent(p) = PageOn(loaded, k - 1)
            /\ Index(p) = ChildIndex(loaded, k) /\ Index(p) \in Children(k - 1)
            /\ (k - 1) + 1 = k
        BY <1>2, <1>5, <2>3, <3>3, OnPath, ParentFacts
      <4>2. memory'[Parent(p)].counters[Index(p)] = memory[Parent(p)].counters[Index(p)] + 1
        BY <1>2, <4>1, WrittenPages
      <4> QED BY <2>1, <2>2, <3>1, <3>3, <4>2
    <3> QED BY <3>2, <3>3
  <2>4. CASE p # PageOn(loaded, k)
    <3>1. memory'[p] = memory[p]
      BY <1>2, <2>4, WrittenPages
    <3>2. k # 0
      BY <1>2, <2>4, OnPath
    <3>3. /\ Parent(p) \in Page /\ Parent(p)[1] = k - 1
          /\ Index(p) \in Children(k - 1) /\ (k - 1) + 1 = k
          /\ Parent(p) # PageOn(loaded, k - 1) \/ Index(p) # ChildIndex(loaded, k)
      BY <1>2, <1>5, <2>4, <3>2, OnPath, ParentFacts
    <3>4. memory'[Parent(p)].counters[Index(p)] = memory[Parent(p)].counters[Index(p)]
      <4>1. CASE Parent(p) = PageOn(loaded, k - 1)
        BY <1>2, <3>3, <4>1, WrittenPages
      <4>2. CASE Parent(p) # PageOn(loaded, k - 1)
        BY <1>2, <3>3, <4>2, WrittenPages
      <4> QED BY <4>1, <4>2
    <3> QED BY <1>6, <2>1, <2>2, <3>1, <3>2, <3>4
  <2> QED BY <2>3, <2>4
<1>8. NewNonces
  <2> SUFFICES ASSUME NEW p \in Page, memory'[p] # memory[p]
               PROVE  memory'[p].under > memory[p].under
    BY DEF NewNonces
  <2>1. memory'[p].under = memory[p].under + 1
    BY <1>2, <1>6, WrittenPages
  <2> QED BY <1>5, <2>1
<1>9. BufferTyped'
  <2>1. buffer' = [k \in PageLevel |-> buffer'[k]]
    BY <1>1 DEF CountersAdvanced
  <2>2. ASSUME NEW k \in PageLevel
        PROVE  /\ buffer'[k] \in BufferPage(k, rootCounter')
               /\ buffer'[k].counters = memory'[PageOn(loaded, k)].counters
    <3>1. CountersAdvanced[k] \in BufferPage(k, rootCounter + 1)
      BY <1>1, <1>2, AdvancedFields
    <3>2. memory'[PageOn(loaded, k)] = Encrypted(k)
      BY <1>1, <1>2, LoadedPages DEF WritePath
    <3>3. memory'[PageOn(loaded, k)].counters = CountersAdvanced[k].counters
      BY <3>2 DEF Encrypted
    <3> QED BY <1>1, <3>1, <3>3
  <2>3. pending' \in [Level -> Bits]
    BY <1>1 DEF IInv, Typed, BufferTyped
  <2> QED BY <1>1, <2>1, <2>2, <2>3 DEF BufferTyped
<1>10. written' \in [Bucket -> Bits]
  <2>1. \A n \in Bucket : n[1] \in Level
    BY BucketLevel
  <2>2. pending \in [Level -> Bits] /\ written \in [Bucket -> Bits]
    BY <1>1 DEF IInv, Typed, BufferTyped
  <2> QED BY <2>1, <2>2 DEF WritePath
<1>11. Typed'
  BY <1>1, <1>2, <1>3, <1>4, <1>5, <1>9, <1>10 DEF Typed, MemoryTyped
<1>12. Chained'
  BY <1>1, <1>7 DEF Chained
<1> QED
  BY <1>8, <1>11, <1>12 DEF IInv

LEMMA ReadPreserves ==
  ASSUME IInv, NEW path \in Path, ReadPath(path)
  PROVE  IInv'
<1>1. /\ encrypted /\ encrypted' = encrypted /\ rootCounter' = rootCounter /\ memory' = memory
      /\ written' = written /\ loaded' = path /\ buffer' = PagesOn(path)
      /\ pending' = [l \in Level |-> written[BucketOn(path, l)]]
  BY DEF ReadPath
<1>2. MemoryTyped' /\ Chained'
  BY <1>1 DEF IInv, Typed, MemoryTyped, Chained, CounterOf
<1>3. buffer' = [k \in PageLevel |-> buffer'[k]]
  BY <1>1 DEF PagesOn
<1>4. ASSUME NEW k \in PageLevel
      PROVE  /\ buffer'[k] \in BufferPage(k, rootCounter)
             /\ buffer'[k].counters = memory[PageOn(path, k)].counters
  <2>1. memory[PageOn(path, k)] \in StoredPage(k, rootCounter)
    BY PageOnFacts DEF IInv, Typed, MemoryTyped
  <2>2. buffer'[k] = [bits |-> memory[PageOn(path, k)].bits,
                      counters |-> memory[PageOn(path, k)].counters]
    BY <1>1 DEF PagesOn
  <2> DEFINE m == memory[PageOn(path, k)]
  <2> HIDE DEF m
  <2>3. m \in StoredPage(k, rootCounter) /\ buffer'[k] = [bits |-> m.bits, counters |-> m.counters]
    BY <2>1, <2>2 DEF m
  <2>4. buffer'[k] \in BufferPage(k, rootCounter) /\ buffer'[k].counters = m.counters
    BY <2>3 DEF StoredPage, BufferPage
  <2> QED BY <2>4 DEF m
<1>5. pending' \in [Level -> Bits]
  <2>1. \A l \in Level : written[BucketOn(path, l)] \in Bits
    BY BucketOnIsBucket DEF IInv, Typed
  <2> QED BY <1>1, <2>1
<1>6. BufferTyped'
  BY <1>1, <1>3, <1>4, <1>5 DEF BufferTyped
<1> QED
  BY <1>1, <1>2, <1>6 DEF IInv, Typed

LEMMA SetPreserves ==
  ASSUME IInv, NEW l \in Level, NEW b \in Bits, SetValid(l, b)
  PROVE  IInv'
<1> DEFINE K == PageLevelOf(l)
           i == IndexInPage(l, BucketOn(loaded, l)[2])
<1>1. /\ loaded # NoPath /\ loaded' = loaded /\ encrypted' = encrypted
      /\ rootCounter' = rootCounter /\ memory' = memory /\ written' = written
      /\ buffer' = [buffer EXCEPT ![K].bits[i] = b]
      /\ pending' = [pending EXCEPT ![l] = b]
  BY DEF SetValid
<1>2. /\ encrypted /\ buffer = [k \in PageLevel |-> buffer[k]] /\ pending \in [Level -> Bits]
  BY <1>1 DEF IInv, Typed, BufferTyped
<1>3. MemoryTyped' /\ Chained'
  BY <1>1 DEF IInv, Typed, MemoryTyped, Chained, CounterOf
<1> HIDE DEF K, i
<1>4. buffer' = [k \in PageLevel |-> buffer'[k]]
      /\ \A k \in PageLevel :
           buffer'[k] = IF k = K THEN [buffer[k] EXCEPT !.bits[i] = b] ELSE buffer[k]
  BY <1>1, <1>2
<1>5. ASSUME NEW k \in PageLevel
      PROVE  /\ buffer'[k] \in BufferPage(k, rootCounter)
             /\ buffer'[k].counters = memory[PageOn(loaded, k)].counters
  <2>1. /\ buffer[k] \in BufferPage(k, rootCounter)
        /\ buffer[k].counters = memory[PageOn(loaded, k)].counters
    BY <1>1 DEF IInv, Typed, BufferTyped
  <2> DEFINE old == buffer[k]
  <2>2. buffer'[k] = [old EXCEPT !.bits[i] = b] \/ buffer'[k] = old
    BY <1>4
  <2> HIDE DEF old
  <2>3. PICK bits \in [BucketIndex(k) -> Bits], c \in [Children(k) -> 0 .. rootCounter] :
          old = [bits |-> bits, counters |-> c]
    <3> DEFINE B == [BucketIndex(k) -> Bits]
               C == [Children(k) -> 0 .. rootCounter]
    <3>1. old \in [bits : B, counters : C]
      BY <2>1 DEF BufferPage, old
    <3> HIDE DEF B, C
    <3>2. old.bits \in B /\ old.counters \in C
            /\ old = [bits |-> old.bits, counters |-> old.counters]
      BY <3>1
    <3>3. \E x \in B, c \in C : old = [bits |-> x, counters |-> c]
      BY <3>2, Zenon
    <3> QED BY <3>3 DEF B, C
  <2>4. /\ [old EXCEPT !.bits[i] = b] = [bits |-> [bits EXCEPT ![i] = b], counters |-> c]
        /\ [bits EXCEPT ![i] = b] \in [BucketIndex(k) -> Bits]
    <3>1. [old EXCEPT !.bits[i] = b] = [bits |-> [bits EXCEPT ![i] = b], counters |-> c]
      BY <2>3
    <3>2. [bits EXCEPT ![i] = b] \in [BucketIndex(k) -> Bits]
      OBVIOUS
    <3> QED BY <3>1, <3>2
  <2>5. buffer'[k] \in BufferPage(k, rootCounter) /\ buffer'[k].counters = old.counters
    BY <2>2, <2>3, <2>4 DEF BufferPage
  <2> QED BY <2>1, <2>5 DEF old
<1>6. pending' \in [Level -> Bits]
  BY <1>1, <1>2
<1>7. BufferTyped'
  BY <1>1, <1>2, <1>4, <1>5, <1>6 DEF BufferTyped
<1> QED
  BY <1>1, <1>3, <1>7 DEF IInv, Typed

LEMMA InitTyped == Init => IInv
<1> SUFFICES ASSUME Init PROVE IInv
  OBVIOUS
<1>1. /\ rootCounter = 0 /\ encrypted = FALSE /\ loaded = NoPath
      /\ memory = [p \in Page |-> [under |-> 0, bits |-> PlainPage(p).bits,
                                   counters |-> PlainPage(p).counters]]
  BY DEF Init
<1>2. NoBits \in Bits /\ MaxWrites \in Nat
  BY ValidBitTreeAssumption DEF Parameters
<1>3. written \in [Bucket -> Bits]
  BY <1>2 DEF Init
<1>4. ASSUME NEW p \in Page PROVE memory[p] \in StoredPage(p[1], 0)
  <2> DEFINE Here(i) == { n \in Bucket : GetAddressOf(n[1], n[2])
                                           = PageAddress(p) + i * BytesPerBucket }
             bit(i) == IF Here(i) = {} THEN NoBits ELSE written[CHOOSE n \in Here(i) : TRUE]
             bits == [i \in BucketIndex(p[1]) |-> bit(i)]
             counters == [c \in Children(p[1]) |-> 0]
  <2>1. PlainPage(p).bits = bits /\ PlainPage(p).counters = counters
    BY DEF PlainPage
  <2>2. ASSUME NEW i PROVE bit(i) \in Bits
    <3>1. Here(i) \subseteq Bucket
      OBVIOUS
    <3> HIDE DEF Here
    <3>2. Here(i) # {} => (CHOOSE n \in Here(i) : TRUE) \in Here(i)
      OBVIOUS
    <3> QED BY <1>2, <1>3, <3>1, <3>2
  <2> HIDE DEF bit
  <2>3. bits \in [BucketIndex(p[1]) -> Bits] /\ counters \in [Children(p[1]) -> 0 .. 0]
    BY <2>2
  <2>4. memory[p] = [under |-> 0, bits |-> bits, counters |-> counters]
    BY <1>1, <2>1
  <2> HIDE DEF bits, counters
  <2> QED BY <2>3, <2>4 DEF StoredPage
<1>5. MemoryTyped
  <2>1. memory = [p \in Page |-> memory[p]]
    <3> DEFINE f(p) == [under |-> 0, bits |-> PlainPage(p).bits, counters |-> PlainPage(p).counters]
    <3>1. memory = [p \in Page |-> f(p)]
      BY <1>1
    <3> HIDE DEF f
    <3> QED BY <3>1
  <2> QED BY <1>1, <1>2, <1>4, <2>1 DEF MemoryTyped
<1> QED
  BY <1>1, <1>3, <1>5 DEF IInv, Typed, BufferTyped, Chained

LEMMA SavePreserves == IInv /\ SaveAndLoad => IInv'
BY DEF IInv, Typed, MemoryTyped, BufferTyped, Chained, CounterOf, SaveAndLoad

LEMMA StepPreserves == IInv /\ [Next]_vars => IInv' /\ (NewNonces \/ UNCHANGED vars)
<1> SUFFICES ASSUME IInv, [Next]_vars PROVE IInv' /\ (NewNonces \/ UNCHANGED vars)
  OBVIOUS
<1>1. memory' = memory => NewNonces
  BY DEF NewNonces
<1>2. CASE EncryptContents
  BY <1>2, EncryptPreserves
<1>3. CASE WritePath
  BY <1>3, WritePreserves
<1>4. CASE SaveAndLoad
  BY <1>1, <1>4, SavePreserves DEF SaveAndLoad
<1>5. ASSUME NEW path \in Path, ReadPath(path) PROVE IInv' /\ NewNonces
  BY <1>1, <1>5, ReadPreserves DEF ReadPath
<1>6. ASSUME NEW l \in Level, NEW b \in Bits, SetValid(l, b) PROVE IInv' /\ NewNonces
  BY <1>1, <1>6, SetPreserves DEF SetValid
<1>7. CASE UNCHANGED vars
  BY <1>7 DEF vars, IInv, Typed, MemoryTyped, BufferTyped, Chained, CounterOf
<1> QED
  BY <1>2, <1>3, <1>4, <1>5, <1>6, <1>7 DEF Next

-----------------------------------------------------------------------------
(* The tree only ever holds pages, counters and bits of their kinds, no     *)
(* counter beyond the number of writes.                                     *)
THEOREM TypeCorrect == Spec => []TypeOK
<1>1. IInv => TypeOK
  <2> SUFFICES ASSUME IInv PROVE TypeOK
    OBVIOUS
  <2>1. rootCounter \in 0 .. MaxWrites + 1 /\ MaxWrites \in Nat
    BY ValidBitTreeAssumption DEF Parameters, IInv, Typed, MemoryTyped
  <2>2. 0 .. rootCounter \subseteq 0 .. MaxWrites + 1
    BY <2>1
  <2>3. ASSUME NEW p \in Page
        PROVE  /\ memory[p].under \in 0 .. MaxWrites + 1
               /\ memory[p].bits \in [BucketIndex(p[1]) -> Bits]
               /\ memory[p].counters \in [Children(p[1]) -> 0 .. MaxWrites + 1]
    <3>1. memory[p] \in StoredPage(p[1], rootCounter)
      BY DEF IInv, Typed, MemoryTyped
    <3>2. /\ memory[p].under \in 0 .. rootCounter
          /\ memory[p].bits \in [BucketIndex(p[1]) -> Bits]
          /\ memory[p].counters \in [Children(p[1]) -> 0 .. rootCounter]
      BY <3>1 DEF StoredPage
    <3> QED BY <2>2, <3>2
  <2> QED BY <2>1, <2>3 DEF TypeOK, IInv, Typed
<1> QED
  BY InitTyped, StepPreserves, <1>1, PTL DEF Spec

(* Once encrypted, every path can be read at any time, whichever paths have *)
(* been written since: read_path never finds a tag that does not match.     *)
THEOREM PathsReadable == Spec => []EveryPathReadable
<1>1. IInv => EveryPathReadable
  <2> SUFFICES ASSUME IInv, encrypted, NEW path \in Path, NEW k \in PageLevel
               PROVE  memory[PageOn(path, k)].under
                        = CounterAbove(PagesOn(path), rootCounter, path, k)
    BY DEF EveryPathReadable, Readable
  <2>1. PageOn(path, k) \in Page /\ PageOn(path, k)[1] = k
    BY PageOnFacts
  <2>2. memory[PageOn(path, k)].under = CounterOf(PageOn(path, k))
    BY <2>1 DEF IInv, Chained
  <2>3. CASE k = 0
    BY <2>1, <2>2, <2>3 DEF CounterOf, CounterAbove
  <2>4. CASE k # 0
    <3>1. /\ k - 1 \in PageLevel /\ Parent(PageOn(path, k)) = PageOn(path, k - 1)
          /\ Index(PageOn(path, k)) = ChildIndex(path, k)
      BY <2>4, PathParent
    <3>2. PagesOn(path)[k - 1].counters = memory[PageOn(path, k - 1)].counters
      BY <3>1 DEF PagesOn
    <3> QED BY <2>1, <2>2, <2>4, <3>1, <3>2 DEF CounterOf, CounterAbove
  <2> QED BY <2>3, <2>4
<1> QED
  BY InitTyped, StepPreserves, <1>1, PTL DEF Spec

(* Whenever the stored form of a page changes, its counter is higher than   *)
(* any it was encrypted under before.                                       *)
THEOREM NoncesAreNew == Spec => NoncesNeverRepeat
<1>1. IInv /\ [Next]_vars => [NewNonces]_vars
  BY StepPreserves
<1>2. IInv /\ [Next]_vars => IInv'
  BY StepPreserves
<1> QED
  BY InitTyped, <1>1, <1>2, PTL DEF Spec, NoncesNeverRepeat

-----------------------------------------------------------------------------
(* Where the bits of a bucket are: the page, and the place in the page.     *)
Home(n) == <<PageLevelOf(n[1]), n[2] \div TwoToThe[n[1] - FirstLevel(PageLevelOf(n[1]))]>>

Place(n) == IndexInPage(n[1], n[2])

LEMMA PowersGrow ==
  ASSUME NEW a \in Nat, NEW b \in Nat, a <= b, b <= Levels
  PROVE  TwoToThe[a] \in Nat \ {0} /\ TwoToThe[b] \in Nat \ {0} /\ TwoToThe[a] <= TwoToThe[b]
<1>1. /\ a \in 0 .. Levels /\ b \in 0 .. Levels /\ b - a \in 0 .. Levels /\ b - a \in Nat
      /\ a + (b - a) = b
  BY LevelsFacts
<1> DEFINE u == TwoToThe[a]
           v == TwoToThe[b - a]
<1>2. u \in Nat \ {0} /\ v \in Nat \ {0} /\ TwoToThe[b] \in Nat \ {0}
  BY <1>1, TwoToTheFacts
<1>3. TwoToThe[b] = u * v
  BY <1>1, PowersAdd
<1> HIDE DEF u, v
<1>4. u * v >= u
  BY <1>2, Z3
<1> QED
  BY <1>2, <1>3, <1>4 DEF u

(* The page level of a level of buckets, and how deep in the page it is.    *)
LEMMA LevelInPage ==
  ASSUME NEW l \in Level
  PROVE  /\ PageLevelOf(l) \in PageLevel
         /\ l - FirstLevel(PageLevelOf(l)) \in 0 .. LevelsIn(PageLevelOf(l)) - 1
         /\ LevelsIn(PageLevelOf(l)) \in 1 .. Levels
<1> DEFINE n == LevelsPerNonLeafPage
           last == PageLevels - 1
           q == l \div n
           k == PageLevelOf(l)
<1>1. /\ Levels \in Nat /\ l \in Nat /\ l <= Levels - 1
      /\ n \in Nat \ {0} /\ LevelsPerLeafPage \in Nat \ {0} /\ last \in Nat /\ n <= Levels
      /\ FirstLevel(last) = Levels - LevelsPerLeafPage /\ FirstLevel(last) \in 0 .. Levels - 1
      /\ last \in PageLevel /\ PageLevels = last + 1
  <2>1. last \in PageLevel /\ last \in Nat /\ PageLevels = last + 1
    BY PageLevelFacts DEF PageLevel
  <2> QED BY <2>1, PageLevelFacts DEF Level
<1>2. l = n * q + (l % n) /\ l % n \in 0 .. n - 1 /\ q \in Nat
  BY <1>1, QuotientFacts
<1>3. k = IF q >= PageLevels THEN last ELSE q
  BY DEF PageLevelOf
<1>4. FirstLevel(last) = last * n /\ \A j : FirstLevel(j) = j * n
  BY DEF FirstLevel
<1> HIDE DEF n, last, q, k
<1>5. CASE q >= last
  <2>1. k = last
    BY <1>1, <1>2, <1>3, <1>5
  <2>2. n * q >= last * n
    BY <1>1, <1>2, <1>5, Z3
  <2>3. FirstLevel(last) <= l
    <3> DEFINE x == n * q
               y == last * n
    <3>1. x \in Nat
      BY <1>1, <1>2, Z3
    <3>2. x >= y /\ l = x + (l % n) /\ FirstLevel(last) = y /\ y \in Nat
      BY <1>1, <1>2, <1>4, <2>2
    <3> HIDE DEF x, y
    <3> QED BY <1>2, <3>1, <3>2
  <2>4. LevelsIn(k) = LevelsPerLeafPage
    BY <2>1 DEF LevelsIn, last
  <2>5. k \in PageLevel /\ l - FirstLevel(k) \in 0 .. LevelsPerLeafPage - 1
        /\ LevelsPerLeafPage \in 1 .. Levels
    BY <1>1, <2>1, <2>3
  <2> QED BY <2>4, <2>5 DEF k
<1>6. CASE q < last
  <2>1. k = q /\ q # last /\ k \in PageLevel
    BY <1>1, <1>2, <1>3, <1>6, PageLevelFacts DEF PageLevel, last
  <2>2. LevelsIn(k) = n
    BY <2>1 DEF LevelsIn, last, n
  <2>3. FirstLevel(k) = n * q
    <3>1. n * q = q * n
      BY <1>1, <1>2, Z3
    <3> QED BY <1>4, <2>1, <3>1
  <2>4. l - FirstLevel(k) = l % n
    <3> DEFINE x == n * q
    <3>1. x \in Nat
      BY <1>1, <1>2, Z3
    <3>2. l = x + (l % n) /\ FirstLevel(k) = x
      BY <1>2, <2>3
    <3> HIDE DEF x
    <3> QED BY <1>2, <3>1, <3>2
  <2>5. l - FirstLevel(k) \in 0 .. n - 1 /\ n \in 1 .. Levels
    BY <1>1, <1>2, <2>4
  <2> QED BY <2>1, <2>2, <2>5 DEF k
<1> QED
  BY <1>1, <1>2, <1>5, <1>6

LEMMA HomeFacts ==
  ASSUME NEW n \in Bucket
  PROVE  /\ Home(n) \in Page /\ Home(n)[1] = PageLevelOf(n[1])
         /\ Place(n) \in BucketIndex(PageLevelOf(n[1]))
<1> DEFINE l == n[1]
           k == PageLevelOf(l)
           d == l - FirstLevel(k)
           u == TwoToThe[d]
           x == n[2]
           e == LevelsIn(k)
<1>1. /\ l \in Level /\ x \in 0 .. TwoToThe[l] - 1
  BY BucketIs
<1>2. /\ k \in PageLevel /\ d \in 0 .. e - 1 /\ e \in 1 .. Levels
      /\ FirstLevel(k) \in 0 .. Levels - 1 /\ l \in Nat /\ l <= Levels
  BY <1>1, LevelInPage, PageLevelFacts DEF Level
<1>3. d \in Nat /\ FirstLevel(k) \in Nat /\ d + FirstLevel(k) = l /\ d + 1 \in Nat /\ d + 1 <= e
      /\ e \in Nat /\ e <= Levels /\ d + 1 \in 1 .. Levels /\ (d + 1) - 1 = d /\ Levels \in Nat
  BY <1>2, LevelsFacts
<1>4. Home(n) = <<k, x \div u>>
  BY DEF Home
<1>5. x \div u \in 0 .. TwoToThe[FirstLevel(k)] - 1
  <2> HIDE DEF d, l, x
  <2> QED BY <1>1, <1>2, <1>3, ShiftedBound
<1>6. Home(n) \in Page /\ Home(n)[1] = k
  BY <1>2, <1>4, <1>5, PageIs
<1>7. u \in Nat \ {0} /\ TwoToThe[d + 1] = 2 * u /\ TwoToThe[d + 1] <= TwoToThe[e]
      /\ TwoToThe[e] \in Nat
  <2> HIDE DEF d, e
  <2>1. d \in 0 .. Levels
    BY <1>3
  <2> QED BY <1>3, <2>1, TwoToTheFacts, PowersGrow
<1>8. Place(n) = u - 1 + (x % u)
  BY DEF Place, IndexInPage
<1>9. x % u \in 0 .. u - 1
  <2>1. x \in Nat
    BY <1>1
  <2> HIDE DEF u, x
  <2> QED BY <1>7, <2>1, QuotientFacts
<1> HIDE DEF u, x
<1>10. Place(n) \in 0 .. TwoToThe[e] - 2
  <2> HIDE DEF d, e
  <2> QED BY <1>7, <1>8, <1>9
<1> QED
  BY <1>6, <1>10 DEF BucketIndex

(* No two buckets share a place.                                            *)
LEMMA PlacesDiffer ==
  ASSUME NEW n \in Bucket, NEW m \in Bucket, Home(n) = Home(m), Place(n) = Place(m)
  PROVE  n = m
<1> DEFINE k == PageLevelOf(n[1])
           F == FirstLevel(k)
           a == n[1] - F
           b == m[1] - F
           u == TwoToThe[a]
           v == TwoToThe[b]
           x == n[2]
           y == m[2]
<1>1. PageLevelOf(m[1]) = k
  BY HomeFacts
<1>2. /\ n = <<n[1], x>> /\ m = <<m[1], y>> /\ n[1] \in Level /\ m[1] \in Level
      /\ x \in 0 .. TwoToThe[n[1]] - 1 /\ y \in 0 .. TwoToThe[m[1]] - 1
  BY BucketIs
<1>3. /\ a \in 0 .. LevelsIn(k) - 1 /\ b \in 0 .. LevelsIn(k) - 1 /\ LevelsIn(k) \in 1 .. Levels
  BY <1>1, <1>2, LevelInPage
<1>4. F \in Nat /\ n[1] \in Nat /\ m[1] \in Nat /\ x \in Nat /\ y \in Nat
  BY <1>2, LevelInPage, PageLevelFacts DEF Level
<1>5. /\ Home(n)[2] = x \div u /\ Home(m)[2] = y \div v
      /\ Place(n) = u - 1 + (x % u) /\ Place(m) = v - 1 + (y % v)
  BY <1>1 DEF Home, Place, IndexInPage
<1> HIDE DEF k, F
<1>6. n[1] = a + F /\ m[1] = b + F
  BY <1>4
<1> HIDE DEF a, b, x, y
<1>7. a \in Nat /\ b \in Nat /\ a + 1 <= Levels /\ b + 1 <= Levels /\ Levels \in Nat
  BY <1>3, LevelsFacts
<1>8. u \in Nat \ {0} /\ v \in Nat \ {0} /\ TwoToThe[a + 1] = 2 * u /\ TwoToThe[b + 1] = 2 * v
  <2>1. /\ a \in 0 .. Levels /\ b \in 0 .. Levels /\ a + 1 \in 1 .. Levels /\ b + 1 \in 1 .. Levels
        /\ (a + 1) - 1 = a /\ (b + 1) - 1 = b
    BY <1>7
  <2> QED BY <2>1, TwoToTheFacts
<1> HIDE DEF u, v
<1>9. /\ x = u * (x \div u) + (x % u) /\ x % u \in 0 .. u - 1
      /\ y = v * (y \div v) + (y % v) /\ y % v \in 0 .. v - 1
  BY <1>4, <1>8, QuotientFacts
<1> DEFINE i == x % u
           j == y % v
<1>10. i \in 0 .. u - 1 /\ j \in 0 .. v - 1 /\ u - 1 + i = v - 1 + j
  BY <1>5, <1>9
<1>11. a + 1 <= b => 2 * u <= v
  BY <1>7, <1>8, PowersGrow DEF v
<1>12. b + 1 <= a => 2 * v <= u
  BY <1>7, <1>8, PowersGrow DEF u
<1> HIDE DEF i, j
<1>13. a = b
  <2>1. ~(a + 1 <= b)
    BY <1>8, <1>10, <1>11
  <2>2. ~(b + 1 <= a)
    BY <1>8, <1>10, <1>12
  <2> QED BY <1>7, <2>1, <2>2
<1>14. u = v
  BY <1>13 DEF u, v
<1>15. i = j
  BY <1>8, <1>10, <1>14
<1>16. x = y
  <2>1. x \div u = y \div v
    BY <1>5
  <2>2. x = u * (x \div u) + i /\ y = v * (y \div v) + j
    BY <1>9 DEF i, j
  <2>3. u * (x \div u) = v * (y \div v)
    BY <1>14, <2>1
  <2> QED BY <1>15, <2>2, <2>3
<1> QED
  BY <1>2, <1>6, <1>13, <1>16

(* A path visits the pages of its buckets.                                  *)
LEMMA HomeOnPath ==
  ASSUME NEW path \in Path, NEW l \in Level
  PROVE  Home(BucketOn(path, l)) = PageOn(path, PageLevelOf(l))
<1> DEFINE k == PageLevelOf(l)
           F == FirstLevel(k)
           a == Levels - 1 - l
           d == l - F
<1>1. k \in PageLevel /\ d \in 0 .. LevelsIn(k) - 1 /\ F \in 0 .. Levels - 1
  BY LevelInPage, PageLevelFacts
<1>2. a \in Nat /\ d \in Nat /\ a + d = Levels - 1 - F /\ a + d <= Levels
      /\ a \in 0 .. Levels /\ d \in 0 .. Levels
  <2>1. l \in 0 .. Levels - 1
    BY DEF Level
  <2> HIDE DEF F, k
  <2> QED BY <1>1, <2>1, LevelsFacts
<1> HIDE DEF a, d
<1>3. TwoToThe[a + d] = TwoToThe[a] * TwoToThe[d] /\ TwoToThe[a] \in Nat \ {0}
      /\ TwoToThe[d] \in Nat \ {0}
  BY <1>2, PowersAdd, TwoToTheFacts
<1>4. path \in Nat
  <2>1. \A m : path \in 0 .. m => path \in Nat
    OBVIOUS
  <2> QED BY <2>1, PathBound
<1>5. path \div TwoToThe[a + d] = (path \div TwoToThe[a]) \div TwoToThe[d]
  BY <1>3, <1>4, NestedDivision
<1> QED
  BY <1>2, <1>5 DEF Home, PageOn, BucketOn, a, d

(* What is stored is what was written back last; what is in the buffer is   *)
(* what will be written back: for the buckets of the loaded path the bits   *)
(* last set, for the others in the same pages the bits they had.            *)
BitsStored == \A n \in Bucket : memory[Home(n)].bits[Place(n)] = written[n]

ToBeWritten(n) == IF n = BucketOn(loaded, n[1]) THEN pending[n[1]] ELSE written[n]

BitsBuffered ==
  loaded # NoPath =>
    \A n \in Bucket :
      Home(n) = PageOn(loaded, PageLevelOf(n[1])) =>
        buffer[PageLevelOf(n[1])].bits[Place(n)] = ToBeWritten(n)

BitsKept == BitsStored /\ BitsBuffered

LEMMA BitsStoredIsAsWritten == BitsStored => BitsAsWritten
BY DEF BitsStored, BitsAsWritten, Home, Place

LEMMA EncryptKeepsBits == IInv /\ BitsKept /\ EncryptContents => BitsKept'
<1> SUFFICES ASSUME IInv, BitsKept, EncryptContents PROVE BitsKept'
  OBVIOUS
<1>1. loaded = NoPath /\ loaded' = loaded /\ written' = written
  BY DEF IInv, Typed, BufferTyped, EncryptContents
<1>2. \A p \in Page : memory'[p].bits = memory[p].bits
  BY DEF EncryptContents
<1>3. \A n \in Bucket : Home(n) \in Page
  BY HomeFacts
<1>4. BitsStored'
  BY <1>1, <1>2, <1>3 DEF BitsKept, BitsStored
<1> QED
  BY <1>1, <1>4 DEF BitsKept, BitsBuffered

LEMMA ReadKeepsBits ==
  ASSUME IInv, BitsKept, NEW path \in Path, ReadPath(path)
  PROVE  BitsKept'
<1>1. /\ memory' = memory /\ written' = written /\ loaded' = path /\ buffer' = PagesOn(path)
      /\ pending' = [l \in Level |-> written[BucketOn(path, l)]]
  BY DEF ReadPath
<1>2. BitsStored'
  BY <1>1 DEF BitsKept, BitsStored
<1>3. ASSUME NEW n \in Bucket, Home(n) = PageOn(path, PageLevelOf(n[1]))
      PROVE  buffer'[PageLevelOf(n[1])].bits[Place(n)]
               = IF n = BucketOn(path, n[1]) THEN pending'[n[1]] ELSE written[n]
  <2>1. n[1] \in Level /\ PageLevelOf(n[1]) \in PageLevel
    BY BucketIs, LevelInPage
  <2>2. buffer'[PageLevelOf(n[1])].bits = memory[Home(n)].bits
    BY <1>1, <1>3, <2>1 DEF PagesOn
  <2>3. memory[Home(n)].bits[Place(n)] = written[n]
    BY DEF BitsKept, BitsStored
  <2>4. pending'[n[1]] = written[BucketOn(path, n[1])]
    BY <1>1, <2>1
  <2> QED BY <2>2, <2>3, <2>4
<1>4. BitsBuffered'
  BY <1>1, <1>3 DEF BitsBuffered, ToBeWritten
<1> QED
  BY <1>2, <1>4 DEF BitsKept

LEMMA SetKeepsBits ==
  ASSUME IInv, BitsKept, NEW l \in Level, NEW b \in Bits, SetValid(l, b)
  PROVE  BitsKept'
<1> DEFINE m == BucketOn(loaded, l)
           K == PageLevelOf(l)
           i == Place(m)
<1>1. /\ loaded # NoPath /\ loaded \in Path /\ loaded' = loaded /\ memory' = memory
      /\ written' = written /\ pending' = [pending EXCEPT ![l] = b]
      /\ pending \in [Level -> Bits] /\ buffer = [k \in PageLevel |-> buffer[k]]
  BY DEF IInv, Typed, BufferTyped, SetValid
<1>2. m \in Bucket /\ m[1] = l /\ K \in PageLevel /\ Home(m) = PageOn(loaded, K)
      /\ i \in BucketIndex(K)
  BY <1>1, BucketOnIsBucket, LevelInPage, HomeOnPath, HomeFacts
<1>3. buffer' = [buffer EXCEPT ![K].bits[i] = b]
  BY <1>2 DEF SetValid, Place
<1>4. buffer[K].bits \in [BucketIndex(K) -> Bits]
      /\ buffer[K] = [bits |-> buffer[K].bits, counters |-> buffer[K].counters]
  BY <1>1, <1>2 DEF IInv, Typed, BufferTyped, BufferPage
<1> HIDE DEF m, K, i
<1>5. /\ \A k \in PageLevel : k # K => buffer'[k] = buffer[k]
      /\ buffer'[K] = [buffer[K] EXCEPT !.bits[i] = b]
  BY <1>1, <1>2, <1>3
<1>6. \A j : buffer'[K].bits[j] = [buffer[K].bits EXCEPT ![i] = b][j]
  BY <1>4, <1>5
<1>7. buffer'[K].bits[i] = b /\ \A j \in BucketIndex(K) : j # i
        => buffer'[K].bits[j] = buffer[K].bits[j]
  BY <1>2, <1>4, <1>6
<1>8. ASSUME NEW n \in Bucket, Home(n) = PageOn(loaded, PageLevelOf(n[1]))
      PROVE  buffer'[PageLevelOf(n[1])].bits[Place(n)]
               = IF n = BucketOn(loaded, n[1]) THEN pending'[n[1]] ELSE written[n]
  <2>1. /\ n[1] \in Level /\ PageLevelOf(n[1]) \in PageLevel
        /\ Place(n) \in BucketIndex(PageLevelOf(n[1]))
    BY BucketIs, LevelInPage, HomeFacts
  <2>2. buffer[PageLevelOf(n[1])].bits[Place(n)]
          = IF n = BucketOn(loaded, n[1]) THEN pending[n[1]] ELSE written[n]
    BY <1>1, <1>8 DEF BitsKept, BitsBuffered, ToBeWritten
  <2>3. CASE n = m
    <3>1. n[1] = l /\ PageLevelOf(n[1]) = K /\ Place(n) = i /\ n = BucketOn(loaded, n[1])
      BY <1>2, <2>3 DEF K, i, m
    <3>2. pending'[l] = b
      BY <1>1
    <3> QED BY <1>7, <3>1, <3>2
  <2>4. CASE n # m
    <3>1. n = BucketOn(loaded, n[1]) => n[1] # l
      BY <2>4 DEF m
    <3>2. n = BucketOn(loaded, n[1]) => pending'[n[1]] = pending[n[1]]
      BY <1>1, <2>1, <3>1
    <3>3. buffer'[PageLevelOf(n[1])].bits[Place(n)] = buffer[PageLevelOf(n[1])].bits[Place(n)]
      <4>1. CASE PageLevelOf(n[1]) = K
        <5>1. Home(n) = Home(m)
          BY <1>2, <1>8, <4>1
        <5>2. Place(n) # i
          BY <1>2, <2>4, <5>1, PlacesDiffer DEF i
        <5> QED BY <1>7, <2>1, <4>1, <5>2
      <4>2. CASE PageLevelOf(n[1]) # K
        BY <1>5, <2>1, <4>2
      <4> QED BY <4>1, <4>2
    <3> QED BY <2>2, <3>2, <3>3
  <2> QED BY <2>3, <2>4
<1>9. BitsBuffered'
  BY <1>1, <1>8 DEF BitsBuffered, ToBeWritten
<1>10. BitsStored'
  BY <1>1 DEF BitsKept, BitsStored
<1> QED
  BY <1>9, <1>10 DEF BitsKept

LEMMA WriteKeepsBits ==
  ASSUME IInv, BitsKept, WritePath
  PROVE  BitsKept'
<1>1. /\ Typed /\ loaded # NoPath /\ loaded \in Path /\ loaded' = loaded /\ pending' = pending
      /\ buffer' = CountersAdvanced
      /\ \A n \in Bucket : written'[n] = ToBeWritten(n)
  BY DEF IInv, Typed, WritePath, ToBeWritten
<1>2. ASSUME NEW n \in Bucket
      PROVE  /\ n[1] \in Level /\ PageLevelOf(n[1]) \in PageLevel
             /\ Home(n) \in Page /\ Home(n)[1] = PageLevelOf(n[1])
  BY BucketIs, LevelInPage, HomeFacts
<1>3. ASSUME NEW n \in Bucket PROVE memory'[Home(n)].bits[Place(n)] = written'[n]
  <2>1. CASE Home(n) = PageOn(loaded, PageLevelOf(n[1]))
    <3>1. memory'[Home(n)].bits = buffer[PageLevelOf(n[1])].bits
      BY <1>1, <1>2, <2>1, WrittenPages
    <3>2. buffer[PageLevelOf(n[1])].bits[Place(n)] = ToBeWritten(n)
      BY <1>1, <2>1 DEF BitsKept, BitsBuffered
    <3> QED BY <1>1, <3>1, <3>2
  <2>2. CASE Home(n) # PageOn(loaded, PageLevelOf(n[1]))
    <3>1. memory'[Home(n)] = memory[Home(n)]
      BY <1>1, <1>2, <2>2, WrittenPages
    <3>2. n # BucketOn(loaded, n[1])
      BY <1>1, <1>2, <2>2, HomeOnPath
    <3> QED BY <1>1, <3>1, <3>2 DEF BitsKept, BitsStored, ToBeWritten
  <2> QED BY <2>1, <2>2
<1>4. ASSUME NEW n \in Bucket, Home(n) = PageOn(loaded, PageLevelOf(n[1]))
      PROVE  buffer'[PageLevelOf(n[1])].bits[Place(n)]
               = IF n = BucketOn(loaded, n[1]) THEN pending[n[1]] ELSE written'[n]
  <2>1. buffer'[PageLevelOf(n[1])].bits = buffer[PageLevelOf(n[1])].bits
    BY <1>1, <1>2, AdvancedFields
  <2>2. buffer[PageLevelOf(n[1])].bits[Place(n)] = ToBeWritten(n)
    BY <1>1, <1>4 DEF BitsKept, BitsBuffered
  <2> QED BY <1>1, <2>1, <2>2 DEF ToBeWritten
<1>5. BitsStored'
  BY <1>3 DEF BitsStored
<1>6. BitsBuffered'
  BY <1>1, <1>4 DEF BitsBuffered, ToBeWritten
<1> QED
  BY <1>5, <1>6 DEF BitsKept

LEMMA StepKeepsBits == IInv /\ BitsKept /\ [Next]_vars => BitsKept'
<1> SUFFICES ASSUME IInv, BitsKept, [Next]_vars PROVE BitsKept'
  OBVIOUS
<1>1. CASE EncryptContents
  BY <1>1, EncryptKeepsBits
<1>2. CASE WritePath
  BY <1>2, WriteKeepsBits
<1>3. CASE SaveAndLoad
  BY <1>3 DEF SaveAndLoad, BitsKept, BitsStored, BitsBuffered
<1>4. ASSUME NEW path \in Path, ReadPath(path) PROVE BitsKept'
  BY <1>4, ReadKeepsBits
<1>5. ASSUME NEW l \in Level, NEW b \in Bits, SetValid(l, b) PROVE BitsKept'
  BY <1>5, SetKeepsBits
<1>6. CASE UNCHANGED vars
  BY <1>6 DEF vars, BitsKept, BitsStored, BitsBuffered, ToBeWritten
<1> QED
  BY <1>1, <1>2, <1>3, <1>4, <1>5, <1>6 DEF Next

-----------------------------------------------------------------------------
(* Addresses: pages do not overlap, so that an address is of one bucket.    *)
LEMMA SizeFacts ==
  ASSUME NEW k \in PageLevel
  PROVE  /\ SizeWithTag(k) \in Nat \ {0}
         /\ \A i \in BucketIndex(k) : i \in Nat /\ i * BytesPerBucket \in Nat
                                      /\ i * BytesPerBucket < SizeWithTag(k)
<1> DEFINE e == LevelsIn(k)
           u == TwoToThe[e]
           B == BytesPerBucket
           data == u * B
<1>1. B \in Nat \ {0} /\ AuthTagSize \in Nat
  BY ValidBitTreeAssumption DEF Parameters
<1>2. e \in 0 .. Levels
  <2>1. LevelsPerLeafPage \in 0 .. Levels
    <3>1. /\ PageLevels - 1 \in PageLevel
          /\ FirstLevel(PageLevels - 1) = Levels - LevelsPerLeafPage
      BY PageLevelFacts DEF PageLevel
    <3>2. FirstLevel(PageLevels - 1) \in 0 .. Levels - 1
      BY <3>1, PageLevelFacts
    <3> QED BY <3>1, <3>2, PageLevelFacts
  <2> QED BY <2>1, PageLevelFacts DEF LevelsIn
<1>3. u \in Nat \ {0}
  BY <1>2, TwoToTheFacts
<1>4. SizeWithTag(k) = (IF k = PageLevels - 1 THEN data ELSE u * (8 + B)) + AuthTagSize
  BY DEF SizeWithTag, LeafPageSize, PageSize, LevelsIn
<1> HIDE DEF u, e, B
<1>5. data \in Nat \ {0} /\ u * (8 + B) \in Nat /\ u * (8 + B) >= data
  BY <1>1, <1>3, Z3
<1>6. ASSUME NEW i \in 0 .. u - 2 PROVE i * B \in Nat /\ i * B < data
  BY <1>1, <1>3, Z3
<1> HIDE DEF data
<1>7. SizeWithTag(k) \in Nat /\ SizeWithTag(k) >= data /\ SizeWithTag(k) # 0
  <2> DEFINE y == u * (8 + B)
  <2>1. y \in Nat /\ y >= data
          /\ SizeWithTag(k) = (IF k = PageLevels - 1 THEN data ELSE y) + AuthTagSize
    BY <1>4, <1>5
  <2> HIDE DEF y
  <2> QED BY <1>1, <1>5, <2>1
<1>8. ASSUME NEW i \in BucketIndex(k)
      PROVE  i \in Nat /\ i * B \in Nat /\ i * B < SizeWithTag(k)
  <2>1. i \in 0 .. u - 2
    BY DEF BucketIndex, u, e
  <2>2. i * B \in Nat /\ i * B < data /\ i \in Nat
    BY <1>6, <2>1
  <2> DEFINE z == i * B
  <2> HIDE DEF z
  <2>3. z \in Nat /\ z < data
    BY <2>2 DEF z
  <2>4. z < SizeWithTag(k)
    BY <1>5, <1>7, <2>3
  <2> QED BY <2>2, <2>4 DEF z
<1> QED
  BY <1>7, <1>8 DEF B

(* The bytes of all the pages of a page level.                              *)
LevelBytes(k) == TwoToThe[FirstLevel(k)] * SizeWithTag(k)

LEMMA LevelBytesType == \A k \in PageLevel : LevelBytes(k) \in Nat
<1> TAKE k \in PageLevel
<1>1. SizeWithTag(k) \in Nat /\ FirstLevel(k) \in 0 .. Levels
  BY SizeFacts, PageLevelFacts
<1>2. TwoToThe[FirstLevel(k)] \in Nat
  BY <1>1, TwoToTheFacts
<1> QED
  BY <1>1, <1>2, Z3 DEF LevelBytes

LEMMA StartFacts ==
  /\ \A k \in PageLevel : StartOfPageLevel(k) \in Nat
  /\ \A k \in PageLevel : k # 0 =>
       StartOfPageLevel(k) = StartOfPageLevel(k - 1) + LevelBytes(k - 1)
<1> DEFINE N == PageLevels - 1
           step == [p \in (1 .. N) \X Nat |-> p[2] + LevelBytes(p[1] - 1)]
<1>1. N \in Nat /\ PageLevel = 0 .. N
  BY PageLevelFacts DEF PageLevel
<1>2. \A k \in 1 .. N : LevelBytes(k - 1) \in Nat
  <2>1. \A k \in 1 .. N : k - 1 \in PageLevel
    BY <1>1
  <2> QED BY <2>1, LevelBytesType
<1>3. step \in [(1 .. N) \X Nat -> Nat]
  <2>1. ASSUME NEW k \in 1 .. N, NEW x \in Nat PROVE x + LevelBytes(k - 1) \in Nat
    BY <1>2
  <2> QED BY <2>1
<1>4. \A k \in 1 .. N, x \in Nat : step[<<k, x>>] = x + LevelBytes(k - 1)
  OBVIOUS
<1>5. PICK f \in [0 .. N -> Nat] : Recursive(f, N, 0, step)
  <2>1. 0 \in Nat
    OBVIOUS
  <2> HIDE DEF step, N
  <2> QED BY <1>1, <1>3, <2>1, RecursiveFunctionExists
<1>6. \A k \in 0 .. N : f[k] = IF k = 0 THEN 0 ELSE f[k - 1] + LevelBytes(k - 1)
  <2>1. \A k \in 0 .. N : k # 0 => f[k - 1] \in Nat /\ k \in 1 .. N
    BY <1>1
  <2> HIDE DEF step
  <2> QED BY <1>4, <1>5, <2>1 DEF Recursive
<1> DEFINE Start(g) ==
             g = [k \in PageLevel |->
                    IF k = 0 THEN 0
                    ELSE g[k - 1] + TwoToThe[FirstLevel(k - 1)] * SizeWithTag(k - 1)]
           start == CHOOSE g : Start(g)
<1>7. Start(f)
  <2> DEFINE F(k) == IF k = 0 THEN 0 ELSE f[k - 1] + LevelBytes(k - 1)
  <2>1. f = [k \in 0 .. N |-> f[k]] /\ \A k \in 0 .. N : f[k] = F(k)
    BY <1>6
  <2> HIDE DEF F
  <2>2. f = [k \in 0 .. N |-> F(k)]
    BY <2>1
  <2> QED BY <1>1, <2>2 DEF F, LevelBytes
<1>8. Start(start)
  <2> HIDE DEF Start
  <2> QED BY <1>7
<1>9. \A k \in PageLevel : start[k] = IF k = 0 THEN 0 ELSE start[k - 1] + LevelBytes(k - 1)
  <2> DEFINE F(k) == IF k = 0 THEN 0 ELSE start[k - 1] + LevelBytes(k - 1)
  <2>1. start = [k \in PageLevel |-> F(k)]
    BY <1>8 DEF LevelBytes
  <2> HIDE DEF F, start
  <2>2. \A k \in PageLevel : start[k] = F(k)
    BY <2>1
  <2> QED BY <2>2 DEF F
<1>10. \A k : StartOfPageLevel(k) = start[k]
  BY DEF StartOfPageLevel
<1> HIDE DEF start
<1> DEFINE S == { k \in 0 .. N : start[k] \in Nat }
<1>11. 0 \in S
  BY <1>1, <1>9
<1>12. ASSUME NEW k \in 0 .. N - 1, k \in S PROVE k + 1 \in S
  <2>1. k + 1 \in 0 .. N /\ k + 1 # 0 /\ (k + 1) - 1 = k /\ k + 1 \in 1 .. N
    BY <1>1
  <2>2. start[k + 1] = start[k] + LevelBytes(k) /\ LevelBytes(k) \in Nat /\ start[k] \in Nat
    BY <1>1, <1>2, <1>9, <1>12, <2>1
  <2> QED BY <2>1, <2>2
<1>13. \A k \in 0 .. N : k \in S
  <2> HIDE DEF S
  <2> QED BY <1>1, <1>11, <1>12, IntervalInduction
<1> QED
  BY <1>1, <1>9, <1>10, <1>13

(* A page level ends where the next begins.                                 *)
LEMMA LevelsInOrder ==
  ASSUME NEW j \in PageLevel, NEW k \in PageLevel, j < k
  PROVE  StartOfPageLevel(j) + LevelBytes(j) <= StartOfPageLevel(k)
<1> DEFINE end == StartOfPageLevel(j) + LevelBytes(j)
           n == k - j - 1
           S == { i \in 0 .. n : end <= StartOfPageLevel(j + 1 + i) }
<1>1. /\ j \in Nat /\ k \in Nat /\ n \in Nat /\ j + 1 + n = k /\ end \in Nat
  BY StartFacts, LevelBytesType, PageLevelFacts
<1>2. ASSUME NEW i \in 0 .. n
      PROVE  j + 1 + i \in PageLevel /\ j + 1 + i # 0 /\ (j + 1 + i) - 1 = j + i
  <2>1. PageLevels \in Nat /\ k <= PageLevels - 1
    BY <1>1, PageLevelFacts DEF PageLevel
  <2>2. j + 1 + i \in Nat /\ j + 1 + i <= k
    BY <1>1
  <2> QED BY <1>1, <2>1, <2>2 DEF PageLevel
<1> HIDE DEF end
<1>3. 0 \in S
  <2>1. j + 1 + 0 = j + 1 /\ j + 0 = j /\ 0 \in 0 .. n
    BY <1>1
  <2>2. StartOfPageLevel(j + 1) = end
    BY <1>2, <2>1, StartFacts DEF end
  <2> QED BY <1>1, <2>1, <2>2
<1>4. ASSUME NEW i \in 0 .. n - 1, i \in S PROVE i + 1 \in S
  <2>1. i + 1 \in 0 .. n /\ j + (i + 1) = j + 1 + i /\ i \in 0 .. n
    BY <1>1
  <2>2. /\ StartOfPageLevel(j + 1 + (i + 1)) = StartOfPageLevel(j + 1 + i) + LevelBytes(j + 1 + i)
        /\ StartOfPageLevel(j + 1 + i) \in Nat /\ LevelBytes(j + 1 + i) \in Nat
    BY <1>2, <2>1, StartFacts, LevelBytesType
  <2>3. end <= StartOfPageLevel(j + 1 + i)
    BY <1>4
  <2> QED BY <1>1, <2>1, <2>2, <2>3
<1>5. n \in S
  <2> HIDE DEF S, n
  <2>1. n \in 0 .. n
    BY <1>1
  <2> QED BY <1>1, <1>3, <1>4, <2>1, IntervalInduction
<1> QED
  BY <1>1, <1>5 DEF end

LEMMA PageAddressFacts ==
  ASSUME NEW p \in Page
  PROVE  /\ p[1] \in PageLevel /\ p[2] \in Nat
         /\ StartOfPageLevel(p[1]) <= PageAddress(p)
         /\ PageAddress(p) \in Nat
         /\ PageAddress(p) + SizeWithTag(p[1]) <= StartOfPageLevel(p[1]) + LevelBytes(p[1])
<1> DEFINE k == p[1]
           w == SizeWithTag(k)
           t == TwoToThe[FirstLevel(k)]
           s == StartOfPageLevel(k)
           o == p[2]
<1>1. k \in PageLevel /\ o \in 0 .. t - 1
  BY PageIs
<1>2. w \in Nat \ {0} /\ s \in Nat /\ FirstLevel(k) \in 0 .. Levels
  BY <1>1, SizeFacts, StartFacts, PageLevelFacts
<1>3. t \in Nat \ {0}
  BY <1>2, TwoToTheFacts
<1>4. PageAddress(p) = s + o * w /\ LevelBytes(k) = t * w
  BY DEF PageAddress, LevelBytes
<1> HIDE DEF k, w, t, s, o
<1>5. o * w \in Nat /\ t * w \in Nat /\ o * w + w <= t * w /\ o \in Nat
  BY <1>1, <1>2, <1>3, Z3
<1> DEFINE x == o * w
           y == t * w
<1>6. x \in Nat /\ y \in Nat /\ x + w <= y /\ PageAddress(p) = s + x /\ LevelBytes(k) = y
  BY <1>4, <1>5
<1> HIDE DEF x, y
<1>7. s <= PageAddress(p) /\ PageAddress(p) \in Nat /\ PageAddress(p) + w <= s + LevelBytes(k)
  BY <1>2, <1>6
<1> QED
  BY <1>1, <1>5, <1>7 DEF k, w, s, o

(* No two places share an address.                                          *)
LEMMA PagesApart ==
  ASSUME NEW p \in Page, NEW q \in Page, p # q
  PROVE  \/ PageAddress(p) + SizeWithTag(p[1]) <= PageAddress(q)
         \/ PageAddress(q) + SizeWithTag(q[1]) <= PageAddress(p)
<1>1. ASSUME NEW a \in Page, NEW b \in Page, a[1] < b[1]
      PROVE  PageAddress(a) + SizeWithTag(a[1]) <= PageAddress(b)
  <2> DEFINE x == PageAddress(a) + SizeWithTag(a[1])
             y == StartOfPageLevel(a[1]) + LevelBytes(a[1])
             z == StartOfPageLevel(b[1])
  <2>1. x \in Nat /\ y \in Nat /\ z \in Nat /\ x <= y /\ z <= PageAddress(b)
        /\ PageAddress(b) \in Nat
    BY PageAddressFacts, SizeFacts, StartFacts, LevelBytesType
  <2>2. y <= z
    BY <1>1, PageAddressFacts, LevelsInOrder
  <2> HIDE DEF x, y, z
  <2>3. x <= PageAddress(b)
    BY <2>1, <2>2
  <2> QED BY <2>3 DEF x
<1>2. ASSUME NEW a \in Page, NEW b \in Page, a[1] = b[1], a[2] < b[2]
      PROVE  PageAddress(a) + SizeWithTag(a[1]) <= PageAddress(b)
  <2> DEFINE w == SizeWithTag(a[1])
             s == StartOfPageLevel(a[1])
             x == a[2]
             y == b[2]
  <2>1. w \in Nat /\ s \in Nat /\ x \in Nat /\ y \in Nat /\ x + 1 <= y
    BY <1>2, PageAddressFacts, SizeFacts, StartFacts
  <2>2. PageAddress(a) = s + x * w /\ PageAddress(b) = s + y * w
    BY <1>2 DEF PageAddress
  <2> HIDE DEF w, s, x, y
  <2>3. x * w + w <= y * w /\ x * w \in Nat /\ y * w \in Nat
    BY <2>1, Z3
  <2> DEFINE f == x * w
             g == y * w
  <2>4. f \in Nat /\ g \in Nat /\ f + w <= g /\ PageAddress(a) = s + f /\ PageAddress(b) = s + g
    BY <2>2, <2>3
  <2> HIDE DEF f, g
  <2>5. PageAddress(a) + w <= PageAddress(b)
    BY <2>1, <2>4
  <2> QED BY <2>5 DEF w
<1>3. p = <<p[1], p[2]>> /\ q = <<q[1], q[2]>> /\ p[1] \in Nat /\ q[1] \in Nat
      /\ p[2] \in Nat /\ q[2] \in Nat
  BY PageIs, PageAddressFacts, PageLevelFacts
<1>4. p[1] < q[1] \/ q[1] < p[1] \/ (p[1] = q[1] /\ (p[2] < q[2] \/ q[2] < p[2]))
  BY <1>3
<1> QED
  BY <1>1, <1>2, <1>4

LEMMA AddressesDiffer ==
  ASSUME NEW p \in Page, NEW q \in Page,
         NEW i \in BucketIndex(p[1]), NEW j \in BucketIndex(q[1]),
         PageAddress(p) + i * BytesPerBucket = PageAddress(q) + j * BytesPerBucket
  PROVE  p = q /\ i = j
<1> DEFINE B == BytesPerBucket
           x == i * B
           y == j * B
           a == PageAddress(p)
           b == PageAddress(q)
           v == SizeWithTag(p[1])
           w == SizeWithTag(q[1])
<1>1. /\ a \in Nat /\ b \in Nat /\ v \in Nat /\ w \in Nat /\ x \in Nat /\ y \in Nat
      /\ x < v /\ y < w /\ i \in Nat /\ j \in Nat /\ a + x = b + y
  BY PageAddressFacts, SizeFacts
<1>2. B \in Nat \ {0}
  BY ValidBitTreeAssumption DEF Parameters
<1>3. p # q => a + v <= b \/ b + w <= a
  BY PagesApart
<1> HIDE DEF x, y, a, b, v, w, B
<1>4. ~(a + v <= b) /\ ~(b + w <= a)
  BY <1>1
<1>5. p = q
  BY <1>3, <1>4
<1>6. x = y
  BY <1>1, <1>5 DEF a, b
<1>7. i = j
  <2>1. i * B = j * B
    BY <1>6 DEF x, y
  <2> QED BY <1>1, <1>2, <2>1, Z3
<1> QED
  BY <1>5, <1>7

LEMMA InitBits == Init => BitsKept
<1> SUFFICES ASSUME Init PROVE BitsKept
  OBVIOUS
<1>1. loaded = NoPath /\ \A p \in Page : memory[p].bits = PlainPage(p).bits
  BY DEF Init
<1>2. ASSUME NEW n \in Bucket PROVE memory[Home(n)].bits[Place(n)] = written[n]
  <2> DEFINE p == Home(n)
             i == Place(n)
             Here == { m \in Bucket : GetAddressOf(m[1], m[2])
                                        = PageAddress(p) + i * BytesPerBucket }
  <2>1. p \in Page /\ p[1] = PageLevelOf(n[1]) /\ i \in BucketIndex(p[1])
    BY HomeFacts
  <2>2. ASSUME NEW m \in Bucket
        PROVE  GetAddressOf(m[1], m[2]) = PageAddress(Home(m)) + Place(m) * BytesPerBucket
    BY DEF GetAddressOf, PageAddress, Home, Place
  <2>3. ASSUME NEW m \in Bucket,
               GetAddressOf(m[1], m[2]) = PageAddress(p) + i * BytesPerBucket
        PROVE  m = n
    <3>1. Home(m) \in Page /\ Place(m) \in BucketIndex(Home(m)[1])
      BY HomeFacts
    <3>2. PageAddress(Home(m)) + Place(m) * BytesPerBucket = PageAddress(p) + i * BytesPerBucket
      BY <2>2, <2>3
    <3>3. Home(m) = p /\ Place(m) = i
      <4> HIDE DEF p, i
      <4> QED BY <2>1, <3>1, <3>2, AddressesDiffer
    <3> QED BY <3>3, PlacesDiffer
  <2>4. n \in Here
    BY <2>2
  <2>5. Here = {n}
    <3> HIDE DEF p, i
    <3> QED BY <2>3, <2>4
  <2>6. PlainPage(p).bits[i] = IF Here = {} THEN NoBits ELSE written[CHOOSE m \in Here : TRUE]
    BY <2>1 DEF PlainPage
  <2> HIDE DEF Here, p, i
  <2>7. (CHOOSE m \in Here : TRUE) = n
    BY <2>5
  <2>8. memory[p].bits[i] = written[n]
    BY <1>1, <2>1, <2>5, <2>6, <2>7
  <2> QED BY <2>8 DEF p, i
<1> QED
  BY <1>1, <1>2 DEF BitsKept, BitsStored, BitsBuffered

(* A bucket's bits are found where they were put, by fast_init through its  *)
(* address or by a write-back of any path, and no write-back disturbs the   *)
(* bits of other buckets of the pages it renews.                            *)
THEOREM BitsFound == Spec => []BitsAsWritten
<1>1. IInv /\ BitsKept /\ [Next]_vars => IInv' /\ BitsKept'
  BY StepPreserves, StepKeepsBits
<1> QED
  BY InitTyped, InitBits, <1>1, BitsStoredIsAsWritten, PTL DEF Spec, BitsKept

-----------------------------------------------------------------------------
(* BucketTree in either layout, beside the valid bits as in MCTrees.       *)
CONSTANTS LayoutType, DataBucketSize, MetadataBucketSize, MemoryPageSize, MaxChanges

VARIABLES cells, currentPath, requests

Buckets == INSTANCE BucketTree WITH
  memory <- cells, path <- currentPath, PageSize <- MemoryPageSize

(* Its tree is the one of TreePaths.                                       *)
LEMMA SameTree ==
  /\ Buckets!TwoToThe = TwoToThe /\ Buckets!NumPaths = NumPaths /\ Buckets!Path = Path
  /\ Buckets!Level = Level /\ Buckets!Bucket = Bucket
  /\ \A p, l : Buckets!BucketOn(p, l) = BucketOn(p, l)
<1>1. Buckets!TwoToThe = TwoToThe
  BY DEF TwoToThe, Buckets!TwoToThe
<1>2. Buckets!NumPaths = NumPaths /\ Buckets!Path = Path
  BY <1>1 DEF NumPaths, Buckets!NumPaths, Path, Buckets!Path
<1>3. Buckets!Level = Level
  BY DEF Level, Buckets!Level
<1>4. \A p, l : Buckets!BucketOn(p, l) = BucketOn(p, l)
  BY <1>1 DEF BucketOn, Buckets!BucketOn
<1>5. Buckets!Bucket = Bucket
  BY <1>2, <1>3, <1>4 DEF Bucket, Buckets!Bucket
<1> QED BY <1>1, <1>2, <1>3, <1>4, <1>5

LEMMA BucketsTwoToTheFacts ==
  /\ Buckets!TwoToThe \in [0 .. Levels -> Nat \ {0}]
  /\ Buckets!TwoToThe[0] = 1
  /\ \A n \in 1 .. Levels : Buckets!TwoToThe[n] = 2 * Buckets!TwoToThe[n - 1]
BY SameTree, TwoToTheFacts

LEMMA BucketsPowersAdd ==
  ASSUME NEW m \in Nat, NEW n \in Nat, m + n <= Levels
  PROVE  Buckets!TwoToThe[m + n] = Buckets!TwoToThe[m] * Buckets!TwoToThe[n]
BY SameTree, PowersAdd

LEMMA BucketsPathBound ==
  \A p \in Buckets!Path : p \in 0 .. Buckets!TwoToThe[Levels - 1] - 1
BY SameTree, PathBound

LEMMA BucketsBucketIs ==
  ASSUME NEW n \in Buckets!Bucket
  PROVE  /\ n = <<n[1], n[2]>> /\ n[1] \in Buckets!Level
         /\ n[2] \in 0 .. Buckets!TwoToThe[n[1]] - 1
BY SameTree, BucketIs

LEMMA BucketsBucketOnIsBucket ==
  ASSUME NEW p \in Buckets!Path, NEW l \in Buckets!Level
  PROVE  Buckets!BucketOn(p, l) \in Buckets!Bucket /\ Buckets!BucketOn(p, l)[1] = l
BY SameTree, BucketOnIsBucket

LEMMA BucketsShiftedBound ==
  ASSUME NEW a \in Nat, NEW b \in Nat, a + b <= Levels,
         NEW x \in 0 .. Buckets!TwoToThe[a + b] - 1
  PROVE  x \div Buckets!TwoToThe[a] \in 0 .. Buckets!TwoToThe[b] - 1
BY SameTree, ShiftedBound

LEMMA BucketsPowerStep ==
  ASSUME NEW i \in 0 .. Levels - 1
  PROVE  /\ i \in Nat /\ i \in 0 .. Levels /\ i + 1 \in 1 .. Levels /\ i + 1 \in 0 .. Levels
         /\ Buckets!TwoToThe[i] \in Nat \ {0} /\ Buckets!TwoToThe[i + 1] \in Nat \ {0}
         /\ Buckets!TwoToThe[i + 1] = 2 * Buckets!TwoToThe[i]
BY SameTree, PowerStep

(* num_bits(), as the function it computes on the way.                     *)
Halving(f, n) ==
  /\ f \in [0 .. n -> Nat]
  /\ f[0] = 0
  /\ \A m \in 1 .. n : f[m] = f[m \div 2] + 1

LEMMA HalfOf ==
  ASSUME NEW m \in Nat, m # 0
  PROVE  m \div 2 \in 0 .. m - 1 /\ 2 * (m \div 2) <= m /\ (m >= 2 => m \div 2 # 0)
OBVIOUS

LEMMA HalvingExists ==
  ASSUME NEW n \in Nat
  PROVE  \E f : Halving(f, n)
<1> DEFINE Upto(k) == \E f : Halving(f, k)
           S == { k \in 0 .. n : Upto(k) }
<1>1. Halving([m \in 0 .. 0 |-> 0], 0)
  BY DEF Halving
<1>2. 0 \in S
  BY <1>1
<1>3. ASSUME NEW k \in 0 .. n - 1, k \in S PROVE k + 1 \in S
  <2>1. PICK f : Halving(f, k)
    BY <1>3
  <2> DEFINE h == (k + 1) \div 2
             g == [m \in 0 .. k + 1 |-> IF m = k + 1 THEN f[h] + 1 ELSE f[m]]
  <2>2. h \in 0 .. k /\ k \in Nat
    BY HalfOf
  <2>3. f[h] + 1 \in Nat
    BY <2>1, <2>2 DEF Halving
  <2>4. g \in [0 .. k + 1 -> Nat]
    BY <2>1, <2>2, <2>3 DEF Halving
  <2>5. g[0] = 0
    BY <2>1, <2>2 DEF Halving
  <2>6. ASSUME NEW m \in 1 .. k + 1 PROVE g[m] = g[m \div 2] + 1
    <3>1. m \in Nat /\ m # 0 /\ m \div 2 \in 0 .. m - 1
      BY <2>2, HalfOf
    <3>2. CASE m = k + 1
      BY <2>2, <3>2
    <3>3. CASE m # k + 1
      <4> DEFINE i == m \div 2
      <4>1. m \in 1 .. k /\ i \in 0 .. k /\ i # k + 1
        BY <2>2, <3>1, <3>3
      <4>2. f[m] = f[i] + 1
        BY <2>1, <4>1 DEF Halving
      <4> HIDE DEF i
      <4>3. g[m] = f[m] /\ g[i] = f[i]
        BY <2>2, <4>1
      <4> QED BY <4>2, <4>3 DEF i
    <3> QED BY <3>2, <3>3
  <2>7. Halving(g, k + 1)
    <3> HIDE DEF g
    <3> QED BY <2>4, <2>5, <2>6 DEF Halving
  <2> QED BY <2>2, <2>7
<1>4. n \in S
  <2> HIDE DEF S
  <2> QED BY <1>2, <1>3, IntervalInduction
<1> QED BY <1>4

LEMMA NumBitsIs ==
  ASSUME NEW n \in Nat
  PROVE  \E f : Halving(f, n) /\ Buckets!NumBits(n) = f[n]
<1> DEFINE Is(h) == h = [m \in 0 .. n |-> IF m = 0 THEN 0 ELSE h[m \div 2] + 1]
           f == CHOOSE h : Is(h)
<1>1. PICK g : Halving(g, n)
  BY HalvingExists
<1>2. Is(g)
  <2>1. \A m \in 0 .. n : g[m] = IF m = 0 THEN 0 ELSE g[m \div 2] + 1
    BY <1>1 DEF Halving
  <2>2. g \in [0 .. n -> Nat]
    BY <1>1 DEF Halving
  <2> DEFINE F(m) == IF m = 0 THEN 0 ELSE g[m \div 2] + 1
  <2>3. \A m \in 0 .. n : g[m] = F(m)
    BY <2>1
  <2> HIDE DEF F
  <2>4. g = [m \in 0 .. n |-> F(m)]
    BY <2>2, <2>3
  <2> QED BY <2>4 DEF F
<1>3. Is(f)
  <2> HIDE DEF Is
  <2> QED BY <1>2
<1>4. /\ f = [m \in 0 .. n |-> f[m]]
      /\ \A m \in 0 .. n : f[m] = IF m = 0 THEN 0 ELSE f[m \div 2] + 1
  <2> DEFINE F(m) == IF m = 0 THEN 0 ELSE f[m \div 2] + 1
  <2>1. f = [m \in 0 .. n |-> F(m)]
    BY <1>3
  <2> HIDE DEF F, f
  <2>2. /\ f = [m \in 0 .. n |-> f[m]]
        /\ \A m \in 0 .. n : f[m] = F(m)
    BY <2>1
  <2> QED BY <2>2 DEF F
<1>5. Buckets!NumBits(n) = f[n]
  BY DEF Buckets!NumBits
<1> HIDE DEF f, Is
<1> DEFINE S == { k \in 0 .. n : \A m \in 0 .. k : f[m] \in Nat }
<1>6. 0 \in S
  BY <1>4
<1>7. ASSUME NEW k \in 0 .. n - 1, k \in S PROVE k + 1 \in S
  <2>1. (k + 1) \div 2 \in 0 .. k /\ k + 1 \in 0 .. n /\ k + 1 # 0
    BY HalfOf
  <2>2. \A m \in 0 .. k : f[m] \in Nat
    BY <1>7
  <2>3. f[k + 1] = f[(k + 1) \div 2] + 1
    BY <1>4, <2>1
  <2>4. f[k + 1] \in Nat
    BY <2>1, <2>2, <2>3
  <2>5. \A m \in 0 .. k + 1 : m \in 0 .. k \/ m = k + 1
    OBVIOUS
  <2> QED BY <2>1, <2>2, <2>4, <2>5
<1>8. \A k \in 0 .. n : k \in S
  <2> HIDE DEF S
  <2> QED BY <1>6, <1>7, IntervalInduction
<1>9. \A m \in 0 .. n : f[m] \in Nat
  BY <1>8
<1>10. Halving(f, n)
  <2>1. f \in [0 .. n -> Nat]
    BY <1>4, <1>9
  <2> QED BY <1>4, <2>1 DEF Halving
<1> QED BY <1>5, <1>10

(* A page with n buckets' room has fewer levels than n has bits, and so it  *)
(* has that much room for them: 2^levels - 1 buckets.                      *)
LEMMA RoomForLevels ==
  ASSUME NEW n \in Nat, n >= 2
  PROVE  /\ Buckets!NumBits(n) - 1 \in Nat \ {0}
         /\ \A e \in 0 .. Levels : e <= Buckets!NumBits(n) - 1 => Buckets!TwoToThe[e] <= n
<1>1. PICK f : Halving(f, n) /\ Buckets!NumBits(n) = f[n]
  BY NumBitsIs
<1> DEFINE Room(m) == \A e \in 0 .. Levels : e < f[m] => Buckets!TwoToThe[e] <= m
           S == { k \in 0 .. n : \A m \in 1 .. k : Room(m) }
<1>2. 0 \in S
  OBVIOUS
<1>3. ASSUME NEW k \in 0 .. n - 1, k \in S PROVE k + 1 \in S
  <2> DEFINE h == (k + 1) \div 2
  <2>1. h \in 0 .. k /\ 2 * h <= k + 1 /\ k + 1 \in 1 .. n
    BY HalfOf
  <2>2. f[k + 1] = f[h] + 1 /\ f[h] \in Nat /\ f[0] = 0
    <3>1. h \in 0 .. n
      BY <2>1
    <3> QED BY <1>1, <2>1, <3>1 DEF Halving
  <2> HIDE DEF h
  <2>3. ASSUME NEW e \in 0 .. Levels, e < f[k + 1] PROVE Buckets!TwoToThe[e] <= k + 1
    <3>1. CASE e = 0
      BY <2>1, <3>1, BucketsTwoToTheFacts
    <3>2. CASE e # 0
      <4>1. e - 1 \in 0 .. Levels /\ e \in 1 .. Levels /\ e - 1 < f[h]
        BY <2>2, <2>3, <3>2, LevelsFacts
      <4>2. h # 0
        BY <2>2, <4>1
      <4>3. Room(h)
        <5>1. h \in 1 .. k
          BY <2>1, <4>2
        <5> QED BY <1>3, <5>1
      <4>4. Buckets!TwoToThe[e - 1] <= h
        BY <4>1, <4>3
      <4>5. Buckets!TwoToThe[e] = 2 * Buckets!TwoToThe[e - 1] /\ Buckets!TwoToThe[e - 1] \in Nat
        BY <4>1, BucketsTwoToTheFacts
      <4> QED BY <2>1, <4>4, <4>5
    <3> QED BY <3>1, <3>2
  <2>4. \A m \in 1 .. k + 1 : m \in 1 .. k \/ m = k + 1
    OBVIOUS
  <2>5. \A m \in 1 .. k : Room(m)
    BY <1>3
  <2>6. Room(k + 1)
    BY <2>3
  <2> HIDE DEF Room
  <2> QED BY <2>1, <2>4, <2>5, <2>6
<1>4. n \in S
  <2> HIDE DEF S
  <2> QED BY <1>2, <1>3, IntervalInduction
<1>5. f[n] \in Nat /\ f[n] >= 2
  <2> DEFINE h == n \div 2
  <2>1. h \in 1 .. n /\ h \in Nat /\ h # 0 /\ h \div 2 \in 0 .. n
    <3>1. h \in 1 .. n
      BY HalfOf
    <3>2. h \div 2 \in 0 .. h - 1
      BY <3>1, HalfOf
    <3> HIDE DEF h
    <3> QED BY <3>1, <3>2
  <2>2. f[n] = f[h] + 1
    BY <1>1 DEF Halving
  <2> HIDE DEF h
  <2>3. f[h] = f[h \div 2] + 1 /\ f[h \div 2] \in Nat
    BY <1>1, <2>1 DEF Halving
  <2> QED BY <2>2, <2>3
<1>6. Room(n)
  BY <1>4
<1>7. ASSUME NEW e \in 0 .. Levels, e <= Buckets!NumBits(n) - 1 PROVE Buckets!TwoToThe[e] <= n
  <2>1. e < f[n]
    BY <1>1, <1>5, <1>7
  <2> QED BY <1>6, <2>1
<1> QED BY <1>1, <1>5, <1>7

LEMMA ProductMonotone ==
  ASSUME NEW a \in Nat, NEW b \in Nat, NEW n \in Nat, a <= b
  PROVE  a * n \in Nat /\ b * n \in Nat /\ a * n <= b * n
<1> DEFINE d == b - a
           x == a * n
           y == d * n
<1>1. d \in Nat /\ b = a + d
  OBVIOUS
<1> HIDE DEF d
<1>2. x \in Nat /\ y \in Nat
  BY <1>1
<1>3. b * n = x + y
  BY <1>1
<1> HIDE DEF x, y
<1>4. b * n \in Nat /\ x <= b * n
  BY <1>2, <1>3
<1> QED BY <1>2, <1>4 DEF x

LEMMA ProductNext ==
  ASSUME NEW a \in Nat, NEW n \in Nat
  PROVE  (a + 1) * n = a * n + n /\ a * n \in Nat
OBVIOUS

(* The sizes of the buckets and of a page.                                 *)
LEMMA SizesAre ==
  ASSUME Buckets!Parameters, NEW kind \in Buckets!Kind
  PROVE  /\ Buckets!BucketSize(kind) \in Nat \ {0} /\ MemoryPageSize \in Nat \ {0}
         /\ Levels \in Nat /\ Levels >= 2
         /\ LayoutType \in {"BasicHeapLayout", "TwoLevelHeapLayout"}
         /\ LayoutType = "TwoLevelHeapLayout" => MemoryPageSize >= 2 * Buckets!BucketSize(kind)
BY LevelsFacts DEF Buckets!Parameters, Buckets!BucketSize, Buckets!Kind

(* A page of the two-level layout has a level, and room for its levels.    *)
LEMMA PagesHaveRoom ==
  ASSUME Buckets!Parameters, LayoutType = "TwoLevelHeapLayout", NEW kind \in Buckets!Kind
  PROVE  /\ Buckets!LevelsPerPage(kind) \in Nat \ {0}
         /\ \A e \in 0 .. Levels : e <= Buckets!LevelsPerPage(kind)
                                    => Buckets!TwoToThe[e] * Buckets!BucketSize(kind) <= MemoryPageSize
<1> DEFINE B == Buckets!BucketSize(kind)
           q == MemoryPageSize \div B
<1>1. B \in Nat \ {0} /\ MemoryPageSize \in Nat /\ MemoryPageSize >= 2 * B
  BY SizesAre
<1> HIDE DEF B
<1>2. MemoryPageSize = B * q + (MemoryPageSize % B) /\ MemoryPageSize % B \in 0 .. B - 1
        /\ q \in Nat
  BY <1>1, QuotientFacts
<1>3. q >= 2
  <2> HIDE DEF q
  <2>1. SUFFICES ASSUME q \in 0 .. 1 PROVE FALSE
    BY <1>2
  <2>2. B * q <= B
    BY <1>1, <2>1
  <2> DEFINE x == B * q
             r == MemoryPageSize % B
  <2>3. x \in Nat /\ MemoryPageSize = x + r /\ r < B /\ x <= B /\ r \in Nat
    BY <1>1, <1>2, <2>2
  <2> HIDE DEF x, r
  <2> QED BY <1>1, <2>3
<1>4. /\ Buckets!NumBits(q) - 1 \in Nat \ {0}
      /\ \A e \in 0 .. Levels : e <= Buckets!NumBits(q) - 1 => Buckets!TwoToThe[e] <= q
  <2> HIDE DEF q
  <2> QED BY <1>2, <1>3, RoomForLevels
<1>5. Buckets!LevelsPerPage(kind) = Buckets!NumBits(q) - 1
  BY DEF Buckets!LevelsPerPage, B
<1> HIDE DEF q
<1>6. ASSUME NEW e \in 0 .. Levels, e <= Buckets!LevelsPerPage(kind)
      PROVE  Buckets!TwoToThe[e] * B <= MemoryPageSize
  <2> DEFINE t == Buckets!TwoToThe[e]
  <2>1. t \in Nat /\ t <= q
    BY <1>4, <1>5, <1>6, BucketsTwoToTheFacts
  <2> HIDE DEF t
  <2>2. t * B <= q * B /\ t * B \in Nat
    BY <1>1, <1>2, <2>1, ProductMonotone
  <2> DEFINE x == B * q
             r == MemoryPageSize % B
             y == t * B
  <2>3. y \in Nat /\ x \in Nat /\ r \in Nat /\ MemoryPageSize = x + r /\ y <= x
    BY <1>1, <1>2, <2>2
  <2> HIDE DEF x, y, r
  <2>4. y <= MemoryPageSize
    BY <1>1, <2>3
  <2> QED BY <2>4 DEF y, t
<1> QED BY <1>4, <1>5, <1>6 DEF B

(* How many levels the pages of a page level have.                         *)
LevelsOfPage(kind, k) == IF k = 0
  THEN Buckets!FirstPageLevels(kind) ELSE Buckets!LevelsPerPage(kind)

(* The pages divide the levels: they begin with the root, each page level   *)
(* begins where the one above ends, and the last one ends with the leaves. *)
LEMMA PageLevelsDivide ==
  ASSUME Buckets!Parameters, LayoutType = "TwoLevelHeapLayout", NEW kind \in Buckets!Kind
  PROVE  /\ Buckets!FirstPageLevels(kind) \in 1 .. Buckets!LevelsPerPage(kind)
         /\ Buckets!NumPageLevels(kind) \in Nat \ {0}
         /\ Buckets!TopLevelOf(kind, 0) = 0
         /\ Buckets!TopLevelOf(kind, Buckets!NumPageLevels(kind)) = Levels
         /\ \A k \in 0 .. Buckets!NumPageLevels(kind) - 1 :
              Buckets!TopLevelOf(kind, k + 1) = Buckets!TopLevelOf(kind, k) + LevelsOfPage(kind, k)
         /\ \A k \in 0 .. Buckets!NumPageLevels(kind) : Buckets!TopLevelOf(kind, k) \in 0 .. Levels
<1> DEFINE n == Buckets!LevelsPerPage(kind)
           first == Buckets!FirstPageLevels(kind)
           N == Buckets!NumPageLevels(kind)
           y == Levels \div n
           z == Levels % n
<1>1. n \in Nat \ {0} /\ Levels \in Nat /\ Levels >= 2
  BY PagesHaveRoom, LevelsFacts
<1>2. Levels = n * y + z /\ z \in 0 .. n - 1 /\ y \in Nat
  BY <1>1, QuotientFacts
<1>3. first = IF z = 0 THEN n ELSE z
  BY DEF Buckets!FirstPageLevels
<1>4. N = (Levels + n - 1) \div n
  BY DEF Buckets!NumPageLevels
<1> HIDE DEF n, first, N, y, z
<1> DEFINE m == n * y
<1>5. m \in Nat /\ Levels = m + z
  BY <1>1, <1>2
<1>6. N \in Nat \ {0} /\ first + (N - 1) * n = Levels /\ first \in 1 .. n
  <2>1. CASE z = 0
    <3>1. y # 0
      BY <1>1, <1>2, <2>1
    <3>2. (n * y + (n - 1)) \div n = y
      <4>1. n - 1 \in 0 .. n - 1
        BY <1>1
      <4> QED BY <1>1, <1>2, <4>1, QuotientUnique
    <3>3. Levels + n - 1 = m + (n - 1)
      <4> HIDE DEF m
      <4> QED BY <1>1, <1>2, <1>5, <2>1
    <3>4. N = y
      BY <1>4, <3>2, <3>3
    <3>5. (y - 1) * n + n = m
      <4>1. y - 1 \in Nat /\ (y - 1) + 1 = y
        BY <1>2, <3>1
      <4>2. ((y - 1) + 1) * n = (y - 1) * n + n
        BY <1>1, <4>1, ProductNext
      <4>3. y * n = n * y
        BY <1>1, <1>2
      <4> QED BY <4>1, <4>2, <4>3
    <3>6. (y - 1) * n \in Int
      BY <1>1, <1>2
    <3> DEFINE w == (y - 1) * n
    <3> HIDE DEF w, m
    <3>7. n + w = Levels
      BY <1>1, <1>5, <2>1, <3>5, <3>6 DEF w
    <3> QED BY <1>1, <1>2, <1>3, <2>1, <3>1, <3>4, <3>7 DEF w
  <2>2. CASE z # 0
    <3>1. (n * (y + 1) + (z - 1)) \div n = y + 1
      <4>1. z - 1 \in 0 .. n - 1 /\ y + 1 \in Int
        BY <1>1, <1>2, <2>2
      <4> QED BY <1>1, <4>1, QuotientUnique
    <3>2. n * (y + 1) = m + n
      BY <1>1, <1>2
    <3>3. Levels + n - 1 = (m + n) + (z - 1)
      <4> HIDE DEF m
      <4> QED BY <1>1, <1>2, <1>5
    <3>4. N = y + 1
      BY <1>4, <3>1, <3>2, <3>3
    <3>5. (N - 1) * n = m
      <4>1. N - 1 = y /\ y * n = n * y
        BY <1>1, <1>2, <3>4
      <4> QED BY <4>1
    <3> HIDE DEF m
    <3> QED BY <1>1, <1>2, <1>3, <1>5, <2>2, <3>4, <3>5
  <2> QED BY <2>1, <2>2
<1>7. \A k \in Nat : Buckets!TopLevelOf(kind, k) = IF k = 0 THEN 0 ELSE first + (k - 1) * n
  BY DEF Buckets!TopLevelOf, first, n
<1>8. Buckets!TopLevelOf(kind, 0) = 0 /\ Buckets!TopLevelOf(kind, N) = Levels
  BY <1>6, <1>7
<1>9. ASSUME NEW k \in 0 .. N - 1
      PROVE  Buckets!TopLevelOf(kind, k + 1) = Buckets!TopLevelOf(kind, k) + LevelsOfPage(kind, k)
  <2>1. k \in Nat /\ k + 1 \in Nat /\ k + 1 # 0 /\ (k + 1) - 1 = k
    BY <1>6
  <2>2. Buckets!TopLevelOf(kind, k + 1) = first + k * n
    BY <1>7, <2>1
  <2>3. CASE k = 0
    <3>1. k * n = 0 /\ first \in Nat
      BY <1>1, <1>6, <2>3
    <3> QED BY <1>8, <2>2, <2>3, <3>1 DEF LevelsOfPage, first
  <2>4. CASE k # 0
    <3>1. k - 1 \in Nat /\ (k - 1) + 1 = k
      BY <2>1, <2>4
    <3>2. k * n = (k - 1) * n + n /\ (k - 1) * n \in Nat
      <4>1. ((k - 1) + 1) * n = (k - 1) * n + n /\ (k - 1) * n \in Nat
        BY <1>1, <3>1, ProductNext
      <4> QED BY <3>1, <4>1
    <3>3. Buckets!TopLevelOf(kind, k) = first + (k - 1) * n
      BY <1>7, <2>1, <2>4
    <3> DEFINE w == (k - 1) * n
    <3> HIDE DEF w
    <3>4. first + (w + n) = (first + w) + n
      BY <1>1, <1>6, <3>2 DEF w
    <3> QED BY <2>2, <2>4, <3>2, <3>3, <3>4 DEF LevelsOfPage, n, w
  <2> QED BY <2>3, <2>4
<1>10. ASSUME NEW k \in 0 .. N PROVE Buckets!TopLevelOf(kind, k) \in 0 .. Levels
  <2>1. CASE k = 0
    BY <1>1, <1>8, <2>1
  <2>2. CASE k # 0
    <3>1. k - 1 \in Nat /\ N - 1 \in Nat /\ k - 1 <= N - 1 /\ k \in Nat
      BY <1>6, <2>2
    <3>2. (k - 1) * n <= (N - 1) * n /\ (k - 1) * n \in Nat /\ (N - 1) * n \in Nat
      BY <1>1, <3>1, ProductMonotone
    <3>3. Buckets!TopLevelOf(kind, k) = first + (k - 1) * n
      BY <1>7, <2>2, <3>1
    <3> DEFINE v == (k - 1) * n
               w == (N - 1) * n
    <3> HIDE DEF v, w
    <3>4. first + v \in 0 .. Levels
      BY <1>1, <1>6, <3>2 DEF v, w
    <3> QED BY <3>3, <3>4 DEF v
  <2> QED BY <2>1, <2>2
<1> QED BY <1>6, <1>8, <1>9, <1>10 DEF first, n, N

(* A function that grows from each index to the next grows from each to     *)
(* every later one.                                                        *)
LEMMA Grows ==
  ASSUME NEW n \in Nat, NEW f, \A k \in 0 .. n : f[k] \in Nat,
         \A k \in 0 .. n - 1 : f[k] <= f[k + 1]
  PROVE  \A i, j \in 0 .. n : i <= j => f[i] <= f[j]
<1>1. ASSUME NEW i \in 0 .. n PROVE \A j \in 0 .. n : i <= j => f[i] <= f[j]
  <2> DEFINE S == { j \in 0 .. n : i <= j => f[i] <= f[j] }
  <2>1. 0 \in S
    OBVIOUS
  <2>2. ASSUME NEW j \in 0 .. n - 1, j \in S PROVE j + 1 \in S
    <3>1. j \in 0 .. n /\ j + 1 \in 0 .. n /\ f[j] \in Nat /\ f[j + 1] \in Nat /\ f[j] <= f[j + 1]
      OBVIOUS
    <3>2. CASE i <= j
      <4>1. f[i] <= f[j] /\ f[i] \in Nat
        BY <2>2, <3>2
      <4> QED BY <3>1, <4>1
    <3>3. CASE i = j + 1
      BY <3>1, <3>3
    <3>4. CASE i > j + 1
      BY <3>1, <3>4
    <3> QED BY <3>1, <3>2, <3>3, <3>4
  <2>3. \A j \in 0 .. n : j \in S
    <3> HIDE DEF S
    <3> QED BY <2>1, <2>2, IntervalInduction
  <2> QED BY <2>3
<1> QED BY <1>1

(* The page level that holds a level of the tree.                          *)
PageLevelAt(kind, l) ==
  IF l < Buckets!FirstPageLevels(kind) THEN 0
  ELSE (l - Buckets!FirstPageLevels(kind)) \div Buckets!LevelsPerPage(kind) + 1

Within(kind, k, l) == Buckets!TopLevelOf(kind, k) <= l /\ l < Buckets!TopLevelOf(kind, k + 1)

LEMMA PageLevelUnique ==
  ASSUME Buckets!Parameters, LayoutType = "TwoLevelHeapLayout", NEW kind \in Buckets!Kind,
           NEW l \in Buckets!Level,
         NEW i, NEW j, i \in 0 .. Buckets!NumPageLevels(kind) - 1,
           j \in 0 .. Buckets!NumPageLevels(kind) - 1,
         Within(kind, i, l), Within(kind, j, l)
  PROVE  i = j
<1> DEFINE N == Buckets!NumPageLevels(kind)
           top == [k \in 0 .. N |-> Buckets!TopLevelOf(kind, k)]
<1>1. /\ N \in Nat \ {0}
      /\ \A k \in 0 .. N - 1 : Buckets!TopLevelOf(kind, k + 1)
           = Buckets!TopLevelOf(kind, k) + LevelsOfPage(kind, k)
      /\ \A k \in 0 .. N : Buckets!TopLevelOf(kind, k) \in 0 .. Levels
      /\ \A k \in 0 .. N : LevelsOfPage(kind, k) \in Nat
  <2>1. Buckets!FirstPageLevels(kind) \in Nat /\ Buckets!LevelsPerPage(kind) \in Nat
    BY PageLevelsDivide, PagesHaveRoom
  <2> QED BY <2>1, PageLevelsDivide DEF LevelsOfPage
<1> HIDE DEF N
<1>2. \A k \in 0 .. N : top[k] \in Nat /\ top[k] = Buckets!TopLevelOf(kind, k)
  BY <1>1, LevelsFacts
<1>3. \A k \in 0 .. N - 1 : top[k] <= top[k + 1]
  <2>1. ASSUME NEW k \in 0 .. N - 1 PROVE top[k] <= top[k + 1]
    <3>1. k \in 0 .. N /\ k + 1 \in 0 .. N
      BY <1>1
    <3>2. top[k + 1] = top[k] + LevelsOfPage(kind, k) /\ LevelsOfPage(kind, k) \in Nat
            /\ top[k] \in Nat
      BY <1>1, <1>2, <3>1
    <3> HIDE DEF top
    <3> QED BY <3>2
  <2> QED BY <2>1
<1> HIDE DEF top
<1>4. \A a, b \in 0 .. N : a <= b => top[a] <= top[b]
  BY <1>1, <1>2, <1>3, Grows
<1>5. i \in 0 .. N /\ j \in 0 .. N /\ i + 1 \in 0 .. N /\ j + 1 \in 0 .. N /\ l \in Nat
  BY <1>1 DEF N, Buckets!Level
<1>6. top[i] <= l /\ l < top[i + 1] /\ top[j] <= l /\ l < top[j + 1]
  BY <1>2, <1>5 DEF Within
<1>7. ~(i + 1 <= j)
  <2>1. SUFFICES ASSUME i + 1 <= j PROVE FALSE
    OBVIOUS
  <2>2. top[i + 1] <= top[j] /\ top[i + 1] \in Nat /\ top[j] \in Nat
    BY <1>2, <1>4, <1>5, <2>1
  <2> QED BY <1>5, <1>6, <2>2
<1>8. ~(j + 1 <= i)
  <2>1. SUFFICES ASSUME j + 1 <= i PROVE FALSE
    OBVIOUS
  <2>2. top[j + 1] <= top[i] /\ top[j + 1] \in Nat /\ top[i] \in Nat
    BY <1>2, <1>4, <1>5, <2>1
  <2> QED BY <1>5, <1>6, <2>2
<1>9. i \in Int /\ j \in Int
  BY <1>5
<1> QED BY <1>7, <1>8, <1>9

LEMMA PageLevelOfLevel ==
  ASSUME Buckets!Parameters, LayoutType = "TwoLevelHeapLayout", NEW kind \in Buckets!Kind,
           NEW l \in Buckets!Level
  PROVE  /\ PageLevelAt(kind, l) \in 0 .. Buckets!NumPageLevels(kind) - 1
         /\ Within(kind, PageLevelAt(kind, l), l)
<1> DEFINE n == Buckets!LevelsPerPage(kind)
           first == Buckets!FirstPageLevels(kind)
           N == Buckets!NumPageLevels(kind)
           e == l - first
           q == e \div n
           k == q + 1
<1>1. /\ n \in Nat \ {0} /\ first \in 1 .. n /\ N \in Nat \ {0} /\ Levels \in Nat /\ l \in Nat
           /\ l < Levels
      /\ Buckets!TopLevelOf(kind, 0) = 0 /\ Buckets!TopLevelOf(kind, N) = Levels
  BY PagesHaveRoom, PageLevelsDivide, LevelsFacts DEF Buckets!Level
<1>2. \A i \in Nat : Buckets!TopLevelOf(kind, i) = IF i = 0 THEN 0 ELSE first + (i - 1) * n
  BY DEF Buckets!TopLevelOf
<1> HIDE DEF n, first, N
<1>3. CASE l < first
  <2>1. PageLevelAt(kind, l) = 0
    BY <1>3 DEF PageLevelAt, first
  <2>2. 0 * n = 0 /\ first + 0 = first
    BY <1>1
  <2>3. Buckets!TopLevelOf(kind, 0 + 1) = first
    BY <1>2, <2>2
  <2> QED BY <1>1, <1>3, <2>1, <2>3 DEF Within, N
<1>4. CASE ~(l < first)
  <2>1. e \in Nat /\ l = first + e
    BY <1>1, <1>4
  <2> HIDE DEF e
  <2>2. e = n * q + (e % n) /\ e % n \in 0 .. n - 1 /\ q \in Nat
    BY <1>1, <2>1, QuotientFacts
  <2>3. PageLevelAt(kind, l) = k
    BY <1>4 DEF PageLevelAt, first, n, e
  <2> HIDE DEF q
  <2>4. q * n = n * q /\ (q + 1) * n = q * n + n /\ q * n \in Nat
    BY <1>1, <2>2, ProductNext
  <2> DEFINE w == q * n
  <2>5. Buckets!TopLevelOf(kind, k) = first + w /\ Buckets!TopLevelOf(kind, k + 1) = first + (w + n)
    <3>1. k \in Nat /\ k # 0 /\ k - 1 = q /\ k + 1 \in Nat /\ k + 1 # 0 /\ (k + 1) - 1 = q + 1
      BY <2>2
    <3> HIDE DEF k
    <3> QED BY <1>2, <2>4, <3>1
  <2>6. w \in Nat /\ w = n * q
    BY <2>4
  <2>7. first + w <= l /\ l < first + (w + n)
    <3> DEFINE r == e % n
               v == n * q
    <3>1. e = v + r /\ r \in 0 .. n - 1 /\ w = v /\ v \in Nat
      BY <2>2, <2>6
    <3> HIDE DEF r, v, w
    <3> QED BY <1>1, <2>1, <3>1
  <2>8. k < N
    <3>1. SUFFICES ASSUME N <= k PROVE FALSE
      BY <1>1, <2>2
    <3>2. N - 1 \in Nat /\ N - 1 <= q
      BY <1>1, <2>2, <3>1
    <3>3. (N - 1) * n <= w /\ (N - 1) * n \in Nat
      BY <1>1, <2>2, <3>2, ProductMonotone
    <3>4. Levels = first + (N - 1) * n
      BY <1>1, <1>2
    <3> DEFINE v == (N - 1) * n
    <3> HIDE DEF v, w
    <3>5. Levels <= first + w
      BY <1>1, <2>6, <3>3, <3>4 DEF v
    <3> QED BY <1>1, <2>6, <2>7, <3>5
  <2>9. k \in 0 .. N - 1
    BY <1>1, <2>2, <2>8
  <2> HIDE DEF k, w
  <2> QED BY <2>3, <2>5, <2>7, <2>9 DEF Within, N
<1> QED BY <1>3, <1>4

-----------------------------------------------------------------------------
(* page_level_offsets: each page level begins behind the pages of those     *)
(* above it.                                                               *)
LEMMA PageLevelOffsets ==
  ASSUME Buckets!Parameters, LayoutType = "TwoLevelHeapLayout", NEW kind \in Buckets!Kind
  PROVE  /\ \A k \in 0 .. Buckets!NumPageLevels(kind) : Buckets!PageLevelOffset(kind, k) \in Nat
         /\ Buckets!PageLevelOffset(kind, 0) = 0
         /\ \A k \in 0 .. Buckets!NumPageLevels(kind) - 1 :
              Buckets!PageLevelOffset(kind, k + 1)
                = Buckets!PageLevelOffset(kind, k)
                  + Buckets!TwoToThe[Buckets!TopLevelOf(kind, k)] * MemoryPageSize
<1> DEFINE N == Buckets!NumPageLevels(kind)
           room(k) == Buckets!TwoToThe[Buckets!TopLevelOf(kind, k)] * MemoryPageSize
           step == [p \in (1 .. N) \X Nat |-> p[2] + room(p[1] - 1)]
<1>1. N \in Nat \ {0} /\ MemoryPageSize \in Nat
  BY PageLevelsDivide, SizesAre
<1>2. \A k \in 0 .. N : room(k) \in Nat
  <2>1. ASSUME NEW k \in 0 .. N PROVE room(k) \in Nat
    <3>1. Buckets!TwoToThe[Buckets!TopLevelOf(kind, k)] \in Nat
      BY PageLevelsDivide, BucketsTwoToTheFacts
    <3> QED BY <1>1, <3>1
  <2> QED BY <2>1
<1> HIDE DEF N, room
<1>3. step \in [(1 .. N) \X Nat -> Nat]
  <2>1. ASSUME NEW k \in 1 .. N, NEW x \in Nat PROVE x + room(k - 1) \in Nat
    <3>1. k - 1 \in 0 .. N
      BY <1>1
    <3>2. room(k - 1) \in Nat
      BY <1>2, <3>1
    <3> QED BY <3>2
  <2> QED BY <2>1
<1>4. \A k \in 1 .. N, x \in Nat : step[<<k, x>>] = x + room(k - 1)
  OBVIOUS
<1>5. PICK g \in [0 .. N -> Nat] : Recursive(g, N, 0, step)
  <2>1. 0 \in Nat
    OBVIOUS
  <2> HIDE DEF step
  <2> QED BY <1>1, <1>3, <2>1, RecursiveFunctionExists
<1>6. \A k \in 0 .. N : g[k] = IF k = 0 THEN 0 ELSE g[k - 1] + room(k - 1)
  <2>1. \A k \in 0 .. N : k # 0 => g[k - 1] \in Nat /\ k \in 1 .. N
    BY <1>1
  <2> HIDE DEF step
  <2> QED BY <1>4, <1>5, <2>1 DEF Recursive
<1> DEFINE Is(h) == h = [k \in 0 .. N |-> IF k = 0 THEN 0 ELSE h[k - 1] + room(k - 1)]
           f == CHOOSE h : Is(h)
<1>7. Is(g)
  <2> DEFINE F(k) == IF k = 0 THEN 0 ELSE g[k - 1] + room(k - 1)
  <2>1. g = [k \in 0 .. N |-> g[k]] /\ \A k \in 0 .. N : g[k] = F(k)
    BY <1>6
  <2> HIDE DEF F
  <2>2. g = [k \in 0 .. N |-> F(k)]
    BY <2>1
  <2> QED BY <2>2 DEF F
<1>8. Is(f)
  <2> HIDE DEF Is
  <2> QED BY <1>7
<1>9. \A k \in 0 .. N : f[k] = IF k = 0 THEN 0 ELSE f[k - 1] + room(k - 1)
  <2> DEFINE F(k) == IF k = 0 THEN 0 ELSE f[k - 1] + room(k - 1)
  <2>1. f = [k \in 0 .. N |-> F(k)]
    BY <1>8
  <2> HIDE DEF F, f
  <2>2. \A k \in 0 .. N : f[k] = F(k)
    BY <2>1
  <2> QED BY <2>2 DEF F
<1>10. \A k \in 0 .. N : Buckets!PageLevelOffset(kind, k) = f[k]
  BY DEF Buckets!PageLevelOffset, Buckets!PageCount, room, N
<1> HIDE DEF f, Is
<1> DEFINE S == { k \in 0 .. N : f[k] \in Nat }
<1>11. 0 \in S
  BY <1>1, <1>9
<1>12. \A k \in 0 .. N - 1 : f[k + 1] = f[k] + room(k) /\ k \in 0 .. N /\ k + 1 \in 0 .. N
  <2>1. ASSUME NEW k \in 0 .. N - 1
        PROVE  f[k + 1] = f[k] + room(k) /\ k \in 0 .. N /\ k + 1 \in 0 .. N
    <3>1. k + 1 \in 0 .. N /\ k + 1 # 0 /\ (k + 1) - 1 = k /\ k \in 0 .. N
      BY <1>1
    <3> QED BY <1>9, <3>1
  <2> QED BY <2>1
<1>13. ASSUME NEW k \in 0 .. N - 1, k \in S PROVE k + 1 \in S
  <2>1. f[k] \in Nat /\ room(k) \in Nat
    BY <1>2, <1>12, <1>13
  <2> QED BY <1>12, <2>1
<1>14. \A k \in 0 .. N : k \in S
  <2> HIDE DEF S
  <2> QED BY <1>1, <1>11, <1>13, IntervalInduction
<1>15. f[0] = 0 /\ 0 \in 0 .. N
  BY <1>1, <1>9
<1> QED BY <1>10, <1>12, <1>14, <1>15 DEF room, N

LEMMA BucketPowersGrow ==
  ASSUME NEW a, NEW b, a \in 0 .. Levels, b \in 0 .. Levels, a <= b
  PROVE  Buckets!TwoToThe[a] <= Buckets!TwoToThe[b] /\ Buckets!TwoToThe[a] \in Nat \ {0}
           /\ Buckets!TwoToThe[b] \in Nat \ {0}
<1>1. \A k \in 0 .. Levels : Buckets!TwoToThe[k] \in Nat
  BY BucketsTwoToTheFacts
<1>2. \A k \in 0 .. Levels - 1 : Buckets!TwoToThe[k] <= Buckets!TwoToThe[k + 1]
  <2>1. ASSUME NEW k \in 0 .. Levels - 1 PROVE Buckets!TwoToThe[k] <= Buckets!TwoToThe[k + 1]
    BY BucketsPowerStep
  <2> QED BY <2>1
<1>3. \A i, j \in 0 .. Levels : i <= j => Buckets!TwoToThe[i] <= Buckets!TwoToThe[j]
  BY <1>1, <1>2, Grows, LevelsFacts
<1> QED BY <1>3, BucketsTwoToTheFacts

(* heap_get_index() puts the levels one behind the other.                  *)
LEMMA HeapIndexBounds ==
  ASSUME NEW l, l \in 0 .. Levels - 1, NEW i, i \in 0 .. Buckets!TwoToThe[l] - 1
  PROVE  /\ Buckets!HeapIndex(l, i) \in Nat /\ Buckets!TwoToThe[l] - 1 <= Buckets!HeapIndex(l, i)
         /\ Buckets!HeapIndex(l, i) + 1 < Buckets!TwoToThe[l + 1]
<1>1. Buckets!TwoToThe[l] \in Nat \ {0} /\ Buckets!TwoToThe[l + 1] = 2 * Buckets!TwoToThe[l]
  BY BucketsPowerStep
<1> QED BY <1>1 DEF Buckets!HeapIndex

LEMMA HeapIndexUnique ==
  ASSUME NEW l, l \in 0 .. Levels - 1, NEW i, i \in 0 .. Buckets!TwoToThe[l] - 1,
         NEW m, m \in 0 .. Levels - 1, NEW j, j \in 0 .. Buckets!TwoToThe[m] - 1,
         Buckets!HeapIndex(l, i) = Buckets!HeapIndex(m, j)
  PROVE  l = m /\ i = j
<1> DEFINE x == Buckets!HeapIndex(l, i)
           y == Buckets!HeapIndex(m, j)
<1>1. /\ x \in Nat /\ Buckets!TwoToThe[l] - 1 <= x /\ x + 1 < Buckets!TwoToThe[l + 1]
      /\ y \in Nat /\ Buckets!TwoToThe[m] - 1 <= y /\ y + 1 < Buckets!TwoToThe[m + 1]
  BY HeapIndexBounds
<1>2. x = y
  OBVIOUS
<1> HIDE DEF x, y
<1>3. l + 1 \in 0 .. Levels /\ m + 1 \in 0 .. Levels /\ l \in 0 .. Levels /\ m \in 0 .. Levels
  BY LevelsFacts
<1>4. ~(l + 1 <= m)
  <2>1. SUFFICES ASSUME l + 1 <= m PROVE FALSE
    OBVIOUS
  <2>2. Buckets!TwoToThe[l + 1] <= Buckets!TwoToThe[m] /\ Buckets!TwoToThe[l + 1] \in Nat
          /\ Buckets!TwoToThe[m] \in Nat
    BY <1>3, <2>1, BucketPowersGrow
  <2> QED BY <1>1, <1>2, <2>2
<1>5. ~(m + 1 <= l)
  <2>1. SUFFICES ASSUME m + 1 <= l PROVE FALSE
    OBVIOUS
  <2>2. Buckets!TwoToThe[m + 1] <= Buckets!TwoToThe[l] /\ Buckets!TwoToThe[m + 1] \in Nat
          /\ Buckets!TwoToThe[l] \in Nat
    BY <1>3, <2>1, BucketPowersGrow
  <2> QED BY <1>1, <1>2, <2>2
<1>6. l = m
  BY <1>3, <1>4, <1>5
<1>7. Buckets!TwoToThe[l] \in Nat
  BY <1>3, BucketsTwoToTheFacts
<1> QED BY <1>2, <1>6, <1>7 DEF x, y, Buckets!HeapIndex

-----------------------------------------------------------------------------
(* The bucket of a path at a level, by its offset in the level.            *)
PathIndex(p, l) == p \div Buckets!TwoToThe[Levels - 1 - l]

LEMMA IndexIs ==
  ASSUME NEW p \in Buckets!Path, NEW l, l \in Buckets!Level
  PROVE  /\ Buckets!BucketOn(p, l) = <<l, PathIndex(p, l)>>
         /\ PathIndex(p, l) \in 0 .. Buckets!TwoToThe[l] - 1
         /\ l \in 0 .. Levels - 1 /\ l \in Nat /\ Buckets!TwoToThe[l] \in Nat \ {0}
<1>1. l \in 0 .. Levels - 1 /\ l \in Nat /\ Levels - 1 - l \in Nat
        /\ (Levels - 1 - l) + l = Levels - 1
  BY LevelsFacts DEF Buckets!Level
<1>2. p \in 0 .. Buckets!TwoToThe[(Levels - 1 - l) + l] - 1
  BY <1>1, BucketsPathBound
<1>3. (Levels - 1 - l) + l <= Levels
  BY <1>1, LevelsFacts
<1>4. p \div Buckets!TwoToThe[Levels - 1 - l] \in 0 .. Buckets!TwoToThe[l] - 1
  BY <1>1, <1>2, <1>3, BucketsShiftedBound
<1>5. l \in 0 .. Levels
  BY <1>1, LevelsFacts
<1> QED BY <1>1, <1>4, <1>5, BucketsTwoToTheFacts DEF PathIndex, Buckets!BucketOn

(* The bucket above another one on a path.                                 *)
LEMMA IndexAbove ==
  ASSUME NEW p \in Buckets!Path, NEW l, l \in Buckets!Level, NEW t, t \in 0 .. l
  PROVE  /\ l - t \in 0 .. Levels - 1 /\ l - t \in Nat /\ t \in Buckets!Level
         /\ Buckets!TwoToThe[l - t] \in Nat \ {0}
         /\ PathIndex(p, l) \div Buckets!TwoToThe[l - t] = PathIndex(p, t)
         /\ PathIndex(p, l) % Buckets!TwoToThe[l - t] \in 0 .. Buckets!TwoToThe[l - t] - 1
         /\ PathIndex(p, l) = Buckets!TwoToThe[l - t] * PathIndex(p, t)
              + (PathIndex(p, l) % Buckets!TwoToThe[l - t])
<1> DEFINE d == l - t
           e == Levels - 1 - l
<1>1. /\ d \in Nat /\ e \in Nat /\ e + d = Levels - 1 - t /\ e + d <= Levels
      /\ d \in 0 .. Levels - 1 /\ d \in 0 .. Levels /\ e \in 0 .. Levels /\ t \in Buckets!Level
  BY LevelsFacts DEF Buckets!Level
<1> HIDE DEF d, e
<1>2. Buckets!TwoToThe[d] \in Nat \ {0} /\ Buckets!TwoToThe[e] \in Nat \ {0}
  BY <1>1, BucketsTwoToTheFacts
<1>3. Buckets!TwoToThe[e + d] = Buckets!TwoToThe[e] * Buckets!TwoToThe[d]
  BY <1>1, BucketsPowersAdd
<1>4. p \in Nat
  BY BucketsPathBound
<1>5. p \div (Buckets!TwoToThe[e] * Buckets!TwoToThe[d])
        = (p \div Buckets!TwoToThe[e]) \div Buckets!TwoToThe[d]
  BY <1>2, <1>4, NestedDivision
<1>6. PathIndex(p, l) \div Buckets!TwoToThe[d] = PathIndex(p, t)
  BY <1>1, <1>3, <1>5 DEF PathIndex, e
<1>7. PathIndex(p, l) \in Nat
  BY IndexIs
<1>8. /\ PathIndex(p, l) % Buckets!TwoToThe[d] \in 0 .. Buckets!TwoToThe[d] - 1
      /\ PathIndex(p, l) = Buckets!TwoToThe[d] * (PathIndex(p, l) \div Buckets!TwoToThe[d])
           + (PathIndex(p, l) % Buckets!TwoToThe[d])
  BY <1>2, <1>7, QuotientFacts
<1> QED BY <1>1, <1>2, <1>6, <1>8 DEF d

-----------------------------------------------------------------------------
(* Where a bucket is in the two-level layout: its page, and its index in    *)
(* the heap of that page.                                                  *)
TopAbove(kind, l) == Buckets!TopLevelOf(kind, PageLevelAt(kind, l))

Row(kind, p, l) ==
  Buckets!HeapIndex(l - TopAbove(kind, l),
    PathIndex(p, l) % Buckets!TwoToThe[l - TopAbove(kind, l)])

InPage(kind, p, l) ==
  Row(kind, p, l) * Buckets!BucketSize(kind) + PathIndex(p, TopAbove(kind, l)) * MemoryPageSize
  + Buckets!PageLevelOffset(kind, PageLevelAt(kind, l))

(* Where it is in its layout.                                              *)
InLayout(kind, p, l) ==
  IF LayoutType = "BasicHeapLayout"
    THEN Buckets!HeapIndex(l, PathIndex(p, l)) * Buckets!BucketSize(kind)
  ELSE InPage(kind, p, l)

LEMMA TopAboveLevel ==
  ASSUME Buckets!Parameters, LayoutType = "TwoLevelHeapLayout", NEW kind \in Buckets!Kind,
           NEW l, l \in Buckets!Level
  PROVE  LET k == PageLevelAt(kind, l)
         IN  /\ k \in 0 .. Buckets!NumPageLevels(kind) - 1 /\ k \in 0 .. Buckets!NumPageLevels(kind)
             /\ k + 1 \in 0 .. Buckets!NumPageLevels(kind)
                  /\ Buckets!NumPageLevels(kind) \in Nat \ {0}
             /\ TopAbove(kind, l) \in 0 .. l
             /\ l - TopAbove(kind, l) + 1 <= LevelsOfPage(kind, k)
             /\ LevelsOfPage(kind, k) <= Buckets!LevelsPerPage(kind)
             /\ LevelsOfPage(kind, k) \in 1 .. Buckets!LevelsPerPage(kind)
<1> DEFINE k == PageLevelAt(kind, l)
           N == Buckets!NumPageLevels(kind)
<1>1. k \in 0 .. N - 1 /\ Buckets!TopLevelOf(kind, k) <= l /\ l < Buckets!TopLevelOf(kind, k + 1)
  BY PageLevelOfLevel DEF Within
<1>2. N \in Nat \ {0}
  BY PageLevelsDivide
<1> HIDE DEF k, N
<1>3. k \in 0 .. N /\ k + 1 \in 0 .. N
  BY <1>1, <1>2
<1>4. /\ Buckets!TopLevelOf(kind, k) \in 0 .. Levels
      /\ Buckets!TopLevelOf(kind, k + 1) = Buckets!TopLevelOf(kind, k) + LevelsOfPage(kind, k)
  BY <1>1, <1>3, PageLevelsDivide DEF N
<1>5. LevelsOfPage(kind, k) \in 1 .. Buckets!LevelsPerPage(kind)
        /\ Buckets!LevelsPerPage(kind) \in Nat
  BY PageLevelsDivide, PagesHaveRoom DEF LevelsOfPage
<1>6. l \in Nat
  BY DEF Buckets!Level
<1> DEFINE t == Buckets!TopLevelOf(kind, k)
           w == LevelsOfPage(kind, k)
           u == Buckets!TopLevelOf(kind, k + 1)
<1>7. t \in 0 .. l /\ l - t + 1 <= w /\ w <= Buckets!LevelsPerPage(kind)
  <2>1. t \in Nat /\ t <= l /\ l < u /\ u = t + w /\ w \in 1 .. Buckets!LevelsPerPage(kind)
    BY <1>1, <1>4, <1>5, LevelsFacts
  <2> HIDE DEF t, u, w
  <2> QED BY <1>5, <1>6, <2>1
<1> QED BY <1>1, <1>2, <1>3, <1>5, <1>7 DEF k, N, TopAbove

LEMMA RowFits ==
  ASSUME Buckets!Parameters, LayoutType = "TwoLevelHeapLayout", NEW kind \in Buckets!Kind,
           NEW p \in Buckets!Path,
         NEW l, l \in Buckets!Level
  PROVE  /\ Row(kind, p, l) \in Nat
         /\ Row(kind, p, l) * Buckets!BucketSize(kind) \in Nat
         /\ Row(kind, p, l) * Buckets!BucketSize(kind) + Buckets!BucketSize(kind) <= MemoryPageSize
<1> DEFINE d == l - TopAbove(kind, l)
           i == PathIndex(p, l) % Buckets!TwoToThe[d]
           B == Buckets!BucketSize(kind)
           r == Buckets!HeapIndex(d, i)
<1>1. d \in 0 .. Levels - 1 /\ d \in Nat /\ i \in 0 .. Buckets!TwoToThe[d] - 1
  BY TopAboveLevel, IndexAbove
<1>2. d + 1 <= Buckets!LevelsPerPage(kind)
  <2>1. /\ l - TopAbove(kind, l) + 1 <= LevelsOfPage(kind, PageLevelAt(kind, l))
        /\ LevelsOfPage(kind, PageLevelAt(kind, l)) \in 1 .. Buckets!LevelsPerPage(kind)
        /\ Buckets!LevelsPerPage(kind) \in Nat
    BY TopAboveLevel, PagesHaveRoom
  <2> HIDE DEF d
  <2>2. d + 1 <= LevelsOfPage(kind, PageLevelAt(kind, l))
    BY <2>1 DEF d
  <2> DEFINE w == LevelsOfPage(kind, PageLevelAt(kind, l))
  <2>3. w \in 1 .. Buckets!LevelsPerPage(kind) /\ d + 1 <= w
    BY <2>1, <2>2
  <2> HIDE DEF w
  <2> QED BY <1>1, <2>1, <2>3
<1> HIDE DEF d, i, B
<1>3. r \in Nat /\ r + 1 < Buckets!TwoToThe[d + 1]
  BY <1>1, HeapIndexBounds
<1>4. d + 1 \in 0 .. Levels /\ B \in Nat \ {0} /\ MemoryPageSize \in Nat
  BY <1>1, LevelsFacts, SizesAre DEF B
<1>5. Buckets!TwoToThe[d + 1] * B <= MemoryPageSize /\ Buckets!TwoToThe[d + 1] \in Nat
  BY <1>2, <1>4, PagesHaveRoom, BucketsTwoToTheFacts DEF B
<1> HIDE DEF r
<1> DEFINE t == Buckets!TwoToThe[d + 1]
<1>6. r + 1 \in Nat /\ t \in Nat /\ r + 1 <= t
  BY <1>3, <1>5
<1> HIDE DEF t
<1>7. (r + 1) * B <= t * B /\ t * B \in Nat /\ (r + 1) * B = r * B + B /\ r * B \in Nat
  BY <1>3, <1>4, <1>6, ProductMonotone, ProductNext
<1> DEFINE x == r * B
           y == t * B
<1>8. x \in Nat /\ y \in Nat /\ x + B <= y /\ y <= MemoryPageSize
  BY <1>5, <1>7 DEF t
<1> HIDE DEF x, y
<1>9. x + B <= MemoryPageSize
  BY <1>4, <1>8
<1> QED BY <1>3, <1>7, <1>9 DEF x, B, r, d, i, Row

LEMMA OffsetsGrow ==
  ASSUME Buckets!Parameters, LayoutType = "TwoLevelHeapLayout", NEW kind \in Buckets!Kind,
         NEW i, NEW j, i \in 0 .. Buckets!NumPageLevels(kind),
           j \in 0 .. Buckets!NumPageLevels(kind), i <= j
  PROVE  /\ Buckets!PageLevelOffset(kind, i) <= Buckets!PageLevelOffset(kind, j)
         /\ Buckets!PageLevelOffset(kind, i) \in Nat /\ Buckets!PageLevelOffset(kind, j) \in Nat
<1> DEFINE N == Buckets!NumPageLevels(kind)
           f == [k \in 0 .. N |-> Buckets!PageLevelOffset(kind, k)]
<1>1. N \in Nat \ {0} /\ MemoryPageSize \in Nat
  BY PageLevelsDivide, SizesAre
<1>2. \A k \in 0 .. N : f[k] \in Nat /\ f[k] = Buckets!PageLevelOffset(kind, k)
  BY PageLevelOffsets
<1>3. ASSUME NEW k \in 0 .. N - 1 PROVE f[k] <= f[k + 1]
  <2>1. k \in 0 .. N /\ k + 1 \in 0 .. N
    BY <1>1
  <2>2. Buckets!PageLevelOffset(kind, k + 1)
          = Buckets!PageLevelOffset(kind, k)
            + Buckets!TwoToThe[Buckets!TopLevelOf(kind, k)] * MemoryPageSize
    BY PageLevelOffsets
  <2>3. Buckets!TwoToThe[Buckets!TopLevelOf(kind, k)] \in Nat
    BY <2>1, PageLevelsDivide, BucketsTwoToTheFacts
  <2> DEFINE x == Buckets!TwoToThe[Buckets!TopLevelOf(kind, k)] * MemoryPageSize
  <2>4. x \in Nat
    BY <1>1, <2>3
  <2>5. f[k + 1] = f[k] + x
    BY <1>2, <2>1, <2>2
  <2> HIDE DEF x, f
  <2> QED BY <1>2, <2>1, <2>4, <2>5
<1> HIDE DEF f, N
<1>4. \A a, b \in 0 .. N : a <= b => f[a] <= f[b]
  BY <1>1, <1>2, <1>3, Grows
<1> QED BY <1>2, <1>4 DEF N

(* A bucket of the two-level layout lies among the pages of its page level. *)
LEMMA InPageBounds ==
  ASSUME Buckets!Parameters, LayoutType = "TwoLevelHeapLayout", NEW kind \in Buckets!Kind,
           NEW p \in Buckets!Path,
         NEW l, l \in Buckets!Level
  PROVE  LET k == PageLevelAt(kind, l)
             g == PathIndex(p, TopAbove(kind, l))
         IN  /\ InPage(kind, p, l) \in Nat /\ g \in Nat
             /\ Buckets!PageLevelOffset(kind, k) \in Nat
             /\ Buckets!PageLevelOffset(kind, k) <= InPage(kind, p, l)
             /\ InPage(kind, p, l)
                  + Buckets!BucketSize(kind) <= Buckets!PageLevelOffset(kind, k + 1)
<1> DEFINE k == PageLevelAt(kind, l)
           t == TopAbove(kind, l)
           g == PathIndex(p, t)
           x == Row(kind, p, l) * Buckets!BucketSize(kind)
           B == Buckets!BucketSize(kind)
           T == Buckets!TwoToThe[t]
           start == Buckets!PageLevelOffset(kind, k)
<1>1. k \in 0 .. Buckets!NumPageLevels(kind) - 1 /\ k \in 0 .. Buckets!NumPageLevels(kind)
        /\ t \in 0 .. l
  BY TopAboveLevel
<1>2. t \in Buckets!Level
  BY <1>1, IndexAbove
<1>3. g \in 0 .. T - 1 /\ T \in Nat \ {0}
  BY <1>2, IndexIs
<1>4. x \in Nat /\ x + B <= MemoryPageSize /\ B \in Nat \ {0} /\ MemoryPageSize \in Nat \ {0}
  BY RowFits, SizesAre
<1>5. start \in Nat /\ Buckets!PageLevelOffset(kind, k + 1) = start + T * MemoryPageSize
  BY <1>1, PageLevelOffsets DEF TopAbove
<1>6. InPage(kind, p, l) = x + g * MemoryPageSize + start
  BY DEF InPage
<1> HIDE DEF x, T, start, g, B
<1>7. g + 1 \in Nat /\ g + 1 <= T /\ g \in Nat
  BY <1>3
<1>8. (g + 1) * MemoryPageSize <= T * MemoryPageSize /\ T * MemoryPageSize \in Nat
      /\ (g + 1) * MemoryPageSize = g * MemoryPageSize + MemoryPageSize
           /\ g * MemoryPageSize \in Nat
  BY <1>3, <1>4, <1>7, ProductMonotone, ProductNext
<1> DEFINE y == g * MemoryPageSize
           z == T * MemoryPageSize
<1>9. y \in Nat /\ z \in Nat /\ y + MemoryPageSize <= z
  BY <1>8
<1>10. InPage(kind, p, l) = x + y + start /\ Buckets!PageLevelOffset(kind, k + 1) = start + z
  BY <1>5, <1>6
<1> HIDE DEF y, z, k
<1>11. /\ InPage(kind, p, l) \in Nat
       /\ start <= InPage(kind, p, l)
       /\ InPage(kind, p, l) + B <= Buckets!PageLevelOffset(kind, k + 1)
  BY <1>4, <1>5, <1>9, <1>10
<1> QED BY <1>5, <1>7, <1>11 DEF g, B, start, k

(* A layout has room for its buckets.                                      *)
LEMMA LayoutBounds ==
  ASSUME Buckets!Parameters, NEW kind \in Buckets!Kind, NEW p \in Buckets!Path,
           NEW l, l \in Buckets!Level
  PROVE  /\ InLayout(kind, p, l) \in Nat /\ Buckets!LayoutSize(kind) \in Nat
         /\ InLayout(kind, p, l) + Buckets!BucketSize(kind) <= Buckets!LayoutSize(kind)
<1> DEFINE B == Buckets!BucketSize(kind)
<1>1. B \in Nat \ {0} /\ LayoutType \in {"BasicHeapLayout", "TwoLevelHeapLayout"}
  BY SizesAre
<1>2. CASE LayoutType = "BasicHeapLayout"
  <2> DEFINE h == Buckets!HeapIndex(l, PathIndex(p, l))
             T == Buckets!TwoToThe[Levels]
  <2>1. l \in 0 .. Levels - 1 /\ PathIndex(p, l) \in 0 .. Buckets!TwoToThe[l] - 1
          /\ l + 1 \in 0 .. Levels
        /\ Levels \in 0 .. Levels /\ l + 1 <= Levels
    BY IndexIs, LevelsFacts
  <2>2. h \in Nat /\ h + 1 < Buckets!TwoToThe[l + 1]
    BY <2>1, HeapIndexBounds
  <2>3. Buckets!TwoToThe[l + 1] <= T /\ T \in Nat /\ Buckets!TwoToThe[l + 1] \in Nat
    BY <2>1, BucketPowersGrow
  <2>4. InLayout(kind, p, l) = h * B /\ Buckets!LayoutSize(kind) = T * B
    BY <1>2 DEF InLayout, Buckets!LayoutSize
  <2> HIDE DEF h, T, B
  <2>5. h + 1 \in Nat /\ h + 1 <= T
    BY <2>2, <2>3
  <2>6. (h + 1) * B <= T * B /\ T * B \in Nat /\ (h + 1) * B = h * B + B /\ h * B \in Nat
    BY <1>1, <2>2, <2>3, <2>5, ProductMonotone, ProductNext
  <2> QED BY <2>4, <2>6 DEF B
<1>3. CASE LayoutType = "TwoLevelHeapLayout"
  <2> DEFINE k == PageLevelAt(kind, l)
             N == Buckets!NumPageLevels(kind)
  <2>1. k + 1 \in 0 .. N /\ N \in 0 .. N /\ k + 1 <= N /\ N \in Nat
    BY <1>3, TopAboveLevel
  <2>2. InPage(kind, p, l) \in Nat
        /\ InPage(kind, p, l) + B <= Buckets!PageLevelOffset(kind, k + 1)
    BY <1>3, InPageBounds
  <2>3. Buckets!PageLevelOffset(kind, k + 1) <= Buckets!PageLevelOffset(kind, N)
        /\ Buckets!PageLevelOffset(kind, N) \in Nat /\ Buckets!PageLevelOffset(kind, k + 1) \in Nat
    <3> HIDE DEF k
    <3> QED BY <1>3, <2>1, OffsetsGrow
  <2>4. InLayout(kind, p, l) = InPage(kind, p, l)
          /\ Buckets!LayoutSize(kind) = Buckets!PageLevelOffset(kind, N)
    BY <1>3 DEF InLayout, Buckets!LayoutSize
  <2> HIDE DEF k, N
  <2> QED BY <1>1, <2>2, <2>3, <2>4
<1> QED BY <1>1, <1>2, <1>3

(* Two buckets with a byte in common are the same: the byte tells the page  *)
(* level, the page, the level in the page, and the bucket.                 *)
LEMMA InPageApart ==
  ASSUME Buckets!Parameters, LayoutType = "TwoLevelHeapLayout", NEW kind \in Buckets!Kind,
         NEW p \in Buckets!Path, NEW l, l \in Buckets!Level, NEW q \in Buckets!Path,
           NEW m, m \in Buckets!Level,
         NEW i \in 0 .. Buckets!BucketSize(kind) - 1, NEW j \in 0 .. Buckets!BucketSize(kind) - 1,
         InPage(kind, p, l) + i = InPage(kind, q, m) + j
  PROVE  l = m /\ PathIndex(p, l) = PathIndex(q, m)
<1> DEFINE B == Buckets!BucketSize(kind)
           k == PageLevelAt(kind, l)
           h == PageLevelAt(kind, m)
           x == InPage(kind, p, l) + i
           Start(n) == Buckets!PageLevelOffset(kind, n)
<1>1. B \in Nat \ {0} /\ MemoryPageSize \in Nat \ {0}
  BY SizesAre
<1>2. /\ k \in 0 .. Buckets!NumPageLevels(kind) /\ k + 1 \in 0 .. Buckets!NumPageLevels(kind)
      /\ h \in 0 .. Buckets!NumPageLevels(kind) /\ h + 1 \in 0 .. Buckets!NumPageLevels(kind)
  BY TopAboveLevel
<1>3. x \in Nat /\ Start(k) <= x /\ x < Start(k + 1) /\ Start(h) <= x /\ x < Start(h + 1)
  <2>1. /\ InPage(kind, p, l) \in Nat /\ Start(k) \in Nat /\ Start(k) <= InPage(kind, p, l)
        /\ InPage(kind, p, l) + B <= Start(k + 1)
        /\ InPage(kind, q, m) \in Nat /\ Start(h) \in Nat /\ Start(h) <= InPage(kind, q, m)
        /\ InPage(kind, q, m) + B <= Start(h + 1)
    BY InPageBounds
  <2>2. Start(k + 1) \in Nat /\ Start(h + 1) \in Nat
    <3> HIDE DEF k, h
    <3> QED BY <1>2, PageLevelOffsets
  <2>3. i \in 0 .. B - 1 /\ j \in 0 .. B - 1 /\ x = InPage(kind, p, l) + i
          /\ x = InPage(kind, q, m) + j
    OBVIOUS
  <2> HIDE DEF B, k, h, x, Start
  <2> QED BY <1>1, <2>1, <2>2, <2>3
<1>4. k = h
  <2> HIDE DEF k, h, x
  <2>1. ~(k + 1 <= h)
    <3>1. SUFFICES ASSUME k + 1 <= h PROVE FALSE
      OBVIOUS
    <3>2. Start(k + 1) <= Start(h) /\ Start(k + 1) \in Nat /\ Start(h) \in Nat
      BY <1>2, <3>1, OffsetsGrow
    <3> HIDE DEF Start
    <3> QED BY <1>3, <3>2
  <2>2. ~(h + 1 <= k)
    <3>1. SUFFICES ASSUME h + 1 <= k PROVE FALSE
      OBVIOUS
    <3>2. Start(h + 1) <= Start(k) /\ Start(h + 1) \in Nat /\ Start(k) \in Nat
      BY <1>2, <3>1, OffsetsGrow
    <3> HIDE DEF Start
    <3> QED BY <1>3, <3>2
  <2>3. k \in Int /\ h \in Int
    BY <1>2
  <2> QED BY <2>1, <2>2, <2>3
<1> DEFINE t == TopAbove(kind, l)
           a == Row(kind, p, l)
           b == Row(kind, q, m)
           g == PathIndex(p, t)
           e == PathIndex(q, t)
<1>5. TopAbove(kind, m) = t
  BY <1>4 DEF TopAbove
<1>6. /\ t \in 0 .. l /\ t \in 0 .. m
  BY <1>5, TopAboveLevel
<1>7. /\ a \in Nat /\ a * B \in Nat /\ a * B + B <= MemoryPageSize
      /\ b \in Nat /\ b * B \in Nat /\ b * B + B <= MemoryPageSize
  BY RowFits
<1>8. g \in Nat /\ e \in Nat /\ Start(k) \in Nat
  BY <1>5, InPageBounds
<1>9. InPage(kind, p, l) = a * B + g * MemoryPageSize + Start(k)
      /\ InPage(kind, q, m) = b * B + e * MemoryPageSize + Start(k)
  BY <1>4, <1>5 DEF InPage, TopAbove
<1> DEFINE r == a * B + i
           s == b * B + j
<1>10. r \in 0 .. MemoryPageSize - 1 /\ s \in 0 .. MemoryPageSize - 1
  <2> DEFINE u == a * B
             v == b * B
  <2>1. /\ u \in Nat /\ u + B <= MemoryPageSize /\ v \in Nat /\ v + B <= MemoryPageSize
        /\ i \in 0 .. B - 1 /\ j \in 0 .. B - 1
    BY <1>7
  <2> HIDE DEF u, v, B
  <2>2. u + i \in 0 .. MemoryPageSize - 1 /\ v + j \in 0 .. MemoryPageSize - 1
    BY <1>1, <2>1
  <2> QED BY <2>2 DEF u, v
<1>11. MemoryPageSize * g + r = MemoryPageSize * e + s
  <2> DEFINE u == a * B
             v == b * B
             w == g * MemoryPageSize
             z == e * MemoryPageSize
  <2>1. w \in Nat /\ z \in Nat /\ MemoryPageSize * g = w /\ MemoryPageSize * e = z
    BY <1>1, <1>8
  <2>2. u + w + Start(k) + i = v + z + Start(k) + j
    BY <1>9
  <2>3. u \in Nat /\ v \in Nat /\ i \in Nat /\ j \in Nat /\ r = u + i /\ s = v + j
    BY <1>7
  <2> HIDE DEF u, v, w, z, r, s, Start, k
  <2>4. w + (u + i) = z + (v + j)
    BY <1>8, <2>1, <2>2, <2>3
  <2> QED BY <2>1, <2>3, <2>4
<1>12. g = e /\ r = s
  <2>1. /\ g \in Int /\ e \in Int /\ MemoryPageSize \in Nat \ {0}
        /\ r \in 0 .. MemoryPageSize - 1 /\ s \in 0 .. MemoryPageSize - 1
    BY <1>1, <1>8, <1>10
  <2> HIDE DEF g, e, r, s
  <2>2. (MemoryPageSize * g + r) \div MemoryPageSize = g
          /\ (MemoryPageSize * g + r) % MemoryPageSize = r
    BY ONLY <2>1, QuotientUnique
  <2>3. (MemoryPageSize * e + s) \div MemoryPageSize = e
          /\ (MemoryPageSize * e + s) % MemoryPageSize = s
    BY ONLY <2>1, QuotientUnique
  <2> QED BY <1>11, <2>2, <2>3
<1>13. a = b
  <2>1. i \in 0 .. B - 1 /\ j \in 0 .. B - 1 /\ a * B = B * a /\ b * B = B * b
    BY <1>1, <1>7
  <2>2. B * a + i = B * b + j
    BY <1>12, <2>1
  <2> HIDE DEF a, b, B
  <2>3. (B * a + i) \div B = a
    BY <1>1, <1>7, <2>1, QuotientUnique
  <2>4. (B * b + j) \div B = b
    BY <1>1, <1>7, <2>1, QuotientUnique
  <2> QED BY <2>2, <2>3, <2>4
<1> DEFINE d == l - t
           f == m - t
           y == PathIndex(p, l) % Buckets!TwoToThe[d]
           z == PathIndex(q, m) % Buckets!TwoToThe[f]
<1>14. /\ d \in 0 .. Levels - 1 /\ y \in 0 .. Buckets!TwoToThe[d] - 1
       /\ f \in 0 .. Levels - 1 /\ z \in 0 .. Buckets!TwoToThe[f] - 1
       /\ PathIndex(p, l) = Buckets!TwoToThe[d] * g + y
       /\ PathIndex(q, m) = Buckets!TwoToThe[f] * e + z
  BY <1>6, IndexAbove
<1>15. Buckets!HeapIndex(d, y) = Buckets!HeapIndex(f, z)
  BY <1>5, <1>13 DEF Row
<1>16. d = f /\ y = z
  <2> HIDE DEF d, f, y, z
  <2> QED BY <1>14, <1>15, HeapIndexUnique
<1>17. l = m
  <2>1. l \in Nat /\ m \in Nat /\ t \in Nat /\ l - t = m - t
    BY <1>6, <1>16 DEF Buckets!Level
  <2> HIDE DEF t
  <2> QED BY <2>1
<1> QED BY <1>12, <1>14, <1>16, <1>17

LEMMA InLayoutApart ==
  ASSUME Buckets!Parameters, NEW kind \in Buckets!Kind,
         NEW p \in Buckets!Path, NEW l, l \in Buckets!Level, NEW q \in Buckets!Path,
           NEW m, m \in Buckets!Level,
         NEW i \in 0 .. Buckets!BucketSize(kind) - 1, NEW j \in 0 .. Buckets!BucketSize(kind) - 1,
         InLayout(kind, p, l) + i = InLayout(kind, q, m) + j
  PROVE  Buckets!BucketOn(p, l) = Buckets!BucketOn(q, m)
<1> DEFINE B == Buckets!BucketSize(kind)
<1>1. B \in Nat \ {0} /\ LayoutType \in {"BasicHeapLayout", "TwoLevelHeapLayout"}
  BY SizesAre
<1>2. CASE LayoutType = "BasicHeapLayout"
  <2> DEFINE a == Buckets!HeapIndex(l, PathIndex(p, l))
             b == Buckets!HeapIndex(m, PathIndex(q, m))
  <2>1. /\ l \in 0 .. Levels - 1 /\ PathIndex(p, l) \in 0 .. Buckets!TwoToThe[l] - 1
        /\ m \in 0 .. Levels - 1 /\ PathIndex(q, m) \in 0 .. Buckets!TwoToThe[m] - 1
    BY IndexIs
  <2>2. a \in Nat /\ b \in Nat
    BY <2>1, HeapIndexBounds
  <2>3. a * B + i = b * B + j
    BY <1>2 DEF InLayout
  <2>4. i \in 0 .. B - 1 /\ j \in 0 .. B - 1 /\ a * B = B * a /\ b * B = B * b
    BY <1>1, <2>2
  <2> HIDE DEF a, b, B
  <2>5. (B * a + i) \div B = a
    BY <1>1, <2>2, <2>4, QuotientUnique
  <2>6. (B * b + j) \div B = b
    BY <1>1, <2>2, <2>4, QuotientUnique
  <2>7. a = b
    BY <2>3, <2>4, <2>5, <2>6
  <2>8. l = m /\ PathIndex(p, l) = PathIndex(q, m)
    BY <2>1, <2>7, HeapIndexUnique DEF a, b
  <2> QED BY <2>8, IndexIs
<1>3. CASE LayoutType = "TwoLevelHeapLayout"
  <2>1. InPage(kind, p, l) + i = InPage(kind, q, m) + j
    BY <1>3 DEF InLayout
  <2>2. l = m /\ PathIndex(p, l) = PathIndex(q, m)
    BY <1>3, <2>1, InPageApart
  <2> QED BY <2>2, IndexIs
<1> QED BY <1>1, <1>2, <1>3

LEMMA RemainderOfQuotient ==
  ASSUME NEW x \in Nat, NEW a \in Nat \ {0}, NEW b \in Nat \ {0}
  PROVE  (x % (a * b)) \div a = (x \div a) % b
<1> DEFINE c == a * b
           q == x \div c
           r == x % c
           s == r \div a
           t == r % a
<1>1. c \in Nat \ {0} /\ c = a * b
  OBVIOUS
<1> HIDE DEF c
<1>2. x = c * q + r /\ r \in 0 .. c - 1 /\ q \in Nat
  BY <1>1, QuotientFacts
<1> HIDE DEF q, r
<1>3. r = a * s + t /\ t \in 0 .. a - 1 /\ s \in Nat /\ r \in Nat
  <2>1. r \in Nat
    BY <1>1, <1>2
  <2> QED BY <2>1, QuotientFacts
<1>4. s < b
  <2> HIDE DEF s, t
  <2>1. SUFFICES ASSUME b <= s PROVE FALSE
    BY <1>3
  <2>2. b * a <= s * a /\ b * a \in Nat /\ s * a \in Nat
    BY <1>3, <2>1, ProductMonotone
  <2>3. b * a = c /\ s * a = a * s
    BY <1>1, <1>3
  <2> DEFINE u == a * s
  <2>4. u \in Nat /\ c <= u /\ r = u + t /\ t \in Nat
    BY <1>3, <2>2, <2>3
  <2> HIDE DEF u
  <2> QED BY <1>1, <1>2, <2>4
<1>5. x = a * (b * q + s) + t
  <2> HIDE DEF s, t
  <2>1. c * q = a * (b * q)
    BY <1>1, <1>2
  <2>2. a * (b * q + s) = a * (b * q) + a * s
    BY <1>2, <1>3
  <2> DEFINE u == a * (b * q)
             v == a * s
  <2>3. u \in Nat /\ v \in Nat
    BY <1>2, <1>3
  <2>4. x = u + (v + t) /\ a * (b * q + s) = u + v
    BY <1>2, <1>3, <2>1, <2>2
  <2> HIDE DEF u, v
  <2> QED BY <1>3, <2>3, <2>4
<1> HIDE DEF s, t
<1>6. b * q + s \in Nat
  BY <1>2, <1>3
<1>7. x \div a = b * q + s
  <2> DEFINE y == b * q + s
  <2>1. y \in Int /\ t \in 0 .. a - 1 /\ x = a * y + t
    BY <1>3, <1>5, <1>6
  <2> HIDE DEF y
  <2>2. (a * y + t) \div a = y
    BY <2>1, QuotientUnique
  <2> QED BY <2>1, <2>2 DEF y
<1>8. (b * q + s) % b = s
  <2>1. s \in 0 .. b - 1 /\ q \in Int
    BY <1>2, <1>3, <1>4
  <2> QED BY <2>1, QuotientUnique
<1> QED BY <1>7, <1>8 DEF s, r, c

(* Both ways to find a bucket lead to its place in the layout.             *)
LEMMA AddressIs ==
  ASSUME Buckets!Parameters, NEW kind \in Buckets!Kind, NEW p \in Buckets!Path,
           NEW l, l \in Buckets!Level
  PROVE  Buckets!GetAddress(kind, p, l) = InLayout(kind, p, l) + Buckets!Offset(kind)
<1> DEFINE B == Buckets!BucketSize(kind)
           k == PageLevelAt(kind, l)
           t == TopAbove(kind, l)
<1>1. LayoutType \in {"BasicHeapLayout", "TwoLevelHeapLayout"}
  BY SizesAre
<1>2. Buckets!BucketOn(p, l)[2] = PathIndex(p, l)
  BY DEF Buckets!BucketOn, PathIndex
<1>3. CASE LayoutType = "BasicHeapLayout"
  BY <1>2, <1>3 DEF Buckets!GetAddress, Buckets!HeapAddress, InLayout
<1>4. CASE LayoutType = "TwoLevelHeapLayout" /\ l < Buckets!FirstPageLevels(kind)
  <2>1. k = 0 /\ t = 0
    BY <1>4, PageLevelsDivide DEF PageLevelAt, TopAbove
  <2>2. Buckets!PageLevelOffset(kind, 0) = 0
    BY <1>4, PageLevelOffsets
  <2>3. PathIndex(p, l) \in 0 .. Buckets!TwoToThe[l] - 1 /\ Buckets!TwoToThe[l] \in Nat \ {0}
          /\ l \in Nat
    BY IndexIs
  <2>4. PathIndex(p, 0) = 0
    <3>1. 0 \in Buckets!Level
      BY LevelsFacts DEF Buckets!Level
    <3>2. PathIndex(p, 0) \in 0 .. Buckets!TwoToThe[0] - 1
      BY <3>1, IndexIs
    <3> QED BY <3>2, BucketsTwoToTheFacts
  <2>5. l - t = l /\ PathIndex(p, l) % Buckets!TwoToThe[l] = PathIndex(p, l)
    BY <2>1, <2>3
  <2>6. Row(kind, p, l) = Buckets!HeapIndex(l, PathIndex(p, l))
    BY <2>5 DEF Row
  <2>7. 0 * MemoryPageSize = 0 /\ Row(kind, p, l) * B \in Nat
    BY <1>4, SizesAre, RowFits
  <2>8. InPage(kind, p, l) = Row(kind, p, l) * B
    <3>1. InPage(kind, p, l) = Row(kind, p, l) * B + PathIndex(p, 0) * MemoryPageSize
            + Buckets!PageLevelOffset(kind, 0)
      BY <2>1 DEF InPage
    <3> QED BY <2>2, <2>4, <2>7, <3>1
  <2> QED BY <1>2, <1>4, <2>6, <2>8 DEF Buckets!GetAddress, Buckets!HeapAddress, InLayout
<1>5. CASE LayoutType = "TwoLevelHeapLayout" /\ ~(l < Buckets!FirstPageLevels(kind))
  <2>1. k = (l - Buckets!FirstPageLevels(kind)) \div Buckets!LevelsPerPage(kind) + 1
    BY <1>5 DEF PageLevelAt
  <2>2. Buckets!BucketOn(p, t)[2] = PathIndex(p, t)
    BY DEF Buckets!BucketOn, PathIndex
  <2>3. Buckets!GetAddress(kind, p, l)
          = Buckets!HeapIndex(l - t, PathIndex(p, l) % Buckets!TwoToThe[l - t]) * B
            + PathIndex(p, t) * MemoryPageSize + Buckets!PageLevelOffset(kind, k)
              + Buckets!Offset(kind)
    BY <1>2, <1>5, <2>1, <2>2 DEF Buckets!GetAddress, TopAbove
  <2>4. InPage(kind, p, l)
          = Buckets!HeapIndex(l - t, PathIndex(p, l) % Buckets!TwoToThe[l - t]) * B
            + PathIndex(p, t) * MemoryPageSize + Buckets!PageLevelOffset(kind, k)
    BY DEF InPage, Row
  <2> QED BY <1>5, <2>3, <2>4 DEF InLayout
<1> QED BY <1>1, <1>3, <1>4, <1>5

LEMMA AddressFromPathIs ==
  ASSUME Buckets!Parameters, NEW kind \in Buckets!Kind, NEW p \in Buckets!Path,
           NEW l, l \in Buckets!Level
  PROVE  Buckets!AddressFromPath(kind, p, l) = Buckets!GetAddress(kind, p, l)
<1> DEFINE B == Buckets!BucketSize(kind)
           k == PageLevelAt(kind, l)
           t == TopAbove(kind, l)
           w == LevelsOfPage(kind, k)
           d == l - t
<1>1. LayoutType \in {"BasicHeapLayout", "TwoLevelHeapLayout"}
  BY SizesAre
<1>2. CASE LayoutType = "BasicHeapLayout"
  BY <1>2 DEF Buckets!AddressFromPath
<1>3. CASE LayoutType = "TwoLevelHeapLayout"
  <2>1. (CHOOSE i \in 0 .. Buckets!NumPageLevels(kind) - 1 :
           Buckets!TopLevelOf(kind, i) <= l /\ l < Buckets!TopLevelOf(kind, i + 1)) = k
    <3> DEFINE c == CHOOSE i \in 0 .. Buckets!NumPageLevels(kind) - 1 : Within(kind, i, l)
    <3>1. k \in 0 .. Buckets!NumPageLevels(kind) - 1 /\ Within(kind, k, l)
      BY <1>3, PageLevelOfLevel
    <3>2. c \in 0 .. Buckets!NumPageLevels(kind) - 1 /\ Within(kind, c, l)
      <4> HIDE DEF k
      <4> QED BY <3>1
    <3>3. c = k
      <4> HIDE DEF c, k
      <4> QED BY <1>3, <3>1, <3>2, PageLevelUnique
    <3> QED BY <3>3 DEF Within
  <2>2. Buckets!TopLevelOf(kind, k + 1) - t = w
    <3>1. k \in 0 .. Buckets!NumPageLevels(kind) - 1 /\ k \in 0 .. Buckets!NumPageLevels(kind)
      BY <1>3, TopAboveLevel
    <3>2. Buckets!TopLevelOf(kind, k + 1) = t + w /\ t \in Nat /\ w \in Nat
      <4>1. Buckets!TopLevelOf(kind, k + 1) = t + w /\ t \in 0 .. Levels
        BY <1>3, <3>1, PageLevelsDivide DEF TopAbove
      <4>2. w \in Nat
        BY <1>3, TopAboveLevel, PagesHaveRoom
      <4> QED BY <4>1, <4>2, LevelsFacts
    <3> QED BY <3>2
  <2>3. /\ t \in 0 .. l /\ d + 1 <= w /\ w \in Nat /\ t + w <= Levels /\ l \in 0 .. Levels - 1
        /\ Levels \in Nat
    <3>1. /\ k \in 0 .. Buckets!NumPageLevels(kind) - 1
               /\ k + 1 \in 0 .. Buckets!NumPageLevels(kind)
          /\ t \in 0 .. l /\ d + 1 <= w /\ w \in 1 .. Buckets!LevelsPerPage(kind)
      BY <1>3, TopAboveLevel
    <3>2. Buckets!TopLevelOf(kind, k + 1) = t + w /\ Buckets!TopLevelOf(kind, k + 1) \in 0 .. Levels
      BY <1>3, <3>1, PageLevelsDivide DEF TopAbove
    <3>3. w \in Nat
      BY <1>3, <3>1, PagesHaveRoom
    <3> QED BY <3>1, <3>2, <3>3, LevelsFacts DEF Buckets!Level
  <2> DEFINE e == Levels - t - w
             a == w - 1 - d
             x == p \div Buckets!TwoToThe[e]
             inner == x % Buckets!TwoToThe[w - 1]
  <2>4. /\ e \in Nat /\ a \in Nat /\ d \in Nat /\ a + d = w - 1 /\ a + d <= Levels
        /\ e + a = Levels - 1 - l /\ e + a <= Levels
        /\ e \in 0 .. Levels /\ a \in 0 .. Levels /\ d \in 0 .. Levels
    <3> HIDE DEF t, w
    <3> QED BY <2>3
  <2> HIDE DEF t, w, d, e, a
  <2>5. Buckets!TwoToThe[a] \in Nat \ {0} /\ Buckets!TwoToThe[d] \in Nat \ {0}
          /\ Buckets!TwoToThe[e] \in Nat \ {0}
    BY <2>4, BucketsTwoToTheFacts
  <2>6. Buckets!TwoToThe[w - 1] = Buckets!TwoToThe[a] * Buckets!TwoToThe[d]
    <3>1. Buckets!TwoToThe[a + d] = Buckets!TwoToThe[a] * Buckets!TwoToThe[d]
      BY <2>4, BucketsPowersAdd
    <3> QED BY <2>4, <3>1
  <2>7. Buckets!TwoToThe[Levels - 1 - l] = Buckets!TwoToThe[e] * Buckets!TwoToThe[a]
    <3>1. Buckets!TwoToThe[e + a] = Buckets!TwoToThe[e] * Buckets!TwoToThe[a]
      BY <2>4, BucketsPowersAdd
    <3> QED BY <2>4, <3>1
  <2>8. p \in Nat
    BY BucketsPathBound
  <2>9. x \in Nat
    BY <2>5, <2>8, QuotientFacts
  <2>10. x \div Buckets!TwoToThe[a] = PathIndex(p, l)
    <3>1. p \div (Buckets!TwoToThe[e] * Buckets!TwoToThe[a])
            = (p \div Buckets!TwoToThe[e]) \div Buckets!TwoToThe[a]
      BY <2>5, <2>8, NestedDivision
    <3> QED BY <2>7, <3>1 DEF PathIndex
  <2> HIDE DEF x
  <2>11. inner \div Buckets!TwoToThe[a] = PathIndex(p, l) % Buckets!TwoToThe[d]
    <3>1. (x % (Buckets!TwoToThe[a] * Buckets!TwoToThe[d])) \div Buckets!TwoToThe[a]
            = (x \div Buckets!TwoToThe[a]) % Buckets!TwoToThe[d]
      BY <2>5, <2>9, RemainderOfQuotient
    <3> QED BY <2>6, <2>10, <3>1
  <2>12. Buckets!AddressFromPath(kind, p, l)
           = Buckets!HeapIndex(d, inner \div Buckets!TwoToThe[a]) * B
             + PathIndex(p, t) * MemoryPageSize
             + Buckets!PageLevelOffset(kind, k) + Buckets!Offset(kind)
    <3> HIDE DEF k
    <3>1. LayoutType # "BasicHeapLayout"
      BY <1>3
    <3>2. Buckets!TopLevelOf(kind, k) = t
      BY DEF t, k, TopAbove
    <3> QED BY <2>1, <2>2, <3>1, <3>2 DEF Buckets!AddressFromPath, e, a, d, x, PathIndex
  <2>13. InPage(kind, p, l)
           = Buckets!HeapIndex(d, PathIndex(p, l) % Buckets!TwoToThe[d]) * B
             + PathIndex(p, t) * MemoryPageSize
             + Buckets!PageLevelOffset(kind, k)
    BY DEF InPage, Row, t, d
  <2>14. InLayout(kind, p, l) = InPage(kind, p, l)
    BY <1>3 DEF InLayout
  <2> QED BY <2>11, <2>12, <2>13, <2>14, AddressIs
<1> QED BY <1>1, <1>2, <1>3

-----------------------------------------------------------------------------

(* Where the buckets of both kinds are in the memory.                      *)
LEMMA SizesAddUp ==
  ASSUME Buckets!Parameters
  PROVE  /\ Buckets!LayoutSize("data") \in Nat /\ Buckets!LayoutSize("metadata") \in Nat
         /\ Buckets!Size = Buckets!LayoutSize("data") + Buckets!LayoutSize("metadata")
              /\ Buckets!Size \in Nat
         /\ Buckets!Offset("data") = 0 /\ Buckets!Offset("metadata") = Buckets!LayoutSize("data")
         /\ Buckets!Kind = {"data", "metadata"}
<1>1. 0 \in Buckets!Path /\ 0 \in Buckets!Level /\ \A k \in Buckets!Kind : k = "data"
        \/ k = "metadata"
  <2>1. Buckets!NumPaths \in Nat \ {0}
    <3>1. Levels - 2 \in 0 .. Levels
      BY LevelsFacts
    <3>2. Buckets!TwoToThe[Levels - 2] \in Nat \ {0}
      BY <3>1, BucketsTwoToTheFacts
    <3> QED BY <3>2 DEF Buckets!Parameters, Buckets!NumPaths
  <2> QED BY <2>1, LevelsFacts DEF Buckets!Path, Buckets!Level, Buckets!Kind
<1>2. "data" \in Buckets!Kind /\ "metadata" \in Buckets!Kind
  BY DEF Buckets!Kind
<1>3. Buckets!LayoutSize("data") \in Nat /\ Buckets!LayoutSize("metadata") \in Nat
  BY <1>1, <1>2, LayoutBounds
<1> QED BY <1>3 DEF Buckets!Size, Buckets!Offset, Buckets!Kind

LEMMA AddressBounds ==
  ASSUME Buckets!Parameters, NEW kind \in Buckets!Kind, NEW p \in Buckets!Path,
           NEW l, l \in Buckets!Level
  PROVE  /\ Buckets!GetAddress(kind, p, l) = InLayout(kind, p, l) + Buckets!Offset(kind)
         /\ Buckets!GetAddress(kind, p, l) \in Nat /\ Buckets!Offset(kind) \in Nat
         /\ Buckets!Offset(kind) <= Buckets!GetAddress(kind, p, l)
         /\ Buckets!GetAddress(kind, p, l) + Buckets!BucketSize(kind) <= Buckets!Offset(kind)
              + Buckets!LayoutSize(kind)
         /\ Buckets!Offset(kind) + Buckets!LayoutSize(kind) <= Buckets!Size
         /\ Buckets!BucketSize(kind) \in Nat \ {0}
<1>2. Buckets!GetAddress(kind, p, l) = InLayout(kind, p, l) + Buckets!Offset(kind)
  BY AddressIs
<1>3. Buckets!Offset(kind) \in Nat
        /\ Buckets!Offset(kind) + Buckets!LayoutSize(kind) <= Buckets!Size
  BY SizesAddUp
<1>4. /\ InLayout(kind, p, l) \in Nat /\ Buckets!LayoutSize(kind) \in Nat
      /\ InLayout(kind, p, l) + Buckets!BucketSize(kind) <= Buckets!LayoutSize(kind)
      /\ Buckets!BucketSize(kind) \in Nat \ {0}
  BY LayoutBounds, SizesAre
<1> QED BY <1>2, <1>3, <1>4

(* get_address() of the layouts: two buckets that have a byte of the memory *)
(* in common are the same bucket of the same kind, whatever the sizes and  *)
(* whichever layout, the top pages with fewer levels included.             *)
THEOREM BucketsApart ==
  ASSUME Buckets!Parameters, NEW kind \in Buckets!Kind, NEW p \in Buckets!Path,
           NEW l, l \in Buckets!Level,
         NEW other \in Buckets!Kind, NEW q \in Buckets!Path, NEW m, m \in Buckets!Level,
         NEW i \in 0 .. Buckets!BucketSize(kind) - 1, NEW j \in 0 .. Buckets!BucketSize(other) - 1,
         Buckets!GetAddress(kind, p, l) + i = Buckets!GetAddress(other, q, m) + j
  PROVE  kind = other /\ Buckets!BucketOn(p, l) = Buckets!BucketOn(q, m)
<1>1. kind = other
  <2> DEFINE a == Buckets!GetAddress(kind, p, l)
             b == Buckets!GetAddress(other, q, m)
             D == Buckets!LayoutSize("data")
  <2>1. /\ a \in Nat /\ Buckets!Offset(kind) <= a
             /\ a + Buckets!BucketSize(kind) <= Buckets!Offset(kind) + Buckets!LayoutSize(kind)
        /\ b \in Nat /\ Buckets!Offset(other) <= b
             /\ b + Buckets!BucketSize(other) <= Buckets!Offset(other) + Buckets!LayoutSize(other)
        /\ Buckets!BucketSize(kind) \in Nat /\ Buckets!BucketSize(other) \in Nat
    BY AddressBounds
  <2>2. a + i = b + j
    OBVIOUS
  <2> HIDE DEF a, b
  <2>3. CASE kind = "data" /\ other = "metadata"
    BY <2>1, <2>2, <2>3, SizesAddUp
  <2>4. CASE kind = "metadata" /\ other = "data"
    BY <2>1, <2>2, <2>4, SizesAddUp
  <2> QED BY <2>3, <2>4 DEF Buckets!Kind
<1>2. InLayout(kind, p, l) + i = InLayout(kind, q, m) + j
  <2> DEFINE a == InLayout(kind, p, l)
             b == InLayout(kind, q, m)
             o == Buckets!Offset(kind)
  <2>1. a \in Nat /\ b \in Nat
    BY LayoutBounds
  <2>2. o \in Nat /\ a + o + i = b + o + j
    BY <1>1, AddressBounds
  <2>3. i \in Int /\ j \in Int
    BY <1>1, SizesAre
  <2> HIDE DEF a, b, o
  <2>4. a + i = b + j
    BY <2>1, <2>2, <2>3
  <2> QED BY <2>4 DEF a, b
<1>3. Buckets!BucketOn(p, l) = Buckets!BucketOn(q, m)
  BY <1>1, <1>2, InLayoutApart
<1> QED BY <1>1, <1>3

(* x is a multiple of m.                                                   *)
Multiple(x, m) == \E z \in Nat : x = m * z

LEMMA MultipleSum ==
  ASSUME NEW m \in Nat, NEW x \in Nat, NEW y \in Nat, Multiple(x, m), Multiple(y, m)
  PROVE  Multiple(x + y, m)
<1>1. PICK u \in Nat : x = m * u
  BY DEF Multiple
<1>2. PICK v \in Nat : y = m * v
  BY DEF Multiple
<1>3. u + v \in Nat /\ x + y = m * (u + v)
  BY <1>1, <1>2
<1> QED BY <1>3 DEF Multiple

LEMMA MultipleProduct ==
  ASSUME NEW m \in Nat, NEW x \in Nat, NEW y \in Nat, Multiple(x, m)
  PROVE  Multiple(y * x, m) /\ Multiple(y * m, m)
<1>1. PICK u \in Nat : x = m * u
  BY DEF Multiple
<1>2. y * u \in Nat /\ y * x = m * (y * u)
  BY <1>1
<1>3. y * m = m * y
  OBVIOUS
<1> QED BY <1>2, <1>3 DEF Multiple

LEMMA RemainderZero ==
  ASSUME NEW x \in Nat, NEW m \in Nat \ {0}, x % m = 0
  PROVE  Multiple(x, m)
<1>1. x = m * (x \div m) + (x % m) /\ x \div m \in Nat
  BY QuotientFacts
<1> DEFINE y == x \div m
<1> HIDE DEF y
<1>2. y \in Nat /\ x = m * y
  BY <1>1 DEF y
<1> QED BY <1>2 DEF Multiple

(* A bucket at a multiple of its size does not cross from one page to the   *)
(* next, when it divides the pages.                                        *)
LEMMA AlignedFits ==
  ASSUME NEW b \in Nat \ {0}, NEW s \in Nat \ {0}, NEW x \in Nat, Multiple(x, b), Multiple(s, b)
  PROVE  (x % s) + b <= s /\ x % s \in Nat /\ x \div s \in Nat
         /\ x = s * (x \div s) + (x % s)
         /\ (x + b - 1) \div s = x \div s
<1>1. PICK z \in Nat : x = b * z
  BY DEF Multiple
<1>2. PICK c \in Nat : s = b * c
  BY DEF Multiple
<1>3. c # 0
  BY <1>2
<1> DEFINE q == z \div c
           r == z % c
<1>4. z = c * q + r /\ r \in 0 .. c - 1 /\ q \in Nat
  BY <1>1, <1>2, <1>3, QuotientFacts
<1> HIDE DEF q, r
<1> DEFINE y == b * r
<1>5. y \in Nat /\ y + b <= s
  <2>1. r + 1 \in Nat /\ r + 1 <= c /\ r \in Nat
    BY <1>2, <1>3, <1>4
  <2>2. (r + 1) * b <= c * b /\ (r + 1) * b = r * b + b
    BY <1>2, <2>1, ProductMonotone, ProductNext
  <2>3. c * b = s /\ r * b = y /\ y \in Nat
    BY <1>2, <2>1
  <2> HIDE DEF y
  <2> QED BY <2>2, <2>3
<1>6. x = s * q + y
  <2>1. b * z = b * (c * q) + b * r
    BY <1>1, <1>2, <1>4
  <2>2. b * (c * q) = s * q
    BY <1>2, <1>4
  <2> QED BY <1>1, <2>1, <2>2
<1> HIDE DEF y
<1>7. y \in 0 .. s - 1 /\ y + b - 1 \in 0 .. s - 1 /\ q \in Int
  BY <1>4, <1>5
<1>8. (s * q + y) \div s = q /\ (s * q + y) % s = y
  BY <1>7, QuotientUnique
<1>9. (s * q + (y + b - 1)) \div s = q
  BY <1>7, QuotientUnique
<1>10. x + b - 1 = s * q + (y + b - 1)
  <2> DEFINE u == s * q
  <2>1. u \in Int /\ x = u + y
    BY <1>4, <1>6
  <2> HIDE DEF u
  <2> QED BY <1>5, <2>1 DEF u
<1> QED BY <1>4, <1>5, <1>6, <1>8, <1>9, <1>10

-----------------------------------------------------------------------------
(* page_level_offsets are whole pages.                                     *)
LEMMA OffsetsInPages ==
  ASSUME Buckets!Parameters, LayoutType = "TwoLevelHeapLayout", NEW kind \in Buckets!Kind
  PROVE  \A k \in 0 .. Buckets!NumPageLevels(kind) : Multiple(Buckets!PageLevelOffset(kind, k),
           MemoryPageSize)
<1> DEFINE N == Buckets!NumPageLevels(kind)
           S == { k \in 0 .. N : Multiple(Buckets!PageLevelOffset(kind, k), MemoryPageSize) }
<1>1. N \in Nat \ {0} /\ MemoryPageSize \in Nat \ {0}
  BY PageLevelsDivide, SizesAre
<1>2. 0 \in S
  <2>1. Buckets!PageLevelOffset(kind, 0) = MemoryPageSize * 0 /\ 0 \in Nat
    BY <1>1, PageLevelOffsets
  <2>2. Multiple(Buckets!PageLevelOffset(kind, 0), MemoryPageSize)
    BY <2>1 DEF Multiple
  <2> QED BY <1>1, <2>2
<1>3. ASSUME NEW k \in 0 .. N - 1, k \in S PROVE k + 1 \in S
  <2>1. k \in 0 .. N /\ k + 1 \in 0 .. N
    BY <1>1
  <2> DEFINE x == Buckets!PageLevelOffset(kind, k)
             T == Buckets!TwoToThe[Buckets!TopLevelOf(kind, k)]
  <2>2. Buckets!PageLevelOffset(kind, k + 1) = x + T * MemoryPageSize /\ x \in Nat
    BY <2>1, PageLevelOffsets
  <2>3. T \in Nat
    BY <2>1, PageLevelsDivide, BucketsTwoToTheFacts
  <2>4. Multiple(x, MemoryPageSize)
    BY <1>3
  <2> HIDE DEF x, T
  <2>5. T * MemoryPageSize \in Nat /\ Multiple(T * MemoryPageSize, MemoryPageSize)
    <3>1. T * MemoryPageSize = MemoryPageSize * T /\ T * MemoryPageSize \in Nat
      BY ONLY <1>1, <2>3
    <3> QED BY <2>3, <3>1 DEF Multiple
  <2>6. Multiple(x + T * MemoryPageSize, MemoryPageSize)
    <3> DEFINE y == T * MemoryPageSize
    <3>1. y \in Nat /\ Multiple(y, MemoryPageSize)
      BY <2>5
    <3> HIDE DEF y
    <3>2. Multiple(x + y, MemoryPageSize)
      BY <1>1, <2>2, <2>4, <3>1, MultipleSum
    <3> QED BY <3>2 DEF y
  <2> QED BY <2>1, <2>2, <2>6
<1>4. \A k \in 0 .. N : k \in S
  <2> HIDE DEF S
  <2> QED BY <1>1, <1>2, <1>3, IntervalInduction
<1> QED BY <1>4

LEMMA MultipleOfMultiple ==
  ASSUME NEW m \in Nat, NEW x \in Nat, NEW y \in Nat, Multiple(x, y), Multiple(y, m)
  PROVE  Multiple(x, m)
<1>1. PICK u \in Nat : x = y * u
  BY DEF Multiple
<1>2. PICK v \in Nat : y = m * v
  BY DEF Multiple
<1>3. v * u \in Nat /\ x = m * (v * u)
  BY <1>1, <1>2
<1> QED BY <1>3 DEF Multiple

(* The buckets of a kind that is read in pages are at multiples of their   *)
(* size.                                                                   *)
LEMMA BucketsAligned ==
  ASSUME Buckets!Parameters, Buckets!NoSharedPages,
           NEW kind \in Buckets!Kind, Buckets!UsesPages(kind),
         NEW p \in Buckets!Path, NEW l, l \in Buckets!Level
  PROVE  Multiple(Buckets!GetAddress(kind, p, l), Buckets!BucketSize(kind))
           /\ Multiple(MemoryPageSize, Buckets!BucketSize(kind))
<1> DEFINE B == Buckets!BucketSize(kind)
<1>1. /\ B \in Nat \ {0} /\ MemoryPageSize \in Nat \ {0}
      /\ LayoutType \in {"BasicHeapLayout", "TwoLevelHeapLayout"}
  BY SizesAre
<1>2. Multiple(MemoryPageSize, B)
  BY <1>1, RemainderZero DEF Buckets!UsesPages
<1>3. InLayout(kind, p, l) \in Nat /\ Buckets!Offset(kind) \in Nat
  BY LayoutBounds, AddressBounds
<1>4. Multiple(Buckets!Offset(kind), B)
  <2>1. CASE kind = "data"
    <3>1. Buckets!Offset(kind) = B * 0 /\ 0 \in Nat
      BY <1>1, <2>1, SizesAddUp
    <3> QED BY <3>1 DEF Multiple
  <2>2. CASE kind = "metadata"
    <3>1. Buckets!Offset(kind) = Buckets!LayoutSize("data") /\ Buckets!LayoutSize("data") \in Nat
      BY <2>2, SizesAddUp
    <3>2. Buckets!LayoutSize("data") % B = 0
      BY <2>2 DEF Buckets!NoSharedPages, Buckets!BucketSize
    <3> QED BY <1>1, <3>1, <3>2, RemainderZero
  <2> QED BY <2>1, <2>2 DEF Buckets!Kind
<1>5. Multiple(InLayout(kind, p, l), B)
  <2>1. CASE LayoutType = "BasicHeapLayout"
    <3> DEFINE h == Buckets!HeapIndex(l, PathIndex(p, l))
    <3>1. h \in Nat
      BY IndexIs, HeapIndexBounds
    <3>2. InLayout(kind, p, l) = h * B
      BY <2>1 DEF InLayout
    <3> HIDE DEF h, B
    <3>3. h * B = B * h
      BY <1>1, <3>1
    <3> QED BY <3>1, <3>2, <3>3 DEF Multiple
  <2>2. CASE LayoutType = "TwoLevelHeapLayout"
    <3> DEFINE h == Row(kind, p, l)
               g == PathIndex(p, TopAbove(kind, l))
               o == Buckets!PageLevelOffset(kind, PageLevelAt(kind, l))
    <3>1. h \in Nat /\ g \in Nat /\ o \in Nat
      BY <2>2, RowFits, InPageBounds
    <3>2. InLayout(kind, p, l) = h * B + g * MemoryPageSize + o
      BY <2>2 DEF InLayout, InPage
    <3>3. Multiple(o, MemoryPageSize)
      <4>1. PageLevelAt(kind, l) \in 0 .. Buckets!NumPageLevels(kind)
        BY <2>2, TopAboveLevel
      <4> QED BY <2>2, <4>1, OffsetsInPages
    <3> HIDE DEF h, g, o, B
    <3>4. Multiple(o, B)
      BY <1>1, <1>2, <3>1, <3>3, MultipleOfMultiple
    <3>5. Multiple(g * MemoryPageSize, B) /\ g * MemoryPageSize \in Nat
      <4>1. MemoryPageSize \in Nat /\ B \in Nat
        BY <1>1
      <4>2. Multiple(g * MemoryPageSize, B)
        BY ONLY <1>2, <3>1, <4>1, MultipleProduct
      <4> QED BY ONLY <3>1, <4>1, <4>2, Z3
    <3>6. Multiple(h * B, B) /\ h * B \in Nat
      BY <1>1, <1>2, <3>1, MultipleProduct
    <3> DEFINE x == h * B
               y == g * MemoryPageSize
    <3>9. x \in Nat /\ y \in Nat /\ Multiple(x, B) /\ Multiple(y, B)
      BY <3>5, <3>6
    <3> HIDE DEF x, y
    <3>7. Multiple(x + y, B) /\ x + y \in Nat
      BY <1>1, <3>9, MultipleSum
    <3>8. Multiple((x + y) + o, B)
      BY <1>1, <3>1, <3>4, <3>7, MultipleSum
    <3> QED BY <3>2, <3>8 DEF x, y
  <2> QED BY <1>1, <2>1, <2>2
<1>6. Multiple(InLayout(kind, p, l) + Buckets!Offset(kind), B)
  BY <1>1, <1>3, <1>4, <1>5, MultipleSum
<1> QED BY <1>2, <1>6, AddressIs DEF B

(* The page a bucket is in.                                                *)
PageAt(kind, p, l) == Buckets!GetAddress(kind, p, l) \div MemoryPageSize

LEMMA BucketInPage ==
  ASSUME Buckets!Parameters, Buckets!NoSharedPages,
           NEW kind \in Buckets!Kind, Buckets!UsesPages(kind),
         NEW p \in Buckets!Path, NEW l, l \in Buckets!Level
  PROVE  /\ Buckets!PagesOf(kind, p, l) = {PageAt(kind, p, l)}
         /\ PageAt(kind, p, l) \in 0 .. Buckets!Size
         /\ Buckets!GetAddress(kind, p, l) = MemoryPageSize * PageAt(kind, p, l)
              + (Buckets!GetAddress(kind, p, l) % MemoryPageSize)
         /\ Buckets!GetAddress(kind, p, l) % MemoryPageSize \in Nat
         /\ (Buckets!GetAddress(kind, p, l) % MemoryPageSize)
              + Buckets!BucketSize(kind) <= MemoryPageSize
<1> DEFINE a == Buckets!GetAddress(kind, p, l)
           B == Buckets!BucketSize(kind)
<1>1. B \in Nat \ {0} /\ MemoryPageSize \in Nat \ {0} /\ a \in Nat /\ Buckets!Size \in Nat
        /\ a <= Buckets!Size
  <2>1. /\ a \in Nat /\ B \in Nat \ {0} /\ a + B <= Buckets!Offset(kind) + Buckets!LayoutSize(kind)
        /\ Buckets!Offset(kind) + Buckets!LayoutSize(kind) <= Buckets!Size
             /\ Buckets!Offset(kind) \in Nat
    BY AddressBounds
  <2>2. Buckets!LayoutSize(kind) \in Nat /\ Buckets!Size \in Nat
    BY SizesAddUp
  <2> HIDE DEF a, B
  <2> QED BY <2>1, <2>2, SizesAre
<1>2. Multiple(a, B) /\ Multiple(MemoryPageSize, B)
  BY BucketsAligned
<1> HIDE DEF a, B
<1>3. /\ (a % MemoryPageSize) + B <= MemoryPageSize /\ a % MemoryPageSize \in Nat
           /\ a \div MemoryPageSize \in Nat
      /\ a = MemoryPageSize * (a \div MemoryPageSize) + (a % MemoryPageSize)
      /\ (a + B - 1) \div MemoryPageSize = a \div MemoryPageSize
  BY <1>1, <1>2, AlignedFits
<1>4. a \div MemoryPageSize <= a
  <2> DEFINE q == a \div MemoryPageSize
             r == a % MemoryPageSize
  <2>1. q \in Nat /\ r \in Nat /\ a = MemoryPageSize * q + r
    BY <1>3
  <2> HIDE DEF q, r
  <2>2. q * 1 <= MemoryPageSize * q
    <3>1. 1 <= MemoryPageSize /\ 1 \in Nat
      BY <1>1
    <3>2. 1 * q <= MemoryPageSize * q
      BY <1>1, <2>1, <3>1, ProductMonotone
    <3> QED BY <2>1, <3>2
  <2> DEFINE y == MemoryPageSize * q
  <2>3. y \in Nat /\ a = y + r /\ q <= y
    BY <1>1, <2>1, <2>2
  <2> HIDE DEF y
  <2>4. q <= a
    BY <1>1, <2>1, <2>3
  <2> QED BY <2>4 DEF q
<1>5. Buckets!PagesOf(kind, p, l) = {a \div MemoryPageSize}
  <2>1. Buckets!PagesOf(kind, p, l) = a \div MemoryPageSize .. (a + B - 1) \div MemoryPageSize
    <3>1. B # 0
      BY <1>1
    <3> QED BY <3>1 DEF Buckets!PagesOf, Buckets!BlocksOf, a, B
  <2> DEFINE q == a \div MemoryPageSize
  <2> HIDE DEF q
  <2>2. q \in Nat /\ Buckets!PagesOf(kind, p, l) = q .. q
    BY <1>3, <2>1 DEF q
  <2>3. q .. q = {q}
    BY <2>2
  <2> QED BY <2>2, <2>3 DEF q
<1>6. a \div MemoryPageSize \in 0 .. Buckets!Size
  BY <1>1, <1>3, <1>4
<1> QED BY <1>3, <1>5, <1>6 DEF a, B, PageAt

(* The pages of a path.                                                    *)
LEMMA PagesAre ==
  ASSUME Buckets!Parameters, Buckets!NoSharedPages, NEW p \in Buckets!Path
  PROVE  /\ Buckets!Pages(p) \subseteq 0 .. Buckets!Size /\ Buckets!Size \in Nat
         /\ IsFiniteSet(Buckets!Pages(p)) /\ Cardinality(Buckets!Pages(p)) \in Nat
         /\ \A g : g \in Buckets!Pages(p) <=> \E k \in Buckets!Kind, l
              \in Buckets!Level : Buckets!UsesPages(k) /\ g = PageAt(k, p, l)
<1>1. \A g : g \in Buckets!Pages(p) <=> \E k \in Buckets!Kind, l
        \in Buckets!Level : Buckets!UsesPages(k) /\ g \in Buckets!PagesOf(k, p, l)
  BY DEF Buckets!Pages
<1>2. \A k \in Buckets!Kind, l \in Buckets!Level : Buckets!UsesPages(k) =>
        Buckets!PagesOf(k, p, l) = {PageAt(k, p, l)} /\ PageAt(k, p, l) \in 0 .. Buckets!Size
  BY BucketInPage
<1>3. \A g : g \in Buckets!Pages(p) <=> \E k \in Buckets!Kind, l
        \in Buckets!Level : Buckets!UsesPages(k) /\ g = PageAt(k, p, l)
  BY <1>1, <1>2
<1>4. Buckets!Pages(p) \subseteq 0 .. Buckets!Size
  BY <1>2, <1>3
<1>5. Buckets!Size \in Nat
  BY SizesAddUp
<1>6. IsFiniteSet(0 .. Buckets!Size)
  BY <1>5, FS_Interval
<1>7. IsFiniteSet(Buckets!Pages(p)) /\ Cardinality(Buckets!Pages(p)) \in Nat
  BY <1>4, <1>6, FS_Subset, FS_CardinalityType
<1> QED BY <1>3, <1>4, <1>5, <1>7

-----------------------------------------------------------------------------
(* The pages in order: how many of them are up to one.                     *)
Rank(P, p) == Cardinality({ q \in P : q <= p })

LEMMA NthExists ==
  ASSUME NEW m \in Nat, NEW P, P \subseteq 0 .. m, NEW n \in 1 .. Cardinality(P)
  PROVE  \E p \in P : Rank(P, p) = n
<1> DEFINE R(p) == { q \in P : q <= p }
           S == { p \in Nat : n <= Cardinality(R(p)) }
<1>1. IsFiniteSet(P) /\ Cardinality(P) \in Nat
  <2>1. 0 \in Int /\ m \in Int /\ IsFiniteSet(0 .. m)
    BY FS_Interval
  <2> QED BY <2>1, FS_Subset, FS_CardinalityType
<1>2. \A p \in Nat : IsFiniteSet(R(p)) /\ Cardinality(R(p)) \in Nat
  <2>1. \A p \in Nat : R(p) \subseteq P
    OBVIOUS
  <2> QED BY <1>1, <2>1, FS_Subset, FS_CardinalityType
<1>3. S \subseteq Nat /\ m \in S
  <2>1. R(m) = P
    <3>1. \A q \in P : q <= m
      OBVIOUS
    <3> QED BY <3>1
  <2> QED BY <2>1
<1>4. PICK p \in S : \A r \in S : ~(r < p)
  <2>1. S \subseteq Nat /\ S # {}
    BY <1>3
  <2> HIDE DEF S
  <2> QED BY <2>1, LeastElement
<1>5. p \in Nat /\ n <= Cardinality(R(p)) /\ n \in Nat /\ n # 0
  BY <1>1, <1>4
<1>6. CASE p = 0
  <2>1. R(0) \subseteq {0}
    <3>1. \A q \in P : q \in Nat
      OBVIOUS
    <3>2. \A q \in P : q <= 0 => q = 0
      BY <3>1
    <3> QED BY <3>2
  <2>2. R(0) # {}
    <3>1. R(0) = {} => Cardinality(R(0)) = 0
      BY FS_EmptySet
    <3> HIDE DEF R
    <3> QED BY <1>5, <1>6, <3>1
  <2>3. R(0) = {0} /\ 0 \in P
    BY <2>1, <2>2
  <2>4. Cardinality(R(0)) = 1
    BY <2>3, FS_Singleton
  <2>5. n = 1
    <3> HIDE DEF R
    <3> QED BY <1>5, <1>6, <2>4
  <2> QED BY <2>3, <2>4, <2>5 DEF Rank
<1>7. CASE p # 0
  <2>1. p - 1 \in Nat /\ p - 1 < p
    BY <1>5, <1>7
  <2>2. ~(n <= Cardinality(R(p - 1)))
    BY <1>4, <2>1
  <2>3. R(p) = IF p \in P THEN R(p - 1) \cup {p} ELSE R(p - 1)
    <3>1. \A q \in P : q <= p <=> q = p \/ q <= p - 1
      BY <1>5
    <3> QED BY <3>1
  <2>4. p \notin R(p - 1)
    BY <1>5
  <2> HIDE DEF R, S
  <2>5. p \in P
    BY <1>5, <2>2, <2>3
  <2>6. Cardinality(R(p)) = Cardinality(R(p - 1)) + 1
    BY <1>2, <2>1, <2>3, <2>4, <2>5, FS_AddElement
  <2>7. Cardinality(R(p)) = n
    BY <1>2, <1>5, <2>1, <2>2, <2>6
  <2> QED BY <2>5, <2>7 DEF R, Rank
<1> QED BY <1>6, <1>7

LEMMA RankFacts ==
  ASSUME NEW m \in Nat, NEW P, P \subseteq 0 .. m
  PROVE  /\ Cardinality(P) \in Nat
         /\ \A p \in P : Rank(P, p) \in 1 .. Cardinality(P)
         /\ \A p, q \in P : Rank(P, p) = Rank(P, q) => p = q
<1> DEFINE R(p) == { q \in P : q <= p }
<1>1. IsFiniteSet(P) /\ Cardinality(P) \in Nat
  <2>1. 0 \in Int /\ m \in Int /\ IsFiniteSet(0 .. m)
    BY FS_Interval
  <2> QED BY <2>1, FS_Subset, FS_CardinalityType
<1>2. ASSUME NEW p \in P
      PROVE  /\ IsFiniteSet(R(p)) /\ Cardinality(R(p)) \in Nat \ {0}
             /\ Cardinality(R(p)) <= Cardinality(P)
  <2>1. R(p) \subseteq P /\ p \in R(p)
    OBVIOUS
  <2> HIDE DEF R
  <2>2. /\ IsFiniteSet(R(p)) /\ Cardinality(R(p)) <= Cardinality(P)
        /\ Cardinality(R(p)) \in Nat
    BY <1>1, <2>1, FS_Subset, FS_CardinalityType
  <2>3. Cardinality(R(p)) # 0
    BY <2>1, <2>2, FS_EmptySet
  <2> QED BY <2>2, <2>3
<1>3. ASSUME NEW p \in P, NEW q \in P, p < q
      PROVE  Cardinality(R(p)) < Cardinality(R(q))
  <2>1. q \notin R(p) /\ R(p) \cup {q} \subseteq R(q)
    <3>1. P \subseteq Nat /\ p \in Nat /\ q \in Nat
      OBVIOUS
    <3>2. ~(q <= p) /\ q <= q /\ \A x \in Nat : x <= p => x <= q
      BY <1>3, <3>1
    <3> QED BY <3>1, <3>2
  <2> HIDE DEF R
  <2>2. Cardinality(R(p) \cup {q}) = Cardinality(R(p)) + 1
    BY <1>2, <2>1, FS_AddElement
  <2>3. Cardinality(R(p) \cup {q}) <= Cardinality(R(q))
    BY <1>2, <2>1, FS_Subset
  <2> QED BY <1>2, <2>2, <2>3
<1>5. ASSUME NEW p \in P, NEW q \in P, Cardinality(R(p)) = Cardinality(R(q))
      PROVE  p = q
  <2>1. p \in Nat /\ q \in Nat
    OBVIOUS
  <2>2. ~(p < q) /\ ~(q < p)
    <3> HIDE DEF R
    <3> QED BY <1>2, <1>3, <1>5
  <2> QED BY <2>1, <2>2
<1> HIDE DEF R
<1>6. \A p : Rank(P, p) = Cardinality(R(p))
  BY DEF Rank, R
<1> QED
  BY <1>1, <1>2, <1>5, <1>6

(* The page the i-th page request of a path asks for.                      *)
Nth(P, i) == CHOOSE g \in P : Rank(P, g) = i

LEMMA NthIs ==
  ASSUME NEW m \in Nat, NEW P, P \subseteq 0 .. m
  PROVE  /\ \A i \in 1 .. Cardinality(P) : Nth(P, i) \in P /\ Rank(P, Nth(P, i)) = i
         /\ \A g \in P : Nth(P, Rank(P, g)) = g
<1>1. ASSUME NEW i \in 1 .. Cardinality(P)
      PROVE  Nth(P, i) \in P /\ Rank(P, Nth(P, i)) = i
  <2>1. \E g \in P : Rank(P, g) = i
    BY NthExists
  <2> QED BY <2>1 DEF Nth
<1>2. ASSUME NEW g \in P PROVE Nth(P, Rank(P, g)) = g
  <2>1. Rank(P, g) \in 1 .. Cardinality(P)
    BY RankFacts
  <2>2. Nth(P, Rank(P, g)) \in P /\ Rank(P, Nth(P, Rank(P, g))) = Rank(P, g)
    BY <1>1, <2>1
  <2> QED BY <2>2, RankFacts
<1> QED BY <1>1, <1>2

-----------------------------------------------------------------------------
(* The requests of a path: those of buckets, then those of pages.          *)
OwnLength(kind) == IF Buckets!UsesPages(kind) THEN 0 ELSE Levels

OwnLengths == OwnLength("metadata") + OwnLength("data")

OwnRequest(kind, l) == Buckets!NonBlockAccessStart(kind) + l + 1

PageRequest(p, g) == OwnLengths + Rank(Buckets!Pages(p), g)

Own(kind, l) == ~Buckets!UsesPages(kind) /\ kind \in Buckets!Kind /\ l \in Buckets!Level

LEMMA OwnLengthsAre ==
  ASSUME Buckets!Parameters
  PROVE  /\ OwnLengths = Cardinality({ k \in Buckets!Kind : ~Buckets!UsesPages(k) }) * Levels
         /\ OwnLength("metadata") \in Nat /\ OwnLength("data") \in Nat /\ OwnLengths \in Nat
         /\ Buckets!NonBlockAccessStart("metadata") = 0
         /\ Buckets!NonBlockAccessStart("data") = OwnLength("metadata")
<1> DEFINE S == { k \in Buckets!Kind : ~Buckets!UsesPages(k) }
<1>1. Levels \in Nat
  BY LevelsFacts
<1>2. Buckets!Kind = {"data", "metadata"} /\ "data" # "metadata"
  BY DEF Buckets!Kind
<1>3. CASE Buckets!UsesPages("data") /\ Buckets!UsesPages("metadata")
  <2>1. S = {}
    BY <1>2, <1>3
  <2>2. Cardinality(S) = 0
    BY <2>1, FS_EmptySet
  <2> QED BY <1>1, <1>3, <2>2 DEF OwnLengths, OwnLength, Buckets!NonBlockAccessStart
<1>4. CASE Buckets!UsesPages("data") /\ ~Buckets!UsesPages("metadata")
  <2>1. S = {"metadata"}
    BY <1>2, <1>4
  <2>2. Cardinality(S) = 1
    BY <2>1, FS_Singleton
  <2> QED BY <1>1, <1>4, <2>2 DEF OwnLengths, OwnLength, Buckets!NonBlockAccessStart
<1>5. CASE ~Buckets!UsesPages("data") /\ Buckets!UsesPages("metadata")
  <2>1. S = {"data"}
    BY <1>2, <1>5
  <2>2. Cardinality(S) = 1
    BY <2>1, FS_Singleton
  <2> QED BY <1>1, <1>5, <2>2 DEF OwnLengths, OwnLength, Buckets!NonBlockAccessStart
<1>6. CASE ~Buckets!UsesPages("data") /\ ~Buckets!UsesPages("metadata")
  <2>1. S = {"data", "metadata"}
    BY <1>2, <1>6
  <2>2. Cardinality({"data"} \cup {"metadata"}) = 2
    <3>1. IsFiniteSet({"data"}) /\ Cardinality({"data"}) = 1
      BY FS_Singleton
    <3>2. "metadata" \notin {"data"}
      BY <1>2
    <3>3. Cardinality({"data"} \cup {"metadata"}) = 1 + 1
      BY <3>1, <3>2, FS_AddElement
    <3> QED BY <3>3
  <2>3. {"data"} \cup {"metadata"} = S
    BY <2>1
  <2>4. Cardinality(S) = 2
    BY <2>2, <2>3
  <2> QED BY <1>1, <1>6, <2>4 DEF OwnLengths, OwnLength, Buckets!NonBlockAccessStart
<1> QED BY <1>3, <1>4, <1>5, <1>6

LEMMA OwnRequestsAre ==
  ASSUME Buckets!Parameters, NEW kind \in Buckets!Kind, NEW p \in Buckets!Path
  PROVE  /\ Buckets!OwnRequests(kind, p) \in Seq([address : Nat, size : Nat])
         /\ Len(Buckets!OwnRequests(kind, p)) = OwnLength(kind)
         /\ ~Buckets!UsesPages(kind) => \A l \in Buckets!Level :
              /\ l + 1 \in 1 .. OwnLength(kind)
              /\ Buckets!OwnRequests(kind, p)[l + 1]
                   = [address |-> Buckets!GetAddress(kind, p, l), size |-> Buckets!BucketSize(kind)]
<1> DEFINE R(i) == [address |-> Buckets!AddressFromPath(kind, p, i - 1),
             size |-> Buckets!BucketSize(kind)]
<1>1. Levels \in Nat /\ Buckets!Level = 0 .. Levels - 1
  BY LevelsFacts DEF Buckets!Level
<1>2. \A i \in 1 .. Levels : i - 1 \in Buckets!Level
  BY <1>1
<1>3. \A i \in 1 .. Levels : R(i) \in [address : Nat, size : Nat]
  <2> SUFFICES ASSUME NEW i \in 1 .. Levels PROVE R(i) \in [address : Nat, size : Nat]
    OBVIOUS
  <2>1. Buckets!AddressFromPath(kind, p, i - 1) \in Nat /\ Buckets!BucketSize(kind) \in Nat
    BY <1>2, AddressFromPathIs, AddressBounds
  <2> QED BY <2>1
<1>4. CASE Buckets!UsesPages(kind)
  <2>1. Buckets!OwnRequests(kind, p) = << >> /\ OwnLength(kind) = 0
    BY <1>4 DEF Buckets!OwnRequests, OwnLength
  <2> QED BY <1>4, <2>1
<1>5. CASE ~Buckets!UsesPages(kind)
  <2>1. Buckets!OwnRequests(kind, p) = [i \in 1 .. Levels |-> R(i)] /\ OwnLength(kind) = Levels
    BY <1>5 DEF Buckets!OwnRequests, OwnLength
  <2>2. Buckets!OwnRequests(kind, p) \in Seq([address : Nat, size : Nat])
          /\ Len(Buckets!OwnRequests(kind, p)) = Levels
    <3> HIDE DEF R
    <3> QED BY <1>1, <1>3, <2>1
  <2>3. ASSUME NEW l \in Buckets!Level
        PROVE  /\ l + 1 \in 1 .. Levels
               /\ Buckets!OwnRequests(kind, p)[l + 1]
                   = [address |-> Buckets!GetAddress(kind, p, l), size |-> Buckets!BucketSize(kind)]
    <3>1. l + 1 \in 1 .. Levels /\ (l + 1) - 1 = l
      BY <1>1
    <3>2. Buckets!OwnRequests(kind, p)[l + 1] = R(l + 1)
      BY <2>1, <3>1
    <3> QED BY <3>1, <3>2, AddressFromPathIs
  <2> QED BY <2>1, <2>2, <2>3
<1> QED BY <1>4, <1>5

LEMMA PageRequestsAre ==
  ASSUME Buckets!Parameters, Buckets!NoSharedPages, NEW p \in Buckets!Path
  PROVE  /\ Buckets!PageRequests(p) \in Seq([address : Nat, size : Nat])
         /\ Len(Buckets!PageRequests(p)) = Cardinality(Buckets!Pages(p))
              /\ Cardinality(Buckets!Pages(p)) \in Nat
         /\ \A g \in Buckets!Pages(p) :
              /\ Rank(Buckets!Pages(p), g) \in 1 .. Cardinality(Buckets!Pages(p))
              /\ Buckets!PageRequests(p)[Rank(Buckets!Pages(p), g)]
                   = [address |-> MemoryPageSize * g, size |-> MemoryPageSize]
         /\ \A i \in 1 .. Cardinality(Buckets!Pages(p)) : \E g
              \in Buckets!Pages(p) : Rank(Buckets!Pages(p), g) = i
<1> DEFINE P == Buckets!Pages(p)
           N == Cardinality(P)
           R(i) == [address |-> MemoryPageSize * Nth(P, i), size |-> MemoryPageSize]
<1>1. P \subseteq 0 .. Buckets!Size /\ Buckets!Size \in Nat /\ N \in Nat /\ MemoryPageSize \in Nat
  <2>1. MemoryPageSize \in Nat
    BY SizesAre DEF Buckets!Kind
  <2> QED BY <2>1, PagesAre
<1>2. Buckets!PageRequests(p) = [i \in 1 .. N |-> R(i)]
  BY DEF Buckets!PageRequests, Nth, Rank, Buckets!Cardinality, Cardinality
<1> HIDE DEF P
<1>3. \A i \in 1 .. N : Nth(P, i) \in P /\ Rank(P, Nth(P, i)) = i
  BY <1>1, NthIs
<1>4. \A i \in 1 .. N : R(i) \in [address : Nat, size : Nat]
  <2> SUFFICES ASSUME NEW i \in 1 .. N PROVE R(i) \in [address : Nat, size : Nat]
    OBVIOUS
  <2>1. Nth(P, i) \in Nat
    <3>1. Nth(P, i) \in P
      BY <1>3
    <3>2. \A g \in P : g \in Nat
      BY <1>1
    <3> QED BY <3>1, <3>2
  <2>2. MemoryPageSize * Nth(P, i) \in Nat
    BY <1>1, <2>1
  <2> QED BY <1>1, <2>2
<1>5. Buckets!PageRequests(p) \in Seq([address : Nat, size : Nat])
        /\ Len(Buckets!PageRequests(p)) = N
  <2> HIDE DEF R, N
  <2> QED BY <1>1, <1>2, <1>4
<1>6. ASSUME NEW g \in P
      PROVE  /\ Rank(P, g) \in 1 .. N
             /\ Buckets!PageRequests(p)[Rank(P, g)]
                  = [address |-> MemoryPageSize * g, size |-> MemoryPageSize]
  <2>1. Rank(P, g) \in 1 .. N
    BY <1>1, RankFacts
  <2>2. Nth(P, Rank(P, g)) = g
    BY <1>1, NthIs
  <2>3. Buckets!PageRequests(p)[Rank(P, g)] = R(Rank(P, g))
    BY <1>2, <2>1
  <2> QED BY <2>1, <2>2, <2>3
<1> QED BY <1>1, <1>3, <1>5, <1>6 DEF P

(* The requests of a path and what each asks for.                          *)
LEMMA WantedIs ==
  ASSUME Buckets!Parameters, Buckets!NoSharedPages, NEW p \in Buckets!Path
  PROVE  LET W == Buckets!RequestsFor[p]
         IN  /\ W \in Seq([address : Nat, size : Nat]) /\ Len(W) \in Nat
             /\ Len(W) = OwnLengths + Cardinality(Buckets!Pages(p))
             /\ \A k, l : Own(k, l) =>
                  /\ OwnRequest(k, l) \in 1 .. Len(W)
                  /\ W[OwnRequest(k, l)]
                       = [address |-> Buckets!GetAddress(k, p, l), size |-> Buckets!BucketSize(k)]
             /\ \A g \in Buckets!Pages(p) :
                  /\ PageRequest(p, g) \in 1 .. Len(W)
                  /\ W[PageRequest(p, g)]
                       = [address |-> MemoryPageSize * g, size |-> MemoryPageSize]
             /\ \A i \in 1 .. Len(W) : \/ \E k, l : Own(k, l) /\ i = OwnRequest(k, l)
                                       \/ \E g \in Buckets!Pages(p) : i = PageRequest(p, g)
<1> DEFINE W == Buckets!RequestsFor[p]
           A == Buckets!OwnRequests("metadata", p)
           B == Buckets!OwnRequests("data", p)
           C == Buckets!PageRequests(p)
           T == [address : Nat, size : Nat]
           m == OwnLength("metadata")
           d == OwnLength("data")
           n == Cardinality(Buckets!Pages(p))
<1>1. W = (A \o B) \o C
  BY DEF Buckets!RequestsFor
<1>2. /\ A \in Seq(T) /\ B \in Seq(T) /\ C \in Seq(T) /\ Len(A) = m /\ Len(B) = d /\ Len(C) = n
      /\ m \in Nat /\ d \in Nat /\ n \in Nat
  BY OwnRequestsAre, PageRequestsAre, OwnLengthsAre DEF Buckets!Kind
<1>3. Levels \in Nat /\ Buckets!Level = 0 .. Levels - 1
  BY LevelsFacts DEF Buckets!Level
<1>4. \A l \in Buckets!Level : ~Buckets!UsesPages("metadata") => l + 1 \in 1 .. m
        /\ A[l + 1] = [address |-> Buckets!GetAddress("metadata", p, l),
             size |-> Buckets!BucketSize("metadata")]
  BY OwnRequestsAre DEF Buckets!Kind
<1>5. \A l \in Buckets!Level : ~Buckets!UsesPages("data") => l + 1 \in 1 .. d
        /\ B[l + 1] = [address |-> Buckets!GetAddress("data", p, l),
             size |-> Buckets!BucketSize("data")]
  BY OwnRequestsAre DEF Buckets!Kind
<1>6. OwnLengths = m + d
  BY DEF OwnLengths
<1>7. Buckets!NonBlockAccessStart("metadata") = 0 /\ Buckets!NonBlockAccessStart("data") = m
  BY OwnLengthsAre
<1>8. (m = 0 \/ (m = Levels /\ ~Buckets!UsesPages("metadata")))
        /\ (d = 0 \/ (d = Levels /\ ~Buckets!UsesPages("data")))
  <2>1. OwnLength("metadata") = 0
          \/ (OwnLength("metadata") = Levels /\ ~Buckets!UsesPages("metadata"))
    <3>1. CASE Buckets!UsesPages("metadata")
      BY <3>1 DEF OwnLength
    <3>2. CASE ~Buckets!UsesPages("metadata")
      BY <3>2 DEF OwnLength
    <3> QED BY <3>1, <3>2
  <2>2. OwnLength("data") = 0 \/ (OwnLength("data") = Levels /\ ~Buckets!UsesPages("data"))
    <3>1. CASE Buckets!UsesPages("data")
      BY <3>1 DEF OwnLength
    <3>2. CASE ~Buckets!UsesPages("data")
      BY <3>2 DEF OwnLength
    <3> QED BY <3>1, <3>2
  <2> QED BY <2>1, <2>2
<1> HIDE DEF W, A, B, C, T, m, d, n
<1>9. /\ W \in Seq(T) /\ Len(W) = m + d + n
      /\ \A i \in 1 .. m : W[i] = A[i]
      /\ \A i \in 1 .. d : W[m + i] = B[i]
      /\ \A i \in 1 .. n : W[m + d + i] = C[i]
  <2>1. A \o B \in Seq(T) /\ Len(A \o B) = m + d
    BY <1>2, ConcatProperties
  <2>2. /\ W \in Seq(T) /\ Len(W) = m + d + n
        /\ \A i \in 1 .. m + d + n : W[i] = IF i <= m + d THEN (A \o B)[i] ELSE C[i - (m + d)]
    <3> DEFINE E == A \o B
    <3>1. E \in Seq(T) /\ Len(E) = m + d /\ W = E \o C
      BY <1>1, <2>1
    <3> HIDE DEF E
    <3>4. C \in Seq(T)
      BY <1>2
    <3>2. /\ W \in Seq(T) /\ Len(W) = Len(E) + Len(C)
          /\ \A i \in 1 .. Len(E) + Len(C) : W[i] = IF i <= Len(E) THEN E[i] ELSE C[i - Len(E)]
      BY ONLY <3>1, <3>4, ConcatProperties
    <3>3. /\ W \in Seq(T) /\ Len(W) = m + d + n
          /\ \A i \in 1 .. m + d + n : W[i] = IF i <= m + d THEN E[i] ELSE C[i - (m + d)]
      BY <1>2, <3>1, <3>2
    <3> QED BY <3>3 DEF E
  <2>3. \A i \in 1 .. m + d : (A \o B)[i] = IF i <= m THEN A[i] ELSE B[i - m]
    BY <1>2, ConcatProperties
  <2>4. \A i \in 1 .. m : W[i] = A[i]
    BY <1>2, <2>2, <2>3
  <2>5. ASSUME NEW i \in 1 .. d PROVE W[m + i] = B[i]
    <3>1. m + i \in 1 .. m + d + n /\ m + i \in 1 .. m + d /\ m + i <= m + d /\ ~(m + i <= m)
            /\ (m + i) - m = i
      BY <1>2
    <3>2. W[m + i] = (A \o B)[m + i] /\ (A \o B)[m + i] = B[(m + i) - m]
      BY <2>2, <2>3, <3>1
    <3> QED BY <3>1, <3>2
  <2>6. ASSUME NEW i \in 1 .. n PROVE W[m + d + i] = C[i]
    <3>1. m + d + i \in 1 .. m + d + n /\ ~(m + d + i <= m + d) /\ (m + d + i) - (m + d) = i
      BY <1>2
    <3>2. W[m + d + i] = C[(m + d + i) - (m + d)]
      BY <2>2, <3>1
    <3> QED BY <3>1, <3>2
  <2> QED BY <2>2, <2>4, <2>5, <2>6
<1>10. ASSUME NEW k, NEW l, Own(k, l)
       PROVE  /\ OwnRequest(k, l) \in 1 .. Len(W)
              /\ W[OwnRequest(k, l)]
                   = [address |-> Buckets!GetAddress(k, p, l), size |-> Buckets!BucketSize(k)]
  <2>1. l \in Buckets!Level /\ ~Buckets!UsesPages(k) /\ (k = "data" \/ k = "metadata") /\ l \in Nat
    BY <1>3, <1>10 DEF Own, Buckets!Kind
  <2>2. CASE k = "metadata"
    <3>1. OwnRequest(k, l) = l + 1
      BY <1>7, <2>1, <2>2 DEF OwnRequest
    <3>2. l + 1 \in 1 .. m
      BY <1>4, <2>1, <2>2
    <3>3. l + 1 \in 1 .. Len(W)
      BY <1>2, <1>9, <3>2
    <3> QED BY <1>4, <1>9, <2>1, <2>2, <3>1, <3>2, <3>3
  <2>3. CASE k = "data"
    <3>1. OwnRequest(k, l) = m + (l + 1)
      BY <1>2, <1>7, <2>1, <2>3 DEF OwnRequest
    <3>2. l + 1 \in 1 .. d
      BY <1>5, <2>1, <2>3
    <3>3. m + (l + 1) \in 1 .. Len(W)
      BY <1>2, <1>9, <3>2
    <3> QED BY <1>5, <1>9, <2>1, <2>3, <3>1, <3>2, <3>3
  <2> QED BY <2>1, <2>2, <2>3
<1>11. ASSUME NEW g \in Buckets!Pages(p)
       PROVE  /\ PageRequest(p, g) \in 1 .. Len(W)
              /\ W[PageRequest(p, g)] = [address |-> MemoryPageSize * g, size |-> MemoryPageSize]
  <2> DEFINE r == Rank(Buckets!Pages(p), g)
  <2>1. r \in 1 .. n /\ C[r] = [address |-> MemoryPageSize * g, size |-> MemoryPageSize]
    BY PageRequestsAre DEF n, C
  <2>2. PageRequest(p, g) = m + d + r
    BY <1>6 DEF PageRequest
  <2> HIDE DEF r
  <2>3. m + d + r \in 1 .. Len(W)
    BY <1>2, <1>9, <2>1
  <2> QED BY <1>9, <2>1, <2>2, <2>3
<1>12. ASSUME NEW i \in 1 .. Len(W)
       PROVE  \/ \E k, l : Own(k, l) /\ i = OwnRequest(k, l)
              \/ \E g \in Buckets!Pages(p) : i = PageRequest(p, g)
  <2>1. i \in 1 .. m \/ i - m \in 1 .. d \/ i - (m + d) \in 1 .. n
    BY <1>2, <1>9
  <2>2. CASE i \in 1 .. m
    <3>1. ~Buckets!UsesPages("metadata") /\ i - 1 \in Buckets!Level /\ i = 0 + (i - 1) + 1
      BY <1>2, <1>3, <1>8, <2>2
    <3>2. Own("metadata", i - 1) /\ i = OwnRequest("metadata", i - 1)
      BY <1>7, <3>1 DEF Own, Buckets!Kind, OwnRequest
    <3> QED BY <3>2
  <2>3. CASE i - m \in 1 .. d
    <3>3. d # 0 /\ i \in Int
      BY <1>2, <1>9, <2>3
    <3>4. d = Levels /\ ~Buckets!UsesPages("data")
      BY <1>8, <3>3
    <3>5. i - m - 1 \in Buckets!Level /\ i = m + (i - m - 1) + 1
      BY ONLY <1>2, <1>3, <2>3, <3>3, <3>4
    <3>1. ~Buckets!UsesPages("data") /\ i - m - 1 \in Buckets!Level /\ i = m + (i - m - 1) + 1
      BY <3>4, <3>5
    <3>2. Own("data", i - m - 1) /\ i = OwnRequest("data", i - m - 1)
      BY <1>7, <3>1 DEF Own, Buckets!Kind, OwnRequest
    <3> QED BY <3>2
  <2>4. CASE i - (m + d) \in 1 .. n
    <3>1. PICK g \in Buckets!Pages(p) : Rank(Buckets!Pages(p), g) = i - (m + d)
      BY <2>4, PageRequestsAre DEF n
    <3>2. PageRequest(p, g) = m + d + (i - (m + d))
      BY <1>6, <3>1 DEF PageRequest
    <3>3. i = m + d + (i - (m + d))
      BY <1>2, <1>9
    <3> QED BY <3>2, <3>3
  <2> QED BY <2>1, <2>2, <2>3, <2>4
<1>13. Len(W) = OwnLengths + n /\ Len(W) \in Nat
  BY <1>2, <1>6, <1>9
<1> QED BY <1>9, <1>10, <1>11, <1>12, <1>13 DEF W, T, n

-----------------------------------------------------------------------------
(* Whether a request covers a place of the memory.                         *)
Covers(request, a) == request.address <= a /\ a < request.address + request.size

(* A page of one kind covers no bucket of a kind not read in pages.        *)
LEMMA PageOffOwn ==
  ASSUME Buckets!Parameters, Buckets!NoSharedPages, NEW p \in Buckets!Path, NEW k, NEW l, Own(k, l),
           NEW g \in Buckets!Pages(p),
         NEW a \in Nat, Buckets!GetAddress(k, p, l) <= a, a < Buckets!GetAddress(k, p, l)
           + Buckets!BucketSize(k),
         MemoryPageSize * g <= a, a < MemoryPageSize * g + MemoryPageSize
  PROVE  FALSE
<1>1. k \in Buckets!Kind /\ ~Buckets!UsesPages(k) /\ l \in Buckets!Level
  BY DEF Own
<1>2. PICK o \in Buckets!Kind, m \in Buckets!Level : Buckets!UsesPages(o) /\ g = PageAt(o, p, m)
  BY PagesAre
<1>3. k # o /\ Buckets!Kind = {"data", "metadata"}
  BY <1>1, <1>2 DEF Buckets!Kind
<1> DEFINE D == Buckets!LayoutSize("data")
           x == Buckets!GetAddress(k, p, l)
           y == Buckets!GetAddress(o, p, m)
           r == y % MemoryPageSize
<1>4. D \in Nat /\ MemoryPageSize \in Nat \ {0} /\ D % MemoryPageSize = 0
  <2>1. D \in Nat /\ MemoryPageSize \in Nat \ {0}
    BY <1>1, SizesAddUp, SizesAre
  <2>2. ~(Buckets!UsesPages("data") <=> Buckets!UsesPages("metadata"))
    BY <1>1, <1>2, <1>3
  <2> QED BY <2>1, <2>2 DEF Buckets!NoSharedPages
<1>5. PICK z \in Nat : D = MemoryPageSize * z
  BY <1>4, RemainderZero DEF Multiple
<1>6. /\ y = MemoryPageSize * g + r /\ r \in Nat /\ r < MemoryPageSize /\ g \in Nat
      /\ y \in Nat /\ x \in Nat /\ Buckets!Offset(k) <= x /\ Buckets!Offset(o) <= y
      /\ x + Buckets!BucketSize(k) <= Buckets!Offset(k) + Buckets!LayoutSize(k)
      /\ y + Buckets!BucketSize(o) <= Buckets!Offset(o) + Buckets!LayoutSize(o)
      /\ Buckets!BucketSize(k) \in Nat \ {0} /\ Buckets!BucketSize(o) \in Nat \ {0}
  <2>1. /\ y = MemoryPageSize * g + r /\ r \in Nat /\ g \in 0 .. Buckets!Size
        /\ r + Buckets!BucketSize(o) <= MemoryPageSize
    BY <1>2, BucketInPage
  <2>2. /\ y \in Nat /\ x \in Nat /\ Buckets!Offset(k) <= x /\ Buckets!Offset(o) <= y
        /\ x + Buckets!BucketSize(k) <= Buckets!Offset(k) + Buckets!LayoutSize(k)
        /\ y + Buckets!BucketSize(o) <= Buckets!Offset(o) + Buckets!LayoutSize(o)
        /\ Buckets!BucketSize(k) \in Nat \ {0} /\ Buckets!BucketSize(o) \in Nat \ {0}
    BY <1>1, <1>2, AddressBounds
  <2>3. g \in Nat
    BY <2>1, SizesAddUp
  <2> HIDE DEF x, y, r
  <2> QED BY <1>4, <2>1, <2>2, <2>3
<1>7. /\ Buckets!Offset("data") = 0 /\ Buckets!Offset("metadata") = D
      /\ Buckets!LayoutSize("metadata") \in Nat
  BY SizesAddUp
<1>8. x <= a /\ a < x + Buckets!BucketSize(k)
  OBVIOUS
<1> DEFINE u == MemoryPageSize * g
           v == MemoryPageSize * z
<1>9. u \in Nat /\ v \in Nat /\ u <= a /\ a < u + MemoryPageSize
  BY <1>4, <1>5, <1>6
<1> HIDE DEF x, y, r
<1>10. CASE k = "metadata" /\ o = "data"
  <2>1. u < v
    <3> HIDE DEF u, v, D
    <3>1. y = u + r /\ D = v
      BY <1>5, <1>6 DEF u, v
    <3>2. y + Buckets!BucketSize(o) <= 0 + D
      BY <1>6, <1>7, <1>10 DEF D
    <3> QED BY <1>6, <1>9, <3>1, <3>2
  <2>2. g < z
    <3>1. SUFFICES ASSUME z <= g PROVE FALSE
      BY <1>5, <1>6
    <3>2. z * MemoryPageSize <= g * MemoryPageSize
      BY <1>4, <1>5, <1>6, <3>1, ProductMonotone
    <3>3. z * MemoryPageSize = v /\ g * MemoryPageSize = u
      BY <1>4, <1>5, <1>6
    <3> HIDE DEF u, v
    <3> QED BY <1>9, <2>1, <3>2, <3>3
  <2>3. u + MemoryPageSize <= v
    <3>1. (g + 1) * MemoryPageSize <= z * MemoryPageSize
            /\ (g + 1) * MemoryPageSize = g * MemoryPageSize + MemoryPageSize
      <4>1. g + 1 \in Nat /\ g + 1 <= z
        BY <1>5, <1>6, <2>2
      <4> QED BY <1>4, <1>5, <1>6, <4>1, ProductMonotone, ProductNext
    <3>2. z * MemoryPageSize = v /\ g * MemoryPageSize = u
      BY <1>4, <1>5, <1>6
    <3> HIDE DEF u, v
    <3> QED BY <3>1, <3>2
  <2>4. v <= x
    BY <1>5, <1>6, <1>7, <1>10
  <2> HIDE DEF u, v
  <2> QED BY <1>4, <1>6, <1>8, <1>9, <2>3, <2>4
<1>11. CASE k = "data" /\ o = "metadata"
  <2>1. v <= u + r
    <3> HIDE DEF u, v
    <3>1. y = u + r /\ D = v
      BY <1>5, <1>6 DEF u, v
    <3> QED BY <1>6, <1>7, <1>11, <3>1
  <2>2. z <= g
    <3>1. SUFFICES ASSUME g < z PROVE FALSE
      BY <1>5, <1>6
    <3>2. (g + 1) * MemoryPageSize <= z * MemoryPageSize
            /\ (g + 1) * MemoryPageSize = g * MemoryPageSize + MemoryPageSize
      <4>1. g + 1 \in Nat /\ g + 1 <= z
        BY <1>5, <1>6, <3>1
      <4> QED BY <1>4, <1>5, <1>6, <4>1, ProductMonotone, ProductNext
    <3>3. z * MemoryPageSize = v /\ g * MemoryPageSize = u
      BY <1>4, <1>5, <1>6
    <3> HIDE DEF u, v
    <3> QED BY <1>4, <1>6, <1>9, <2>1, <3>2, <3>3
  <2>3. v <= u
    <3>1. z * MemoryPageSize <= g * MemoryPageSize
      BY <1>4, <1>5, <1>6, <2>2, ProductMonotone
    <3>2. z * MemoryPageSize = v /\ g * MemoryPageSize = u
      BY <1>4, <1>5, <1>6
    <3> HIDE DEF u, v
    <3> QED BY <3>1, <3>2
  <2>4. a < v
    <3> HIDE DEF u, v, D
    <3>1. D = v
      BY <1>5 DEF u, v
    <3>2. x + Buckets!BucketSize(k) <= 0 + D
      BY <1>6, <1>7, <1>11 DEF D
    <3> QED BY <1>4, <1>6, <1>8, <3>1, <3>2
  <2> HIDE DEF u, v
  <2> QED BY <1>9, <2>3, <2>4
<1> QED BY <1>1, <1>2, <1>3, <1>10, <1>11

(* No two requests of a path cover the same place.                         *)
LEMMA WantedApart ==
  ASSUME Buckets!Parameters, Buckets!NoSharedPages, NEW p \in Buckets!Path, NEW a \in Nat,
         NEW i \in 1 .. Len(Buckets!RequestsFor[p]), NEW j \in 1 .. Len(Buckets!RequestsFor[p]),
         Covers(Buckets!RequestsFor[p][i], a), Covers(Buckets!RequestsFor[p][j], a)
  PROVE  i = j
<1> DEFINE W == Buckets!RequestsFor[p]
<1>1. /\ \A k, l : Own(k, l) =>
           W[OwnRequest(k, l)]
             = [address |-> Buckets!GetAddress(k, p, l), size |-> Buckets!BucketSize(k)]
      /\ \A g \in Buckets!Pages(p) : W[PageRequest(p, g)]
           = [address |-> MemoryPageSize * g, size |-> MemoryPageSize]
      /\ \A n \in 1 .. Len(W) : \/ \E k, l : Own(k, l) /\ n = OwnRequest(k, l)
                                \/ \E g \in Buckets!Pages(p) : n = PageRequest(p, g)
  BY WantedIs
<1>2. Covers(W[i], a) /\ Covers(W[j], a)
  OBVIOUS
<1> HIDE DEF W
<1>3. \A k, l, n : (Own(k, l) /\ n = OwnRequest(k, l) /\ Covers(W[n], a)) =>
        Buckets!GetAddress(k, p, l) <= a /\ a < Buckets!GetAddress(k, p, l) + Buckets!BucketSize(k)
  <2> SUFFICES ASSUME NEW k, NEW l, NEW n, Own(k, l), n = OwnRequest(k, l), Covers(W[n], a)
               PROVE  Buckets!GetAddress(k, p, l) <= a
                        /\ a < Buckets!GetAddress(k, p, l) + Buckets!BucketSize(k)
    OBVIOUS
  <2>1. W[n].address = Buckets!GetAddress(k, p, l) /\ W[n].size = Buckets!BucketSize(k)
    <3>1. W[n] = [address |-> Buckets!GetAddress(k, p, l), size |-> Buckets!BucketSize(k)]
      BY <1>1
    <3> QED BY <3>1
  <2> QED BY <2>1 DEF Covers
<1>4. \A g \in Buckets!Pages(p) : \A n : (n = PageRequest(p, g) /\ Covers(W[n], a)) =>
        MemoryPageSize * g <= a /\ a < MemoryPageSize * g + MemoryPageSize
  <2> SUFFICES ASSUME NEW g \in Buckets!Pages(p), NEW n, n = PageRequest(p, g), Covers(W[n], a)
               PROVE  MemoryPageSize * g <= a /\ a < MemoryPageSize * g + MemoryPageSize
    OBVIOUS
  <2>1. W[n].address = MemoryPageSize * g /\ W[n].size = MemoryPageSize
    <3>1. W[n] = [address |-> MemoryPageSize * g, size |-> MemoryPageSize]
      BY <1>1
    <3> QED BY <3>1
  <2> QED BY <2>1 DEF Covers
<1>5. ASSUME NEW k, NEW l, Own(k, l), NEW o, NEW m, Own(o, m),
             Buckets!GetAddress(k, p, l) <= a, a < Buckets!GetAddress(k, p, l)
               + Buckets!BucketSize(k),
             Buckets!GetAddress(o, p, m) <= a, a < Buckets!GetAddress(o, p, m)
               + Buckets!BucketSize(o)
      PROVE  k = o /\ l = m
  <2>1. k \in Buckets!Kind /\ l \in Buckets!Level /\ o \in Buckets!Kind /\ m \in Buckets!Level
    BY <1>5 DEF Own
  <2> DEFINE x == Buckets!GetAddress(k, p, l)
             y == Buckets!GetAddress(o, p, m)
  <2>2. /\ x \in Nat /\ y \in Nat /\ Buckets!BucketSize(k) \in Nat /\ Buckets!BucketSize(o) \in Nat
        /\ x <= a /\ a < x + Buckets!BucketSize(k) /\ y <= a /\ a < y + Buckets!BucketSize(o)
    BY <1>5, <2>1, AddressBounds
  <2> HIDE DEF x, y
  <2>3. a - x \in 0 .. Buckets!BucketSize(k) - 1 /\ a - y \in 0 .. Buckets!BucketSize(o) - 1
          /\ x + (a - x) = y + (a - y)
    BY <2>2
  <2>4. k = o /\ Buckets!BucketOn(p, l) = Buckets!BucketOn(p, m)
    BY <2>1, <2>3, BucketsApart DEF x, y
  <2> QED BY <2>4 DEF Buckets!BucketOn
<1>6. ASSUME NEW g \in Buckets!Pages(p), NEW h \in Buckets!Pages(p), MemoryPageSize * g <= a,
               a < MemoryPageSize * g + MemoryPageSize,
             MemoryPageSize * h <= a, a < MemoryPageSize * h + MemoryPageSize
      PROVE  g = h
  <2>1. g \in Nat /\ h \in Nat /\ MemoryPageSize \in Nat \ {0}
    <3>1. Buckets!Pages(p) \subseteq 0 .. Buckets!Size /\ MemoryPageSize \in Nat \ {0}
      BY PagesAre, SizesAre DEF Buckets!Kind
    <3> QED BY <3>1
  <2> DEFINE u == MemoryPageSize * g
             v == MemoryPageSize * h
  <2>2. u \in Nat /\ v \in Nat /\ u <= a /\ a < u + MemoryPageSize /\ v <= a
          /\ a < v + MemoryPageSize
    BY <1>6, <2>1
  <2> HIDE DEF u, v
  <2>3. a - u \in 0 .. MemoryPageSize - 1 /\ a - v \in 0 .. MemoryPageSize - 1 /\ a = u + (a - u)
          /\ a = v + (a - v)
    BY <2>1, <2>2
  <2>4. (MemoryPageSize * g + (a - u)) \div MemoryPageSize = g
          /\ (MemoryPageSize * h + (a - v)) \div MemoryPageSize = h
    <3>1. g \in Int /\ h \in Int
      BY <2>1
    <3>2. (MemoryPageSize * g + (a - u)) \div MemoryPageSize = g
      BY <2>1, <2>3, <3>1, QuotientUnique
    <3>3. (MemoryPageSize * h + (a - v)) \div MemoryPageSize = h
      BY <2>1, <2>3, <3>1, QuotientUnique
    <3> QED BY <3>2, <3>3
  <2> QED BY <2>3, <2>4 DEF u, v
<1>7. CASE \E k, l : Own(k, l) /\ i = OwnRequest(k, l)
  <2>1. PICK k, l : Own(k, l) /\ i = OwnRequest(k, l)
    BY <1>7
  <2>2. Buckets!GetAddress(k, p, l) <= a /\ a < Buckets!GetAddress(k, p, l) + Buckets!BucketSize(k)
    BY <1>2, <1>3, <2>1
  <2>3. ASSUME NEW g \in Buckets!Pages(p), j = PageRequest(p, g) PROVE FALSE
    BY <1>2, <1>4, <2>1, <2>2, <2>3, PageOffOwn
  <2>4. PICK o, m : Own(o, m) /\ j = OwnRequest(o, m)
    BY <1>1, <2>3 DEF W
  <2>5. Buckets!GetAddress(o, p, m) <= a /\ a < Buckets!GetAddress(o, p, m) + Buckets!BucketSize(o)
    BY <1>2, <1>3, <2>4
  <2> QED BY <1>5, <2>1, <2>2, <2>4, <2>5
<1>8. CASE \E g \in Buckets!Pages(p) : i = PageRequest(p, g)
  <2>1. PICK g \in Buckets!Pages(p) : i = PageRequest(p, g)
    BY <1>8
  <2>2. MemoryPageSize * g <= a /\ a < MemoryPageSize * g + MemoryPageSize
    BY <1>2, <1>4, <2>1
  <2>3. ASSUME NEW k, NEW l, Own(k, l), j = OwnRequest(k, l) PROVE FALSE
    BY <1>2, <1>3, <2>1, <2>2, <2>3, PageOffOwn
  <2>4. PICK h \in Buckets!Pages(p) : j = PageRequest(p, h)
    BY <1>1, <2>3 DEF W
  <2>5. MemoryPageSize * h <= a /\ a < MemoryPageSize * h + MemoryPageSize
    BY <1>2, <1>4, <2>4
  <2> QED BY <1>6, <2>1, <2>2, <2>4, <2>5
<1> QED BY <1>1, <1>7, <1>8 DEF W

-----------------------------------------------------------------------------
(* Where the pointer of a bucket leads: the request and the offset in it.  *)
PlaceOfBucket(kind, p, l) ==
  IF Buckets!UsesPages(kind)
  THEN [request |-> PageRequest(p, PageAt(kind, p, l)),
         offset |-> Buckets!GetAddress(kind, p, l) % MemoryPageSize]
  ELSE [request |-> OwnRequest(kind, l), offset |-> 0]

LEMMA PlaceIs ==
  ASSUME Buckets!Parameters, Buckets!NoSharedPages, NEW kind \in Buckets!Kind,
           NEW p \in Buckets!Path, NEW l, l \in Buckets!Level
  PROVE  LET at == PlaceOfBucket(kind, p, l)
             W == Buckets!RequestsFor[p]
         IN  /\ at.request \in 1 .. Len(W) /\ at.offset \in Nat
             /\ W[at.request].address \in Nat /\ W[at.request].size \in Nat
             /\ W[at.request].address + at.offset = Buckets!GetAddress(kind, p, l)
             /\ at.offset + Buckets!BucketSize(kind) <= W[at.request].size
             /\ Buckets!BucketSize(kind) \in Nat \ {0} /\ Buckets!GetAddress(kind, p, l) \in Nat
<1> DEFINE at == PlaceOfBucket(kind, p, l)
           W == Buckets!RequestsFor[p]
           g == PageAt(kind, p, l)
           a == Buckets!GetAddress(kind, p, l)
<1>1. Buckets!BucketSize(kind) \in Nat \ {0} /\ MemoryPageSize \in Nat \ {0} /\ a \in Nat
  BY SizesAre, AddressBounds
<1>2. CASE Buckets!UsesPages(kind)
  <2>1. /\ g \in Buckets!Pages(p) /\ a = MemoryPageSize * g + (a % MemoryPageSize)
             /\ a % MemoryPageSize \in Nat
        /\ (a % MemoryPageSize) + Buckets!BucketSize(kind) <= MemoryPageSize /\ g \in Nat
    <3>1. /\ g \in 0 .. Buckets!Size /\ a = MemoryPageSize * g + (a % MemoryPageSize)
               /\ a % MemoryPageSize \in Nat
          /\ (a % MemoryPageSize) + Buckets!BucketSize(kind) <= MemoryPageSize
      BY <1>2, BucketInPage
    <3>2. g \in Buckets!Pages(p)
      BY <1>2, PagesAre
    <3>3. g \in Nat
      BY <3>1, SizesAddUp
    <3> QED BY <3>1, <3>2, <3>3
  <2>2. at.request = PageRequest(p, g) /\ at.offset = a % MemoryPageSize
    BY <1>2 DEF PlaceOfBucket
  <2>3. /\ PageRequest(p, g) \in 1 .. Len(W)
        /\ W[PageRequest(p, g)] = [address |-> MemoryPageSize * g, size |-> MemoryPageSize]
    BY <2>1, WantedIs
  <2>4. MemoryPageSize * g \in Nat
    BY <1>1, <2>1
  <2> HIDE DEF at, W, g, a
  <2> QED BY <1>1, <2>1, <2>2, <2>3, <2>4 DEF at, W, a
<1>3. CASE ~Buckets!UsesPages(kind)
  <2>1. at.request = OwnRequest(kind, l) /\ at.offset = 0 /\ Own(kind, l)
    BY <1>3 DEF PlaceOfBucket, Own
  <2>2. /\ OwnRequest(kind, l) \in 1 .. Len(W)
        /\ W[OwnRequest(kind, l)] = [address |-> a, size |-> Buckets!BucketSize(kind)]
    BY <2>1, WantedIs
  <2> HIDE DEF at, W, a
  <2> QED BY <1>1, <2>1, <2>2 DEF at, W, a
<1> QED BY <1>2, <1>3

(* Only the request at a bucket's place covers its bytes.                  *)
LEMMA PlaceCovers ==
  ASSUME Buckets!Parameters, Buckets!NoSharedPages, NEW kind \in Buckets!Kind,
           NEW p \in Buckets!Path, NEW l, l \in Buckets!Level,
         NEW i \in 0 .. Buckets!BucketSize(kind) - 1
  PROVE  LET at == PlaceOfBucket(kind, p, l)
             W == Buckets!RequestsFor[p]
         IN  /\ Covers(W[at.request], Buckets!GetAddress(kind, p, l) + i)
             /\ at.offset + i \in 0 .. W[at.request].size - 1
             /\ Buckets!GetAddress(kind, p, l) + i - W[at.request].address = at.offset + i
             /\ Buckets!GetAddress(kind, p, l) + i \in Nat
<1> DEFINE at == PlaceOfBucket(kind, p, l)
           r == Buckets!RequestsFor[p][at.request]
           a == Buckets!GetAddress(kind, p, l)
<1>1. /\ at.offset \in Nat /\ r.address \in Nat /\ r.size \in Nat
      /\ r.address + at.offset = a
      /\ at.offset + Buckets!BucketSize(kind) <= r.size
      /\ Buckets!BucketSize(kind) \in Nat \ {0} /\ a \in Nat
  BY PlaceIs
<1>2. i \in Nat /\ i < Buckets!BucketSize(kind)
  BY <1>1
<1> DEFINE o == at.offset
           x == r.address
           s == r.size
<1> HIDE DEF o, x, s, a, at, r
<1>3. o \in Nat /\ x \in Nat /\ s \in Nat /\ x + o = a /\ o + Buckets!BucketSize(kind) <= s
        /\ Buckets!BucketSize(kind) \in Nat /\ a \in Nat
  BY <1>1 DEF o, x, s
<1>4. x <= a + i /\ a + i < x + s /\ o + i \in 0 .. s - 1 /\ a + i - x = o + i /\ a + i \in Nat
  BY <1>2, <1>3
<1> QED BY <1>4 DEF o, x, s, a, at, r, Covers

(* The place of a bucket is that of any path through it.                   *)
LEMMA SamePlace ==
  ASSUME Buckets!Parameters, NEW kind \in Buckets!Kind, NEW p \in Buckets!Path,
           NEW l, l \in Buckets!Level, NEW q \in Buckets!Path, NEW m,
         m \in Buckets!Level, Buckets!BucketOn(p, l) = Buckets!BucketOn(q, m)
  PROVE  Buckets!GetAddress(kind, p, l) = Buckets!GetAddress(kind, q, m)
<1>1. l = m /\ PathIndex(p, l) = PathIndex(q, l)
  BY IndexIs
<1>2. InLayout(kind, p, l) = InLayout(kind, q, l)
  <2>1. CASE LayoutType = "BasicHeapLayout"
    BY <1>1, <2>1 DEF InLayout
  <2>2. CASE LayoutType = "TwoLevelHeapLayout"
    <3> DEFINE t == TopAbove(kind, l)
    <3>1. t \in 0 .. l
      BY <2>2, TopAboveLevel
    <3> HIDE DEF t
    <3>2. PathIndex(p, l) \div Buckets!TwoToThe[l - t] = PathIndex(p, t)
            /\ PathIndex(q, l) \div Buckets!TwoToThe[l - t] = PathIndex(q, t)
      BY <3>1, IndexAbove
    <3>3. PathIndex(p, t) = PathIndex(q, t)
      BY <1>1, <3>2
    <3>4. Row(kind, p, l) = Row(kind, q, l)
      BY <1>1 DEF Row
    <3> QED BY <2>2, <3>3, <3>4 DEF InLayout, InPage, t
  <2> QED BY <2>1, <2>2, SizesAre
<1> QED BY <1>1, <1>2, AddressIs

(* The path the model takes for a bucket.                                  *)
Through(n) == n[2] * Buckets!TwoToThe[Levels - 1 - n[1]]

LEMMA ThroughIs ==
  ASSUME Buckets!Parameters, NEW n \in Buckets!Bucket
  PROVE  /\ n[1] \in Buckets!Level /\ n[2] \in Nat
         /\ Through(n) \in Buckets!Path /\ Buckets!BucketOn(Through(n), n[1]) = n
<1> DEFINE l == n[1]
           a == Levels - 1 - l
           x == Buckets!TwoToThe[a]
           y == Buckets!TwoToThe[l]
           i == n[2]
<1>1. n = <<l, i>> /\ l \in Buckets!Level /\ i \in 0 .. y - 1
  BY BucketsBucketIs
<1>2. a \in Nat /\ l \in Nat /\ a + l = Levels - 1 /\ a + l <= Levels /\ a \in 0 .. Levels
        /\ l \in 0 .. Levels
  BY <1>1, LevelsFacts DEF Buckets!Level
<1>3. x \in Nat \ {0} /\ y \in Nat \ {0}
  BY <1>2, BucketsTwoToTheFacts
<1>4. Buckets!NumPaths = x * y
  <2>1. Buckets!TwoToThe[a + l] = x * y
    BY <1>2, BucketsPowersAdd
  <2>2. Buckets!TwoToThe[Levels - 1] = 2 * Buckets!TwoToThe[Levels - 2]
    <3>1. Levels - 1 \in 1 .. Levels /\ (Levels - 1) - 1 = Levels - 2
      BY LevelsFacts
    <3> QED BY <3>1, BucketsTwoToTheFacts
  <2>3. TopLevelOrder = 2
    BY DEF Buckets!Parameters
  <2> HIDE DEF a, x, y
  <2> QED BY <1>2, <2>1, <2>2, <2>3 DEF Buckets!NumPaths
<1> HIDE DEF a, x, y, i, l
<1>5. i \in Nat /\ i + 1 \in Nat /\ i + 1 <= y
  BY <1>1, <1>3
<1>6. (i + 1) * x <= y * x /\ (i + 1) * x = i * x + x /\ i * x \in Nat
  BY <1>3, <1>5, ProductMonotone, ProductNext
<1> DEFINE p == i * x
<1>7. p \in Nat /\ p + x <= Buckets!NumPaths /\ Buckets!NumPaths \in Nat
  BY <1>3, <1>4, <1>6
<1> HIDE DEF p
<1>8. p \in Buckets!Path
  BY <1>3, <1>7 DEF Buckets!Path
<1>9. p \div x = i
  <2>1. 0 \in 0 .. x - 1 /\ i \in Int
    BY <1>3, <1>5
  <2>2. (x * i + 0) \div x = i
    BY <1>3, <2>1, QuotientUnique
  <2>3. x * i + 0 = p
    BY <1>3, <1>5 DEF p
  <2> QED BY <2>2, <2>3
<1>10. Buckets!BucketOn(p, l) = <<l, i>>
  BY <1>9 DEF Buckets!BucketOn, x, a
<1> QED BY <1>1, <1>5, <1>8, <1>10 DEF Through, p, i, x, a, l

-----------------------------------------------------------------------------
Contents == UNION { [0 .. n - 1 -> {0, 1}] : n \in Nat }

(* The requests a path was read with: where RequestsFor wants them.        *)
Matches(p, reqs) ==
  /\ reqs \in Seq([address : Nat, data : Contents])
  /\ Len(reqs) = Len(Buckets!RequestsFor[p])
  /\ \A i \in 1 .. Len(Buckets!RequestsFor[p]) :
       /\ reqs[i].address = Buckets!RequestsFor[p][i].address
       /\ reqs[i].data \in [0 .. Buckets!RequestsFor[p][i].size - 1 -> {0, 1}]
       /\ Buckets!RequestsFor[p][i].address + Buckets!RequestsFor[p][i].size <= Buckets!Size

(* A place in one of the buckets of a path.                                *)
InBucket(p, a) ==
  \E k \in Buckets!Kind, l \in Buckets!Level :
    Buckets!GetAddress(k, p, l) <= a /\ a < Buckets!GetAddress(k, p, l) + Buckets!BucketSize(k)

(* What they hold beside the buckets of the path is as it is in memory.    *)
Keeps(p, reqs, mem) ==
  \A i \in 1 .. Len(Buckets!RequestsFor[p]) : \A j \in 0 .. Buckets!RequestsFor[p][i].size - 1 :
    ~InBucket(p, Buckets!RequestsFor[p][i].address + j)
      => reqs[i].data[j] = mem[Buckets!RequestsFor[p][i].address + j]

(* The definitions of BucketTree for requests other than its variable.     *)
PointerOf(reqs, p, kind, l) ==
  IF Buckets!UsesPages(kind)
  THEN LET address == Buckets!GetAddress(kind, p, l)
           i == CHOOSE i \in 1 .. Len(reqs) :
                  /\ reqs[i].address = (address \div MemoryPageSize) * MemoryPageSize
                  /\ i > Cardinality({ k \in Buckets!Kind : ~Buckets!UsesPages(k) }) * Levels
       IN  [request |-> i, offset |-> address % MemoryPageSize]
  ELSE [request |-> Buckets!NonBlockAccessStart(kind) + l + 1, offset |-> 0]

LEMMA PointerIs ==
  ASSUME Buckets!Parameters, Buckets!NoSharedPages, NEW p \in Buckets!Path,
           NEW reqs, Matches(p, reqs),
         NEW kind \in Buckets!Kind, NEW l, l \in Buckets!Level
  PROVE  PointerOf(reqs, p, kind, l) = PlaceOfBucket(kind, p, l)
<1> DEFINE W == Buckets!RequestsFor[p]
           a == Buckets!GetAddress(kind, p, l)
           g == PageAt(kind, p, l)
           N == Cardinality({ k \in Buckets!Kind : ~Buckets!UsesPages(k) }) * Levels
<1>1. CASE ~Buckets!UsesPages(kind)
  BY <1>1 DEF PointerOf, PlaceOfBucket, OwnRequest
<1>2. CASE Buckets!UsesPages(kind)
  <2> DEFINE Fits(i) == reqs[i].address = (a \div MemoryPageSize) * MemoryPageSize /\ i > N
             c == CHOOSE i \in 1 .. Len(reqs) : Fits(i)
             r == PageRequest(p, g)
  <2>1. g \in Buckets!Pages(p) /\ g \in Nat /\ MemoryPageSize \in Nat \ {0}
          /\ a \div MemoryPageSize = g
    <3>1. g \in 0 .. Buckets!Size /\ MemoryPageSize \in Nat \ {0} /\ Buckets!Size \in Nat
      BY <1>2, BucketInPage, SizesAre, SizesAddUp
    <3>2. g \in Buckets!Pages(p)
      BY <1>2, PagesAre
    <3>3. a \div MemoryPageSize = g
      BY DEF PageAt
    <3> QED BY <3>1, <3>2, <3>3
  <2>2. N = OwnLengths /\ OwnLengths \in Nat
    BY OwnLengthsAre
  <2>3. \A h \in Buckets!Pages(p) : /\ PageRequest(p, h) \in 1 .. Len(W)
                                    /\ W[PageRequest(p, h)].address = MemoryPageSize * h
                                    /\ PageRequest(p, h) > OwnLengths /\ h \in Nat
    <3> SUFFICES ASSUME NEW h \in Buckets!Pages(p)
                 PROVE  /\ PageRequest(p, h) \in 1 .. Len(W)
                        /\ W[PageRequest(p, h)].address = MemoryPageSize * h
                        /\ PageRequest(p, h) > OwnLengths /\ h \in Nat
      OBVIOUS
    <3>1. /\ PageRequest(p, h) \in 1 .. Len(W)
          /\ W[PageRequest(p, h)] = [address |-> MemoryPageSize * h, size |-> MemoryPageSize]
      BY WantedIs
    <3>2. Rank(Buckets!Pages(p), h) \in 1 .. Cardinality(Buckets!Pages(p))
            /\ Cardinality(Buckets!Pages(p)) \in Nat
      BY PageRequestsAre
    <3>3. PageRequest(p, h) > OwnLengths
      BY <2>2, <3>2 DEF PageRequest
    <3>4. h \in Nat
      <4>1. Buckets!Pages(p) \subseteq 0 .. Buckets!Size
        BY PagesAre
      <4> QED BY <4>1
    <3> QED BY <3>1, <3>3, <3>4
  <2>4. ASSUME NEW k, NEW m, Own(k, m) PROVE ~(OwnRequest(k, m) > OwnLengths)
    <3>1. (k = "data" \/ k = "metadata") /\ ~Buckets!UsesPages(k) /\ m \in 0 .. Levels - 1
            /\ Levels \in Nat
      BY <2>4, LevelsFacts DEF Own, Buckets!Kind, Buckets!Level
    <3>2. OwnLength(k) = Levels
      BY <3>1 DEF OwnLength
    <3>3. /\ OwnLength("metadata") \in Nat /\ OwnLength("data") \in Nat
          /\ Buckets!NonBlockAccessStart("metadata") = 0
          /\ Buckets!NonBlockAccessStart("data") = OwnLength("metadata")
      BY OwnLengthsAre
    <3>4. CASE k = "data"
      <4>1. OwnRequest(k, m) = OwnLength("metadata") + m + 1
        BY <3>3, <3>4 DEF OwnRequest
      <4>2. OwnLengths = OwnLength("metadata") + Levels
        BY <3>2, <3>4 DEF OwnLengths
      <4> QED BY <3>1, <3>3, <4>1, <4>2
    <3>5. CASE k = "metadata"
      <4>1. OwnRequest(k, m) = 0 + m + 1
        BY <3>3, <3>5 DEF OwnRequest
      <4>2. OwnLengths = Levels + OwnLength("data")
        BY <3>2, <3>5 DEF OwnLengths
      <4> QED BY <3>1, <3>3, <4>1, <4>2
    <3> QED BY <3>1, <3>4, <3>5
  <2>5. /\ Len(reqs) = Len(W)
        /\ \A i \in 1 .. Len(W) : reqs[i].address = W[i].address
        /\ \A i \in 1 .. Len(W) : \/ \E k, m : Own(k, m) /\ i = OwnRequest(k, m)
                                  \/ \E h \in Buckets!Pages(p) : i = PageRequest(p, h)
    BY WantedIs DEF Matches
  <2>6. MemoryPageSize * g = g * MemoryPageSize
    BY <2>1
  <2>7. r \in 1 .. Len(reqs) /\ Fits(r)
    BY <2>1, <2>2, <2>3, <2>5, <2>6
  <2>8. c \in 1 .. Len(reqs) /\ Fits(c)
    <3> HIDE DEF Fits, r
    <3> QED BY <2>7
  <2>9. c = r
    <3>1. c > OwnLengths /\ c \in 1 .. Len(W) /\ reqs[c].address = g * MemoryPageSize
      BY <2>1, <2>2, <2>5, <2>8
    <3> HIDE DEF c, W
    <3>2. PICK h \in Buckets!Pages(p) : c = PageRequest(p, h)
      BY <2>4, <2>5, <3>1
    <3>3. MemoryPageSize * h = MemoryPageSize * g /\ h \in Nat
      BY <2>3, <2>5, <2>6, <3>1, <3>2
    <3>4. h = g
      <4>1. 0 \in 0 .. MemoryPageSize - 1 /\ h \in Int /\ g \in Int
        BY <2>1, <3>3
      <4>2. (MemoryPageSize * h + 0) \div MemoryPageSize = h
              /\ (MemoryPageSize * g + 0) \div MemoryPageSize = g
        BY <2>1, <4>1, QuotientUnique
      <4> QED BY <3>3, <4>2
    <3> QED BY <3>2, <3>4
  <2>10. PointerOf(reqs, p, kind, l) = [request |-> c, offset |-> a % MemoryPageSize]
    BY <1>2 DEF PointerOf
  <2> QED BY <1>2, <2>9, <2>10 DEF PlaceOfBucket
<1> QED BY <1>1, <1>2

(* A path has requests, and each of them asks for something.               *)
LEMMA WantedSome ==
  ASSUME Buckets!Parameters, Buckets!NoSharedPages, NEW p \in Buckets!Path
  PROVE  /\ Len(Buckets!RequestsFor[p]) \in Nat \ {0}
         /\ \A i \in 1 .. Len(Buckets!RequestsFor[p]) :
              Buckets!RequestsFor[p][i].size \in Nat \ {0}
                /\ Buckets!RequestsFor[p][i].address \in Nat
<1> DEFINE W == Buckets!RequestsFor[p]
<1>1. Len(W) \in Nat /\ W \in Seq([address : Nat, size : Nat])
  BY WantedIs
<1>2. Len(W) # 0
  <2>1. 0 \in Buckets!Level /\ "data" \in Buckets!Kind
    BY LevelsFacts DEF Buckets!Level, Buckets!Kind
  <2>2. PlaceOfBucket("data", p, 0).request \in 1 .. Len(W)
    BY <2>1, PlaceIs
  <2> QED BY <1>1, <2>2
<1>3. ASSUME NEW i \in 1 .. Len(W) PROVE W[i].size \in Nat \ {0} /\ W[i].address \in Nat
  <2>1. W[i].address \in Nat
    <3> DEFINE T == [address : Nat, size : Nat]
    <3>1. W \in Seq(T) /\ i \in 1 .. Len(W)
      BY <1>1
    <3> HIDE DEF T, W
    <3>2. W[i] \in T
      BY <3>1
    <3> QED BY <3>2 DEF T
  <2>2. CASE \E k, l : Own(k, l) /\ i = OwnRequest(k, l)
    <3>1. PICK k, l : Own(k, l) /\ i = OwnRequest(k, l)
      BY <2>2
    <3>2. W[i] = [address |-> Buckets!GetAddress(k, p, l), size |-> Buckets!BucketSize(k)]
      BY <3>1, WantedIs
    <3>3. Buckets!BucketSize(k) \in Nat \ {0}
      BY <3>1, SizesAre DEF Own
    <3> QED BY <2>1, <3>2, <3>3
  <2>3. CASE \E g \in Buckets!Pages(p) : i = PageRequest(p, g)
    <3>1. PICK g \in Buckets!Pages(p) : i = PageRequest(p, g)
      BY <2>3
    <3>2. W[i] = [address |-> MemoryPageSize * g, size |-> MemoryPageSize]
      BY <3>1, WantedIs
    <3>3. MemoryPageSize \in Nat \ {0}
      BY SizesAre DEF Buckets!Kind
    <3> QED BY <2>1, <3>2, <3>3
  <2> QED BY <2>2, <2>3, WantedIs
<1> QED BY <1>1, <1>2, <1>3

Cells == [0 .. Buckets!Size - 1 -> {0, 1}]

(* What the requests hold of a bucket.                                     *)
BufferedIn(reqs, p, kind, l) ==
  Buckets!Window(reqs[PlaceOfBucket(kind, p, l).request].data, PlaceOfBucket(kind, p, l).offset,
    Buckets!BucketSize(kind))

StoredIn(mem, kind, n) == Buckets!Window(mem, Buckets!GetAddress(kind, Through(n), n[1]),
  Buckets!BucketSize(kind))

(* Where a byte of a bucket is.                                            *)
LEMMA ByteIsAt ==
  ASSUME Buckets!Parameters, Buckets!NoSharedPages, NEW p \in Buckets!Path,
           NEW kind \in Buckets!Kind, NEW l, l \in Buckets!Level,
         NEW i \in 0 .. Buckets!BucketSize(kind) - 1
  PROVE  LET r == PlaceOfBucket(kind, p, l).request
             j == PlaceOfBucket(kind, p, l).offset + i
         IN  /\ r \in 1 .. Len(Buckets!RequestsFor[p]) /\ j \in 0 .. Buckets!RequestsFor[p][r].size - 1
             /\ j \in Nat
             /\ Buckets!RequestsFor[p][r].address + j = Buckets!GetAddress(kind, p, l) + i
<1> DEFINE at == PlaceOfBucket(kind, p, l)
           r == at.request
           o == at.offset
           x == Buckets!RequestsFor[p][r].address
           a == Buckets!GetAddress(kind, p, l)
           s == Buckets!RequestsFor[p][r].size
<1>1. r \in 1 .. Len(Buckets!RequestsFor[p]) /\ o \in Nat /\ x \in Nat /\ x + o = a
        /\ Buckets!BucketSize(kind) \in Nat
  BY PlaceIs
<1>2. o + i \in 0 .. s - 1
  BY PlaceCovers
<1>3. i \in Nat
  BY <1>1
<1> HIDE DEF r, o, x, a, s, at
<1>4. x + (o + i) = a + i /\ o + i \in Nat
  BY <1>1, <1>3
<1> QED BY <1>1, <1>2, <1>4 DEF r, o, x, a, s, at

LEMMA WindowIs ==
  ASSUME NEW after, NEW from, NEW other, NEW begin, NEW size,
         \A i \in 0 .. size - 1 : after[from + i] = other[begin + i]
  PROVE  Buckets!Window(after, from, size) = Buckets!Window(other, begin, size)
BY DEF Buckets!Window

-----------------------------------------------------------------------------
(* Reading a path.                                                         *)
LEMMA ReadStep ==
  ASSUME Buckets!Parameters, Buckets!NoSharedPages, NEW p \in Buckets!Path, NEW mem \in Cells,
           NEW reqs,
         \A i \in 1 .. Len(Buckets!RequestsFor[p]) : Buckets!RequestsFor[p][i].address
           + Buckets!RequestsFor[p][i].size <= Buckets!Size,
         reqs = [i \in 1 .. Len(Buckets!RequestsFor[p]) |->
                   [address |-> Buckets!RequestsFor[p][i].address,
                    data |-> Buckets!Window(mem, Buckets!RequestsFor[p][i].address,
                      Buckets!RequestsFor[p][i].size)]]
  PROVE  /\ Matches(p, reqs) /\ Keeps(p, reqs, mem)
         /\ \A kind \in Buckets!Kind, l \in Buckets!Level :
              BufferedIn(reqs, p, kind, l)
                = Buckets!Window(mem, Buckets!GetAddress(kind, p, l), Buckets!BucketSize(kind))
<1> DEFINE W == Buckets!RequestsFor[p]
           N == Len(W)
           R(i) == [address |-> W[i].address, data |-> Buckets!Window(mem, W[i].address, W[i].size)]
<1>1. Buckets!Size \in Nat
  BY SizesAddUp
<1>2. N \in Nat /\ \A i \in 1 .. N : W[i].size \in Nat \ {0} /\ W[i].address \in Nat
  BY WantedSome
<1>3. /\ \A i \in 1 .. N : W[i].address + W[i].size <= Buckets!Size
      /\ reqs = [i \in 1 .. N |-> R(i)]
  OBVIOUS
<1> HIDE DEF W, N
<1>4. ASSUME NEW i \in 1 .. N
      PROVE  /\ R(i).data \in [0 .. W[i].size - 1 -> {0, 1}] /\ R(i).address = W[i].address
             /\ R(i).data \in Contents
             /\ \A j \in 0 .. W[i].size - 1 : R(i).data[j] = mem[W[i].address + j]
  <2> DEFINE x == W[i].address
             s == W[i].size
             D == [j \in 0 .. s - 1 |-> mem[x + j]]
  <2>1. x \in Nat /\ s \in Nat /\ x + s <= Buckets!Size
    BY <1>2, <1>3
  <2>2. R(i).data = D /\ R(i).address = x
    BY DEF Buckets!Window
  <2> HIDE DEF x, s, R
  <2>3. \A j \in 0 .. s - 1 : x + j \in 0 .. Buckets!Size - 1
    BY <1>1, <2>1
  <2>4. D \in [0 .. s - 1 -> {0, 1}]
    BY <2>3 DEF Cells
  <2>5. D \in Contents
    BY <2>1, <2>4 DEF Contents
  <2> QED BY <2>2, <2>4, <2>5 DEF x, s
<1>5. reqs \in Seq([address : Nat, data : Contents]) /\ Len(reqs) = N
  <2>1. \A i \in 1 .. N : R(i) \in [address : Nat, data : Contents]
    <3> SUFFICES ASSUME NEW i \in 1 .. N PROVE R(i) \in [address : Nat, data : Contents]
      OBVIOUS
    <3>1. R(i) = [address |-> R(i).address, data |-> R(i).data]
      OBVIOUS
    <3>2. R(i).address \in Nat /\ R(i).data \in Contents
      BY <1>2, <1>4
    <3> HIDE DEF R
    <3> QED BY <3>1, <3>2
  <2> DEFINE T == [address : Nat, data : Contents]
  <2> HIDE DEF R, T
  <2>2. reqs \in Seq(T) /\ Len(reqs) = N
    <3>1. \A i \in 1 .. N : R(i) \in T
      BY <2>1 DEF T
    <3> QED BY <1>2, <1>3, <3>1
  <2> QED BY <2>2 DEF T
<1>6. \A i \in 1 .. N : reqs[i] = R(i)
  BY <1>3
<1> HIDE DEF R
<1>7. Matches(p, reqs)
  BY <1>3, <1>4, <1>5, <1>6 DEF Matches, W, N
<1>8. Keeps(p, reqs, mem)
  BY <1>4, <1>6 DEF Keeps, W, N
<1>9. ASSUME NEW kind \in Buckets!Kind, NEW l \in Buckets!Level
      PROVE  BufferedIn(reqs, p, kind, l)
               = Buckets!Window(mem, Buckets!GetAddress(kind, p, l), Buckets!BucketSize(kind))
  <2> DEFINE r == PlaceOfBucket(kind, p, l).request
             o == PlaceOfBucket(kind, p, l).offset
             a == Buckets!GetAddress(kind, p, l)
  <2>1. ASSUME NEW i \in 0 .. Buckets!BucketSize(kind) - 1
        PROVE  reqs[r].data[o + i] = mem[a + i]
    <3>1. r \in 1 .. N /\ o + i \in 0 .. W[r].size - 1 /\ W[r].address + (o + i) = a + i
      BY ByteIsAt DEF W, N
    <3> HIDE DEF r, o, a
    <3>2. reqs[r] = R(r) /\ R(r).data[o + i] = mem[W[r].address + (o + i)]
      BY <1>4, <1>6, <3>1
    <3> QED BY <3>1, <3>2
  <2> HIDE DEF r, o, a
  <2>2. Buckets!Window(reqs[r].data, o, Buckets!BucketSize(kind))
          = Buckets!Window(mem, a, Buckets!BucketSize(kind))
    BY <2>1, WindowIs
  <2> QED BY <2>2 DEF BufferedIn, r, o, a
<1> QED BY <1>7, <1>8, <1>9

-----------------------------------------------------------------------------
(* Filling a bucket of the path.                                           *)
FilledAt(data, from, size, v) ==
  [i \in DOMAIN data |-> IF from <= i /\ i < from + size THEN v ELSE data[i]]

Refilled(reqs, at, size, v) ==
  [reqs EXCEPT ![at.request] = [address |-> reqs[at.request].address,
                                data |-> FilledAt(reqs[at.request].data, at.offset, size, v)]]

LEMMA FillStep ==
  ASSUME Buckets!Parameters, Buckets!NoSharedPages, NEW p \in Buckets!Path,
           NEW reqs, Matches(p, reqs),
         NEW kind \in Buckets!Kind, NEW l, l \in Buckets!Level, NEW v \in {0, 1}, NEW new,
         new = Refilled(reqs, PlaceOfBucket(kind, p, l), Buckets!BucketSize(kind), v)
  PROVE  /\ Matches(p, new)
         /\ \A mem : Keeps(p, reqs, mem) => Keeps(p, new, mem)
         /\ BufferedIn(new, p, kind, l) = [i \in 0 .. Buckets!BucketSize(kind) - 1 |-> v]
         /\ \A k \in Buckets!Kind, m \in Buckets!Level : (k # kind \/ m # l) =>
              BufferedIn(new, p, k, m) = BufferedIn(reqs, p, k, m)
<1> DEFINE W == Buckets!RequestsFor[p]
           N == Len(W)
           at == PlaceOfBucket(kind, p, l)
           r == at.request
           o == at.offset
           B == Buckets!BucketSize(kind)
           D == FilledAt(reqs[r].data, o, B, v)
           a == Buckets!GetAddress(kind, p, l)
           T == [address : Nat, data : Contents]
<1>1. /\ reqs \in Seq(T) /\ Len(reqs) = N
      /\ \A i \in 1 .. N : /\ reqs[i].address = W[i].address
                           /\ reqs[i].data \in [0 .. W[i].size - 1 -> {0, 1}]
                           /\ W[i].address + W[i].size <= Buckets!Size
  BY DEF Matches
<1>2. /\ r \in 1 .. N /\ o \in Nat /\ W[r].address \in Nat /\ W[r].size \in Nat
      /\ W[r].address + o = a /\ o + B <= W[r].size /\ B \in Nat \ {0} /\ a \in Nat
  BY PlaceIs
<1>3. N \in Nat /\ \A i \in 1 .. N : W[i].size \in Nat \ {0} /\ W[i].address \in Nat
  BY WantedSome
<1>4. new = [reqs EXCEPT ![r] = [address |-> reqs[r].address, data |-> D]]
  BY DEF Refilled
<1> HIDE DEF W, N, at, r, o, B, a, T
<1>5. /\ D \in [0 .. W[r].size - 1 -> {0, 1}] /\ D \in Contents
      /\ \A j \in 0 .. W[r].size - 1 : D[j] = IF o <= j /\ j < o + B THEN v ELSE reqs[r].data[j]
  <2>1. reqs[r].data \in [0 .. W[r].size - 1 -> {0, 1}]
    BY <1>1, <1>2
  <2>2. DOMAIN reqs[r].data = 0 .. W[r].size - 1
    BY <2>1
  <2>3. D \in [0 .. W[r].size - 1 -> {0, 1}]
    BY <2>1, <2>2 DEF FilledAt
  <2>4. D \in Contents
    BY <1>2, <2>3 DEF Contents
  <2> QED BY <2>2, <2>3, <2>4 DEF FilledAt
<1> HIDE DEF D
<1>6. /\ new \in Seq(T) /\ Len(new) = N
      /\ new[r].address = W[r].address /\ new[r].data = D
      /\ \A i \in 1 .. N : i # r => new[i] = reqs[i]
  <2> DEFINE e == [address |-> reqs[r].address, data |-> D]
  <2>1. e \in T
    <3>1. reqs[r].address \in Nat
      BY <1>1, <1>2
    <3> QED BY <1>5, <3>1 DEF T
  <2>2. e.address = W[r].address /\ e.data = D
    BY <1>1, <1>2
  <2> HIDE DEF e
  <2>3. /\ new \in Seq(T) /\ Len(new) = Len(reqs)
        /\ \A j \in 1 .. Len(reqs) : new[j] = IF j = r THEN e ELSE reqs[j]
    <3>1. new = [reqs EXCEPT ![r] = e] /\ r \in 1 .. Len(reqs)
      BY <1>1, <1>2, <1>4 DEF e
    <3> QED BY <1>1, <2>1, <3>1, ExceptSeq
  <2> QED BY <1>1, <1>2, <2>2, <2>3
<1>7. Matches(p, new)
  <2>1. ASSUME NEW i \in 1 .. N
        PROVE  /\ new[i].address = W[i].address
               /\ new[i].data \in [0 .. W[i].size - 1 -> {0, 1}]
               /\ W[i].address + W[i].size <= Buckets!Size
    BY <1>1, <1>5, <1>6
  <2> QED BY <1>6, <2>1 DEF Matches, W, N, T
<1>8. ASSUME NEW i \in 1 .. N, NEW j \in 0 .. W[i].size - 1,
             ~(a <= W[i].address + j /\ W[i].address + j < a + B)
      PROVE  new[i].data[j] = reqs[i].data[j]
  <2>1. CASE i # r
    BY <1>6, <2>1
  <2>2. CASE i = r
    <3> DEFINE x == W[r].address
    <3>1. j \in Nat /\ x \in Nat /\ x + o = a /\ ~(a <= x + j /\ x + j < a + B)
      BY <1>2, <1>8, <2>2
    <3> HIDE DEF x
    <3>2. ~(o <= j /\ j < o + B)
      BY <1>2, <3>1
    <3> QED BY <1>5, <1>6, <2>2, <3>2
  <2> QED BY <2>1, <2>2
<1>9. ASSUME NEW mem, Keeps(p, reqs, mem) PROVE Keeps(p, new, mem)
  <2> SUFFICES ASSUME NEW i \in 1 .. N, NEW j \in 0 .. W[i].size - 1, ~InBucket(p, W[i].address + j)
               PROVE  new[i].data[j] = mem[W[i].address + j]
    BY DEF Keeps, W, N
  <2>1. ~(a <= W[i].address + j /\ W[i].address + j < a + B)
    BY DEF InBucket, a, B
  <2>2. reqs[i].data[j] = mem[W[i].address + j]
    BY <1>9 DEF Keeps, W, N
  <2> QED BY <1>8, <2>1, <2>2
<1>10. BufferedIn(new, p, kind, l) = [i \in 0 .. B - 1 |-> v]
  <2>1. ASSUME NEW i \in 0 .. B - 1 PROVE new[r].data[o + i] = v
    <3>1. o + i \in 0 .. W[r].size - 1 /\ o <= o + i /\ o + i < o + B
      BY <1>2
    <3> QED BY <1>5, <1>6, <3>1
  <2>2. BufferedIn(new, p, kind, l) = [i \in 0 .. B - 1 |-> new[r].data[o + i]]
    BY DEF BufferedIn, Buckets!Window, r, o, at, B
  <2> QED BY <2>1, <2>2
<1>11. ASSUME NEW k \in Buckets!Kind, NEW m \in Buckets!Level, k # kind \/ m # l
       PROVE  BufferedIn(new, p, k, m) = BufferedIn(reqs, p, k, m)
  <2> DEFINE s == PlaceOfBucket(k, p, m).request
             f == PlaceOfBucket(k, p, m).offset
             b == Buckets!GetAddress(k, p, m)
  <2>1. ASSUME NEW i \in 0 .. Buckets!BucketSize(k) - 1
        PROVE  new[s].data[f + i] = reqs[s].data[f + i]
    <3>1. s \in 1 .. N /\ f + i \in 0 .. W[s].size - 1 /\ W[s].address + (f + i) = b + i
      BY ByteIsAt DEF W, N
    <3>2. b \in Nat /\ Buckets!BucketSize(k) \in Nat
      BY AddressBounds
    <3>3. ~(a <= b + i /\ b + i < a + B)
      <4>1. SUFFICES ASSUME a <= b + i, b + i < a + B PROVE FALSE
        OBVIOUS
      <4> DEFINE j == b + i - a
      <4>2. b + i \in Nat
        BY <3>2
      <4> HIDE DEF b
      <4>3. j \in 0 .. B - 1 /\ b + i = a + j
        BY <1>2, <3>2, <4>1, <4>2
      <4> HIDE DEF j
      <4>4. k = kind /\ Buckets!BucketOn(p, m) = Buckets!BucketOn(p, l)
        BY <4>3, BucketsApart DEF a, b, B
      <4> QED BY <1>11, <4>4 DEF Buckets!BucketOn
    <3> HIDE DEF s, f, b
    <3> QED BY <1>8, <3>1, <3>3
  <2> HIDE DEF s, f
  <2>2. Buckets!Window(new[s].data, f, Buckets!BucketSize(k))
          = Buckets!Window(reqs[s].data, f, Buckets!BucketSize(k))
    BY <2>1, WindowIs
  <2> QED BY <2>2 DEF BufferedIn, s, f
<1> QED BY <1>7, <1>9, <1>10, <1>11 DEF B

-----------------------------------------------------------------------------
(* Writing a path back: what the first n requests leave in the memory.     *)
Written(mem, request) ==
  [a \in DOMAIN mem |-> IF a - request.address \in DOMAIN request.data
                        THEN request.data[a - request.address] ELSE mem[a]]

LEMMA CellsAfterExists ==
  ASSUME cells \in Cells, Buckets!Size \in Nat, NEW N \in Nat,
         \A i \in 1 .. N : \A mem \in Cells : Written(mem, requests[i]) \in Cells
  PROVE  \E f \in [0 .. N -> Cells] :
           /\ Buckets!CellsAfter(N) = f[N] /\ f[0] = cells
           /\ \A i \in 1 .. N : f[i] = Written(f[i - 1], requests[i])
<1> DEFINE step == [x \in (1 .. N) \X Cells |-> Written(x[2], requests[x[1]])]
           S(i, before) == [a \in DOMAIN cells |->
                              IF a - requests[i].address \in DOMAIN requests[i].data
                              THEN requests[i].data[a - requests[i].address]
                              ELSE before[a]]
           Is(h) == h = [i \in 0 .. N |-> IF i = 0 THEN cells ELSE S(i, h[i - 1])]
           f == CHOOSE h : Is(h)
<1>1. step \in [(1 .. N) \X Cells -> Cells]
  OBVIOUS
<1>2. \A i \in 1 .. N, mem \in Cells : step[<<i, mem>>] = Written(mem, requests[i])
  OBVIOUS
<1>3. PICK g \in [0 .. N -> Cells] : Recursive(g, N, cells, step)
  <2> HIDE DEF step
  <2> QED BY <1>1, RecursiveFunctionExists
<1> HIDE DEF step
<1>4. \A i, mem : mem \in Cells => S(i, mem) = Written(mem, requests[i])
  <2>1. \A mem \in Cells : DOMAIN mem = DOMAIN cells
    BY DEF Cells
  <2> QED BY <2>1 DEF Written
<1>5. \A i \in 1 .. N : g[i - 1] \in Cells /\ i # 0 /\ i \in 0 .. N
  OBVIOUS
<1>6. g[0] = cells /\ \A i \in 1 .. N : g[i] = Written(g[i - 1], requests[i])
  <2>1. \A i \in 0 .. N : g[i] = IF i = 0 THEN cells ELSE step[<<i, g[i - 1]>>]
    BY <1>3 DEF Recursive
  <2>2. 0 \in 0 .. N
    OBVIOUS
  <2>3. \A i \in 1 .. N : g[i] = step[<<i, g[i - 1]>>]
    BY <1>5, <2>1
  <2> QED BY <1>2, <1>5, <2>1, <2>2, <2>3
<1>7. Is(g)
  <2> DEFINE F(i) == IF i = 0 THEN cells ELSE S(i, g[i - 1])
  <2>1. ASSUME NEW i \in 0 .. N PROVE g[i] = F(i)
    <3>1. CASE i = 0
      BY <1>6, <3>1
    <3>2. CASE i # 0
      <4>1. i \in 1 .. N
        BY <3>2
      <4> HIDE DEF S
      <4> QED BY <1>4, <1>5, <1>6, <3>2, <4>1
    <3> QED BY <3>1, <3>2
  <2>2. g = [i \in 0 .. N |-> g[i]]
    OBVIOUS
  <2> HIDE DEF F
  <2>3. g = [i \in 0 .. N |-> F(i)]
    BY <2>1, <2>2
  <2> QED BY <2>3 DEF F
<1>8. Is(f)
  <2> HIDE DEF Is
  <2> QED BY <1>7
<1>9. f[0] = cells /\ \A i \in 1 .. N : f[i] = S(i, f[i - 1])
  <2> DEFINE F(i) == IF i = 0 THEN cells ELSE S(i, f[i - 1])
  <2>1. f = [i \in 0 .. N |-> F(i)]
    BY <1>8
  <2> HIDE DEF F, f
  <2>2. \A i \in 0 .. N : f[i] = F(i)
    BY <2>1
  <2>3. \A i \in 1 .. N : i \in 0 .. N /\ i # 0
    OBVIOUS
  <2> HIDE DEF S
  <2> QED BY <2>2, <2>3 DEF F
<1>10. DOMAIN f = 0 .. N /\ f = [i \in 0 .. N |-> f[i]]
  <2> DEFINE F(i) == IF i = 0 THEN cells ELSE S(i, f[i - 1])
  <2>1. f = [i \in 0 .. N |-> F(i)]
    BY <1>8
  <2> HIDE DEF F, f
  <2> QED BY <2>1
<1>11. Buckets!CellsAfter(N) = f[N]
  BY DEF Buckets!CellsAfter
<1> HIDE DEF f, Is, S
<1> DEFINE T == { i \in 0 .. N : f[i] = g[i] }
<1>12. \A i \in 0 .. N : i \in T
  <2>1. 0 \in T
    BY <1>6, <1>9
  <2>2. ASSUME NEW k \in 0 .. N - 1, k \in T PROVE k + 1 \in T
    <3>1. k + 1 \in 1 .. N /\ (k + 1) - 1 = k /\ k \in 0 .. N /\ k + 1 \in 0 .. N
      OBVIOUS
    <3>2. f[k] = g[k] /\ g[k] \in Cells
      BY <2>2, <3>1
    <3>3. f[k + 1] = S(k + 1, f[k]) /\ g[k + 1] = Written(g[k], requests[k + 1])
      BY <1>6, <1>9, <3>1
    <3> QED BY <1>4, <3>1, <3>2, <3>3
  <2> HIDE DEF T
  <2> QED BY <2>1, <2>2, IntervalInduction
<1>13. Buckets!CellsAfter(N) = g[N]
  BY <1>11, <1>12
<1> QED BY <1>6, <1>13

(* Each place ends up as the one request that covers it says.              *)
LEMMA CellsAfterIs ==
  ASSUME Buckets!Parameters, Buckets!NoSharedPages, cells \in Cells,
           NEW p \in Buckets!Path, Matches(p, requests)
  PROVE  LET after == Buckets!CellsAfter(Len(requests))
             W == Buckets!RequestsFor[p]
         IN  /\ after \in Cells
             /\ \A i \in 1 .. Len(W) : \A j \in 0 .. W[i].size - 1 :
                  W[i].address + j \in 0 .. Buckets!Size - 1
                  /\ after[W[i].address + j] = requests[i].data[j]
             /\ \A a \in 0 .. Buckets!Size - 1 :
                  (\A i \in 1 .. Len(W) : ~Covers(W[i], a)) => after[a] = cells[a]
<1> DEFINE W == Buckets!RequestsFor[p]
           N == Len(W)
<1>1. /\ Len(requests) = N
      /\ \A i \in 1 .. N : /\ requests[i].address = W[i].address
                           /\ requests[i].data \in [0 .. W[i].size - 1 -> {0, 1}]
                           /\ W[i].address + W[i].size <= Buckets!Size
  BY DEF Matches
<1>2. N \in Nat /\ \A i \in 1 .. N : W[i].size \in Nat \ {0} /\ W[i].address \in Nat
  BY WantedSome
<1>3. Buckets!Size \in Nat
  BY SizesAddUp
<1>4. \A a \in Nat, i, j \in 1 .. N : Covers(W[i], a) /\ Covers(W[j], a) => i = j
  BY WantedApart
<1> HIDE DEF W, N
<1>5. ASSUME NEW i \in 1 .. N, NEW mem \in Cells
      PROVE  /\ Written(mem, requests[i]) \in Cells
             /\ \A a \in 0 .. Buckets!Size - 1 :
                  Written(mem, requests[i])[a] = IF Covers(W[i], a)
                    THEN requests[i].data[a - W[i].address]
                                                 ELSE mem[a]
  <2> DEFINE x == W[i].address
             s == W[i].size
             d == requests[i].data
  <2>1. x \in Nat /\ s \in Nat /\ d \in [0 .. s - 1 -> {0, 1}] /\ requests[i].address = x
          /\ DOMAIN d = 0 .. s - 1
    BY <1>1, <1>2
  <2>2. mem \in [0 .. Buckets!Size - 1 -> {0, 1}] /\ DOMAIN mem = 0 .. Buckets!Size - 1
    BY DEF Cells
  <2>3. \A a \in 0 .. Buckets!Size - 1 : Covers(W[i], a) <=> a - x \in 0 .. s - 1
    <3> SUFFICES ASSUME NEW a \in 0 .. Buckets!Size - 1
                 PROVE  Covers(W[i], a) <=> a - x \in 0 .. s - 1
      OBVIOUS
    <3>1. Covers(W[i], a) <=> x <= a /\ a < x + s
      BY DEF Covers
    <3>2. a \in Nat
      BY <1>3
    <3> HIDE DEF x, s
    <3> QED BY <2>1, <3>1, <3>2
  <2>4. Written(mem, requests[i])
          = [a \in 0 .. Buckets!Size - 1 |-> IF a - x \in 0 .. s - 1 THEN d[a - x] ELSE mem[a]]
    BY <2>1, <2>2 DEF Written
  <2> HIDE DEF x, s, d
  <2>5. Written(mem, requests[i]) \in [0 .. Buckets!Size - 1 -> {0, 1}]
    BY <2>1, <2>2, <2>4
  <2>6. \A a \in 0 .. Buckets!Size - 1 : Written(mem, requests[i])[a] = IF Covers(W[i], a)
          THEN d[a - x] ELSE mem[a]
    BY <2>3, <2>4
  <2> QED BY <2>5, <2>6 DEF Cells, d, x
<1>6. PICK f \in [0 .. N -> Cells] :
           /\ Buckets!CellsAfter(N) = f[N] /\ f[0] = cells
           /\ \A i \in 1 .. N : f[i] = Written(f[i - 1], requests[i])
  BY <1>2, <1>3, <1>5, CellsAfterExists
<1> DEFINE Right(k) ==
             /\ \A i \in 1 .. k : \A a \in 0 .. Buckets!Size - 1 :
                  Covers(W[i], a) => f[k][a] = requests[i].data[a - W[i].address]
             /\ \A a \in 0 .. Buckets!Size - 1 : (\A i \in 1 .. k : ~Covers(W[i], a))
                  => f[k][a] = cells[a]
           T == { k \in 0 .. N : Right(k) }
<1>7. \A k \in 0 .. N : k \in T
  <2>1. 0 \in T
    <3>1. 0 \in 0 .. N
      BY <1>2
    <3>2. Right(0)
      BY <1>6
    <3> QED BY <3>1, <3>2
  <2>2. ASSUME NEW k \in 0 .. N - 1, k \in T PROVE k + 1 \in T
    <3>1. k + 1 \in 1 .. N /\ k + 1 \in 0 .. N /\ (k + 1) - 1 = k /\ k \in 0 .. N /\ k \in Nat
      BY <1>2
    <3>2. f[k + 1] = Written(f[k], requests[k + 1]) /\ f[k] \in Cells
      BY <1>6, <3>1
    <3>3. \A a \in 0 .. Buckets!Size - 1 :
            f[k + 1][a] = IF Covers(W[k + 1], a) THEN requests[k + 1].data[a - W[k + 1].address]
                          ELSE f[k][a]
      BY <1>5, <3>1, <3>2
    <3>4. Right(k)
      BY <2>2
    <3>5. \A i \in 1 .. k : i \in 1 .. N /\ i # k + 1
      BY <1>2, <3>1
    <3>6. \A i \in 1 .. k + 1 : i \in 1 .. k \/ i = k + 1
      BY <3>1
    <3>7. ASSUME NEW i \in 1 .. k + 1, NEW a \in 0 .. Buckets!Size - 1, Covers(W[i], a)
          PROVE  f[k + 1][a] = requests[i].data[a - W[i].address]
      <4>1. CASE i = k + 1
        BY <3>3, <3>7, <4>1
      <4>2. CASE i \in 1 .. k
        <5>1. a \in Nat
          BY <1>3
        <5>2. ~Covers(W[k + 1], a)
          BY <1>4, <3>1, <3>5, <3>7, <4>2, <5>1
        <5> QED BY <3>3, <3>4, <3>7, <4>2, <5>2
      <4> QED BY <3>6, <4>1, <4>2
    <3>8. ASSUME NEW a \in 0 .. Buckets!Size - 1, \A i \in 1 .. k + 1 : ~Covers(W[i], a)
          PROVE  f[k + 1][a] = cells[a]
      <4>1. k + 1 \in 1 .. k + 1 /\ \A i \in 1 .. k : i \in 1 .. k + 1
        BY <3>1
      <4>2. ~Covers(W[k + 1], a) /\ \A i \in 1 .. k : ~Covers(W[i], a)
        BY <3>8, <4>1
      <4> QED BY <3>3, <3>4, <4>2
    <3>9. Right(k + 1)
      BY <3>7, <3>8
    <3> QED BY <3>1, <3>9
  <2> HIDE DEF T
  <2> QED BY <1>2, <2>1, <2>2, IntervalInduction
<1>8. N \in 0 .. N
  BY <1>2
<1>9. Right(N)
  <2>1. N \in T
    BY <1>7, <1>8
  <2> HIDE DEF Right
  <2> QED BY <2>1
<1>10. Buckets!CellsAfter(N) \in Cells
  BY <1>6, <1>8
<1>11. ASSUME NEW i \in 1 .. N, NEW j \in 0 .. W[i].size - 1
       PROVE  /\ W[i].address + j \in 0 .. Buckets!Size - 1
              /\ Buckets!CellsAfter(N)[W[i].address + j] = requests[i].data[j]
  <2> DEFINE x == W[i].address
             s == W[i].size
             a == x + j
  <2>1. x \in Nat /\ s \in Nat /\ x + s <= Buckets!Size /\ j \in 0 .. s - 1
    BY <1>1, <1>2
  <2>2. Covers(W[i], a) <=> x <= a /\ a < x + s
    BY DEF Covers
  <2> HIDE DEF x, s
  <2>3. a \in 0 .. Buckets!Size - 1 /\ a - x = j /\ x <= a /\ a < x + s
    BY <1>3, <2>1
  <2> HIDE DEF a
  <2>4. f[N][a] = requests[i].data[a - x]
    BY <1>9, <2>2, <2>3 DEF x
  <2> QED BY <1>6, <2>3, <2>4 DEF a, x
<1> QED BY <1>1, <1>6, <1>9, <1>10, <1>11 DEF W, N

(* What the buckets of the tree hold when the path is written back.        *)
LEMMA WriteStep ==
  ASSUME Buckets!Parameters, Buckets!NoSharedPages, cells \in Cells,
           NEW p \in Buckets!Path, Matches(p, requests),
         Keeps(p, requests, cells), NEW kind \in Buckets!Kind, NEW n \in Buckets!Bucket
  PROVE  LET after == Buckets!CellsAfter(Len(requests))
         IN  /\ \A l \in Buckets!Level : n = Buckets!BucketOn(p, l)
                  => StoredIn(after, kind, n) = BufferedIn(requests, p, kind, l)
             /\ (\A l \in Buckets!Level : n # Buckets!BucketOn(p, l))
                  => StoredIn(after, kind, n) = StoredIn(cells, kind, n)
<1> DEFINE after == Buckets!CellsAfter(Len(requests))
           W == Buckets!RequestsFor[p]
           q == Through(n)
           a == Buckets!GetAddress(kind, q, n[1])
           B == Buckets!BucketSize(kind)
<1>1. /\ \A i \in 1 .. Len(W) : \A j \in 0 .. W[i].size - 1 :
           W[i].address + j \in 0 .. Buckets!Size - 1
             /\ after[W[i].address + j] = requests[i].data[j]
      /\ \A x \in 0 .. Buckets!Size - 1 : (\A i \in 1 .. Len(W) : ~Covers(W[i], x))
           => after[x] = cells[x]
  BY CellsAfterIs
<1>2. q \in Buckets!Path /\ n[1] \in Buckets!Level /\ Buckets!BucketOn(q, n[1]) = n
  BY ThroughIs
<1> HIDE DEF after, W, q
<1>3. ASSUME NEW l \in Buckets!Level, n = Buckets!BucketOn(p, l)
      PROVE  StoredIn(after, kind, n) = BufferedIn(requests, p, kind, l)
  <2> DEFINE r == PlaceOfBucket(kind, p, l).request
             o == PlaceOfBucket(kind, p, l).offset
  <2>1. a = Buckets!GetAddress(kind, p, l)
    BY <1>2, <1>3, SamePlace
  <2>2. ASSUME NEW i \in 0 .. B - 1 PROVE after[a + i] = requests[r].data[o + i]
    <3>1. r \in 1 .. Len(W) /\ o + i \in 0 .. W[r].size - 1 /\ W[r].address + (o + i) = a + i
      BY <2>1, ByteIsAt DEF W
    <3> HIDE DEF r, o, a
    <3>2. after[W[r].address + (o + i)] = requests[r].data[o + i]
      BY <1>1, <3>1
    <3> QED BY <3>1, <3>2
  <2> HIDE DEF r, o, a, B
  <2>3. Buckets!Window(after, a, B) = Buckets!Window(requests[r].data, o, B)
    BY <2>2, WindowIs
  <2> QED BY <2>3 DEF StoredIn, BufferedIn, a, B, r, o, q
<1>4. ASSUME \A l \in Buckets!Level : n # Buckets!BucketOn(p, l)
      PROVE  StoredIn(after, kind, n) = StoredIn(cells, kind, n)
  <2>1. a \in Nat /\ B \in Nat \ {0} /\ Buckets!Size \in Nat /\ a + B <= Buckets!Size
    <3>1. /\ a \in Nat /\ B \in Nat \ {0}
               /\ a + B <= Buckets!Offset(kind) + Buckets!LayoutSize(kind)
          /\ Buckets!Offset(kind) + Buckets!LayoutSize(kind) <= Buckets!Size
      BY <1>2, AddressBounds
    <3>2. Buckets!Offset(kind) \in Nat /\ Buckets!LayoutSize(kind) \in Nat /\ Buckets!Size \in Nat
      BY <1>2, AddressBounds, SizesAddUp DEF Buckets!Kind
    <3> HIDE DEF a, B
    <3> QED BY <3>1, <3>2
  <2>2. ASSUME NEW i \in 0 .. B - 1 PROVE after[a + i] = cells[a + i]
    <3> DEFINE x == a + i
    <3>1. x \in 0 .. Buckets!Size - 1 /\ i \in Nat
      <4> HIDE DEF a, B
      <4> QED BY <2>1
    <3>2. ~InBucket(p, x)
      <4>1. SUFFICES ASSUME NEW k \in Buckets!Kind, NEW l \in Buckets!Level,
                            Buckets!GetAddress(k, p, l) <= x, x < Buckets!GetAddress(k, p, l)
                              + Buckets!BucketSize(k)
                     PROVE  FALSE
        BY DEF InBucket
      <4> DEFINE y == Buckets!GetAddress(k, p, l)
                 j == x - y
      <4>2. y \in Nat /\ Buckets!BucketSize(k) \in Nat
        BY AddressBounds
      <4>3. x \in Nat /\ y <= x /\ x < y + Buckets!BucketSize(k)
        BY <2>1, <3>1, <4>1
      <4> HIDE DEF x, y
      <4>4. j \in 0 .. Buckets!BucketSize(k) - 1 /\ x = y + j
        BY <4>2, <4>3
      <4> HIDE DEF j
      <4>5. Buckets!BucketOn(q, n[1]) = Buckets!BucketOn(p, l)
        BY <1>2, <4>4, BucketsApart DEF x, y
      <4> QED BY <1>2, <1>4, <4>5
    <3> HIDE DEF x
    <3>3. CASE \A r \in 1 .. Len(W) : ~Covers(W[r], x)
      BY <1>1, <3>1, <3>3 DEF x
    <3>4. CASE \E r \in 1 .. Len(W) : Covers(W[r], x)
      <4>1. PICK r \in 1 .. Len(W) : Covers(W[r], x)
        BY <3>4
      <4> DEFINE y == W[r].address
                 s == W[r].size
                 j == x - y
      <4>2. y \in Nat /\ s \in Nat
        BY WantedSome DEF W
      <4>3. y <= x /\ x < y + s
        BY <4>1 DEF Covers
      <4> HIDE DEF y, s
      <4>4. j \in 0 .. s - 1 /\ x = y + j
        BY <2>1, <3>1, <4>2, <4>3
      <4> HIDE DEF j
      <4>5. after[y + j] = requests[r].data[j]
        BY <1>1, <4>4 DEF y, s
      <4>6. requests[r].data[j] = cells[y + j]
        BY <3>2, <4>4 DEF Keeps, y, s, W
      <4> QED BY <4>4, <4>5, <4>6 DEF x
    <3> QED BY <3>3, <3>4
  <2> HIDE DEF a, B
  <2>3. Buckets!Window(after, a, B) = Buckets!Window(cells, a, B)
    BY <2>2, WindowIs
  <2> QED BY <2>3 DEF StoredIn, a, B, q
<1> QED BY <1>3, <1>4 DEF after

-----------------------------------------------------------------------------

(* The inductive invariant: the requests are those of the current path, and *)
(* what they hold of other buckets than the path's is what is in the memory. *)
(* A page brought in with a path is written back as a whole: it is only    *)
(* because of Keeps that the buckets beside the path survive.              *)
BucketsInv ==
  /\ cells \in Cells
  /\ currentPath \in Buckets!Path \cup {NoPath}
  /\ currentPath = NoPath => requests = << >>
  /\ currentPath # NoPath => Matches(currentPath, requests) /\ Keeps(currentPath, requests, cells)

BufferOf(p, reqs) ==
  [k \in Buckets!Kind |-> [l \in Buckets!Level |->
     IF p = NoPath
       THEN [i \in 0 .. Buckets!BucketSize(k) - 1 |-> 0] ELSE BufferedIn(reqs, p, k, l)]]

BucketsIn(mem) == [k \in Buckets!Kind |-> [n \in Buckets!Bucket |-> StoredIn(mem, k, n)]]

(* The mapping to TreeStore, now.                                          *)
StoredNow == [k \in Buckets!Kind |-> [n \in Buckets!Bucket |-> Buckets!Stored(k, n)]]

BufferNow ==
  [k \in Buckets!Kind |-> [l \in Buckets!Level |->
     IF currentPath = NoPath
       THEN [i \in 0 .. Buckets!BucketSize(k) - 1 |-> 0] ELSE Buckets!Buffered(k, l)]]

LEMMA NowIs ==
  ASSUME Buckets!Parameters, Buckets!NoSharedPages, BucketsInv
  PROVE  StoredNow = BucketsIn(cells) /\ BufferNow = BufferOf(currentPath, requests)
<1>1. StoredNow = BucketsIn(cells)
  BY DEF StoredNow, BucketsIn, Buckets!Stored, StoredIn, Through
<1>2. ASSUME currentPath # NoPath, NEW k \in Buckets!Kind, NEW l \in Buckets!Level
      PROVE  Buckets!Buffered(k, l) = BufferedIn(requests, currentPath, k, l)
  <2>1. currentPath \in Buckets!Path /\ Matches(currentPath, requests)
    BY <1>2 DEF BucketsInv
  <2>2. PointerOf(requests, currentPath, k, l) = PlaceOfBucket(k, currentPath, l)
    BY <2>1, PointerIs
  <2>3. Buckets!Pointer(k, l) = PointerOf(requests, currentPath, k, l)
    BY DEF Buckets!Pointer, PointerOf, Buckets!Cardinality, Cardinality
  <2> QED BY <2>2, <2>3 DEF Buckets!Buffered, BufferedIn
<1> QED BY <1>1, <1>2 DEF BufferNow, BufferOf

LEMMA NextIs ==
  ASSUME Buckets!Parameters, Buckets!NoSharedPages, BucketsInv'
  PROVE  StoredNow' = BucketsIn(cells') /\ BufferNow' = BufferOf(currentPath', requests')
<1>1. StoredNow' = BucketsIn(cells')
  BY DEF StoredNow, BucketsIn, Buckets!Stored, StoredIn, Through
<1>2. ASSUME currentPath' # NoPath, NEW k \in Buckets!Kind, NEW l \in Buckets!Level
      PROVE  Buckets!Buffered(k, l)' = BufferedIn(requests', currentPath', k, l)
  <2>1. currentPath' \in Buckets!Path /\ Matches(currentPath', requests')
    BY <1>2 DEF BucketsInv
  <2>2. PointerOf(requests', currentPath', k, l) = PlaceOfBucket(k, currentPath', l)
    BY <2>1, PointerIs
  <2>3. Buckets!Pointer(k, l)' = PointerOf(requests', currentPath', k, l)
    BY DEF Buckets!Pointer, PointerOf, Buckets!Cardinality, Cardinality
  <2> QED BY <2>2, <2>3 DEF Buckets!Buffered, BufferedIn
<1> QED BY <1>1, <1>2 DEF BufferNow, BufferOf

Zeros(k) == [i \in 0 .. Buckets!BucketSize(k) - 1 |-> 0]

(* What the steps do.                                                      *)
LEMMA InitGivesBucketsInv ==
  ASSUME Buckets!Parameters, Buckets!NoSharedPages, Buckets!Init
  PROVE  BucketsInv /\ StoredNow = [k \in Buckets!Kind |-> [n \in Buckets!Bucket |-> Zeros(k)]]
         /\ currentPath = NoPath
              /\ BufferNow = [k \in Buckets!Kind |-> [l \in Buckets!Level |-> Zeros(k)]]
<1>1. BucketsInv
  BY DEF Buckets!Init, BucketsInv, Cells
<1>2. ASSUME NEW k \in Buckets!Kind, NEW n \in Buckets!Bucket PROVE StoredIn(cells, k, n) = Zeros(k)
  <2> DEFINE a == Buckets!GetAddress(k, Through(n), n[1])
             B == Buckets!BucketSize(k)
  <2>1. a \in Nat /\ B \in Nat \ {0} /\ Buckets!Size \in Nat /\ a + B <= Buckets!Size
    <3>0. Through(n) \in Buckets!Path /\ n[1] \in Buckets!Level
      BY ThroughIs
    <3>1. /\ a \in Nat /\ B \in Nat \ {0} /\ a + B <= Buckets!Offset(k) + Buckets!LayoutSize(k)
          /\ Buckets!Offset(k) + Buckets!LayoutSize(k) <= Buckets!Size
      BY <3>0, AddressBounds
    <3>2. Buckets!Offset(k) \in Nat /\ Buckets!LayoutSize(k) \in Nat /\ Buckets!Size \in Nat
      BY <3>0, AddressBounds, SizesAddUp DEF Buckets!Kind
    <3> HIDE DEF a, B
    <3> QED BY <3>1, <3>2
  <2> HIDE DEF a, B
  <2>2. ASSUME NEW i \in 0 .. B - 1 PROVE cells[a + i] = 0
    <3>1. a + i \in 0 .. Buckets!Size - 1
      BY <2>1
    <3> QED BY <3>1 DEF Buckets!Init
  <2>3. Buckets!Window(cells, a, B) = [i \in 0 .. B - 1 |-> 0]
    BY <2>2 DEF Buckets!Window
  <2> QED BY <2>3 DEF StoredIn, Zeros, a, B
<1>3. StoredNow = [k \in Buckets!Kind |-> [n \in Buckets!Bucket |-> Zeros(k)]]
  BY <1>1, <1>2, NowIs DEF BucketsIn
<1>4. currentPath = NoPath
  BY DEF Buckets!Init
<1>5. BufferNow = [k \in Buckets!Kind |-> [l \in Buckets!Level |-> Zeros(k)]]
  BY <1>4 DEF BufferNow, Zeros
<1> QED BY <1>1, <1>3, <1>4, <1>5

LEMMA ReadPathDoes ==
  ASSUME Buckets!Parameters, Buckets!NoSharedPages, BucketsInv,
           NEW p \in Buckets!Path, Buckets!ReadPath(p)
  PROVE  /\ BucketsInv' /\ StoredNow' = StoredNow /\ currentPath' = p
         /\ BufferNow' = [k
              \in Buckets!Kind |-> [l \in Buckets!Level |-> StoredNow[k][Buckets!BucketOn(p, l)]]]
<1> DEFINE W == Buckets!RequestsFor[p]
<1>1. /\ \A i \in 1 .. Len(W) : W[i].address + W[i].size <= Buckets!Size
      /\ currentPath' = p /\ cells' = cells
      /\ requests' = [i \in 1 .. Len(W) |->
                        [address |-> W[i].address,
                          data |-> Buckets!Window(cells, W[i].address, W[i].size)]]
  BY DEF Buckets!ReadPath
<1>2. cells \in Cells /\ p # NoPath
  BY DEF BucketsInv, Buckets!Parameters
<1>3. /\ Matches(p, requests') /\ Keeps(p, requests', cells)
      /\ \A kind \in Buckets!Kind, l \in Buckets!Level :
           BufferedIn(requests', p, kind, l)
             = Buckets!Window(cells, Buckets!GetAddress(kind, p, l), Buckets!BucketSize(kind))
  BY <1>1, <1>2, ReadStep
<1>4. BucketsInv'
  BY <1>1, <1>2, <1>3 DEF BucketsInv
<1>5. StoredNow' = StoredNow /\ StoredNow = BucketsIn(cells)
  BY <1>1, <1>4, NowIs, NextIs
<1>6. ASSUME NEW k \in Buckets!Kind, NEW l \in Buckets!Level
      PROVE  BufferedIn(requests', p, k, l) = StoredNow[k][Buckets!BucketOn(p, l)]
  <2> DEFINE n == Buckets!BucketOn(p, l)
  <2>1. n \in Buckets!Bucket
    BY BucketsBucketOnIsBucket
  <2>2. Through(n) \in Buckets!Path /\ n[1] \in Buckets!Level
          /\ Buckets!BucketOn(Through(n), n[1]) = n
    BY <2>1, ThroughIs
  <2>3. Buckets!GetAddress(k, Through(n), n[1]) = Buckets!GetAddress(k, p, l)
    BY <2>2, SamePlace
  <2>4. StoredNow[k][n] = StoredIn(cells, k, n)
    BY <1>5, <2>1 DEF BucketsIn
  <2> HIDE DEF n
  <2>5. StoredIn(cells, k, n)
          = Buckets!Window(cells, Buckets!GetAddress(k, p, l), Buckets!BucketSize(k))
    BY <2>3 DEF StoredIn
  <2> QED BY <1>3, <2>4, <2>5 DEF n
<1>7. BufferNow' = BufferOf(p, requests')
  BY <1>1, <1>4, NextIs
<1> QED BY <1>1, <1>2, <1>4, <1>5, <1>6, <1>7 DEF BufferOf

LEMMA FillDoes ==
  ASSUME Buckets!Parameters, Buckets!NoSharedPages, BucketsInv, NEW kind \in Buckets!Kind,
           NEW l \in Buckets!Level, Buckets!Fill(kind, l)
  PROVE  /\ BucketsInv' /\ StoredNow' = StoredNow /\ currentPath # NoPath
              /\ currentPath' = currentPath
         /\ \E v \in {0, 1} :
              BufferNow' = [BufferNow EXCEPT ![kind][l]
                = [i \in 0 .. Buckets!BucketSize(kind) - 1 |-> v]]
<1> DEFINE at == PlaceOfBucket(kind, currentPath, l)
           B == Buckets!BucketSize(kind)
<1>1. currentPath # NoPath /\ cells' = cells /\ currentPath' = currentPath
  BY DEF Buckets!Fill
<1>2. currentPath \in Buckets!Path /\ Matches(currentPath, requests)
        /\ Keeps(currentPath, requests, cells)
  BY <1>1 DEF BucketsInv
<1>3. Buckets!Pointer(kind, l) = at
  <2>1. Buckets!Pointer(kind, l) = PointerOf(requests, currentPath, kind, l)
    BY DEF Buckets!Pointer, PointerOf, Buckets!Cardinality, Cardinality
  <2> QED BY <1>2, <2>1, PointerIs
<1>4. PICK v \in {0, 1} :
        requests' = [requests EXCEPT ![at.request].data =
             [i \in DOMAIN @ |-> IF at.offset <= i /\ i < at.offset + B THEN v ELSE @[i]]]
  BY <1>3 DEF Buckets!Fill
<1>5. at.request \in 1 .. Len(requests) /\ requests \in Seq([address : Nat, data : Contents])
  BY <1>2, PlaceIs DEF Matches
<1> HIDE DEF at
<1>6. requests' = Refilled(requests, at, B, v)
  <2> DEFINE r == at.request
             T == [address : Nat, data : Contents]
             D == FilledAt(requests[r].data, at.offset, B, v)
  <2>1. requests' = [requests EXCEPT ![r] = [requests[r] EXCEPT !.data = D]]
    BY <1>4 DEF FilledAt
  <2>2. requests[r] \in T
    <3> HIDE DEF T
    <3>1. requests \in Seq(T) /\ r \in 1 .. Len(requests)
      BY <1>5 DEF T
    <3> QED BY <3>1
  <2>3. [requests[r] EXCEPT !.data = D] = [address |-> requests[r].address, data |-> D]
    <3> HIDE DEF r, D
    <3> QED BY <2>2
  <2> QED BY <2>1, <2>3 DEF Refilled
<1>7. /\ Matches(currentPath, requests') /\ Keeps(currentPath, requests', cells)
      /\ BufferedIn(requests', currentPath, kind, l) = [i \in 0 .. B - 1 |-> v]
      /\ \A k \in Buckets!Kind, m \in Buckets!Level : (k # kind \/ m # l) =>
           BufferedIn(requests', currentPath, k, m) = BufferedIn(requests, currentPath, k, m)
  BY <1>2, <1>6, FillStep DEF at
<1>8. BucketsInv'
  BY <1>1, <1>2, <1>7 DEF BucketsInv
<1>9. StoredNow' = StoredNow
  BY <1>1, <1>8, NowIs, NextIs
<1>10. /\ BufferNow = [k
            \in Buckets!Kind |-> [m \in Buckets!Level |-> BufferedIn(requests, currentPath, k, m)]]
       /\ BufferNow' = [k \in Buckets!Kind |-> [m
            \in Buckets!Level |-> BufferedIn(requests', currentPath, k, m)]]
  BY <1>1, <1>8, NowIs, NextIs DEF BufferOf
<1>11. BufferNow' = [BufferNow EXCEPT ![kind][l] = [i \in 0 .. B - 1 |-> v]]
  <2> DEFINE F == [i \in 0 .. B - 1 |-> v]
             Old(k, m) == BufferedIn(requests, currentPath, k, m)
             New(k, m) == BufferedIn(requests', currentPath, k, m)
  <2>1. New(kind, l) = F /\ \A k \in Buckets!Kind, m \in Buckets!Level : (k # kind \/ m # l)
          => New(k, m) = Old(k, m)
    BY <1>7
  <2>2. /\ BufferNow = [k \in Buckets!Kind |-> [m \in Buckets!Level |-> Old(k, m)]]
        /\ BufferNow' = [k \in Buckets!Kind |-> [m \in Buckets!Level |-> New(k, m)]]
    BY <1>10
  <2> HIDE DEF F, Old, New
  <2>3. BufferNow' = [BufferNow EXCEPT ![kind][l] = F]
    BY <2>1, <2>2
  <2> QED BY <2>3 DEF F
<1> QED BY <1>1, <1>8, <1>9, <1>11

LEMMA WritePathDoes ==
  ASSUME Buckets!Parameters, Buckets!NoSharedPages, BucketsInv, Buckets!WritePath
  PROVE  /\ BucketsInv' /\ currentPath \in Buckets!Path /\ currentPath' = NoPath
         /\ StoredNow' = [k \in Buckets!Kind |-> [n \in Buckets!Bucket |->
                            IF \E l \in Buckets!Level : n = Buckets!BucketOn(currentPath, l)
                            THEN BufferNow[k][CHOOSE l \in Buckets!Level : n
                                   = Buckets!BucketOn(currentPath, l)]
                            ELSE StoredNow[k][n]]]
         /\ BufferNow' = [k \in Buckets!Kind |-> [l \in Buckets!Level |-> Zeros(k)]]
<1>1. currentPath # NoPath /\ cells' = Buckets!CellsAfter(Len(requests)) /\ currentPath' = NoPath
        /\ requests' = << >>
  BY DEF Buckets!WritePath, Buckets!WrittenRequests, Buckets!PathAfterWrite
<1>2. currentPath \in Buckets!Path /\ Matches(currentPath, requests)
        /\ Keeps(currentPath, requests, cells) /\ cells \in Cells
  BY <1>1 DEF BucketsInv
<1>3. cells' \in Cells
  BY <1>1, <1>2, CellsAfterIs
<1>4. BucketsInv'
  BY <1>1, <1>3 DEF BucketsInv
<1>5. StoredNow' = BucketsIn(cells') /\ StoredNow = BucketsIn(cells)
      /\ BufferNow = BufferOf(currentPath, requests)
           /\ BufferNow' = BufferOf(currentPath', requests')
  BY <1>4, NowIs, NextIs
<1>6. ASSUME NEW k \in Buckets!Kind, NEW n \in Buckets!Bucket
      PROVE  StoredIn(cells', k, n)
               = IF \E l \in Buckets!Level : n = Buckets!BucketOn(currentPath, l)
                 THEN BufferNow[k][CHOOSE l \in Buckets!Level : n
                        = Buckets!BucketOn(currentPath, l)]
                 ELSE StoredNow[k][n]
  <2>1. /\ \A l \in Buckets!Level : n = Buckets!BucketOn(currentPath, l)
             => StoredIn(cells', k, n) = BufferedIn(requests, currentPath, k, l)
        /\ (\A l \in Buckets!Level : n # Buckets!BucketOn(currentPath, l))
             => StoredIn(cells', k, n) = StoredIn(cells, k, n)
    BY <1>1, <1>2, WriteStep
  <2>2. CASE \E l \in Buckets!Level : n = Buckets!BucketOn(currentPath, l)
    <3> DEFINE c == CHOOSE l \in Buckets!Level : n = Buckets!BucketOn(currentPath, l)
    <3>1. c \in Buckets!Level /\ n = Buckets!BucketOn(currentPath, c)
      BY <2>2
    <3> HIDE DEF c
    <3>2. BufferNow[k][c] = BufferedIn(requests, currentPath, k, c)
      BY <1>1, <1>5, <3>1 DEF BufferOf
    <3>3. StoredIn(cells', k, n) = BufferNow[k][c]
      BY <2>1, <3>1, <3>2
    <3> QED BY <2>2, <3>3 DEF c
  <2>3. CASE ~\E l \in Buckets!Level : n = Buckets!BucketOn(currentPath, l)
    <3>1. StoredNow[k][n] = StoredIn(cells, k, n)
      BY <1>5 DEF BucketsIn
    <3> QED BY <2>1, <2>3, <3>1
  <2> QED BY <2>2, <2>3
<1>7. BufferNow' = [k \in Buckets!Kind |-> [l \in Buckets!Level |-> Zeros(k)]]
  BY <1>1, <1>5 DEF BufferOf, Zeros
<1>8. StoredNow' = [k \in Buckets!Kind |-> [n \in Buckets!Bucket |->
                      IF \E l \in Buckets!Level : n = Buckets!BucketOn(currentPath, l)
                      THEN BufferNow[k][CHOOSE l \in Buckets!Level : n
                             = Buckets!BucketOn(currentPath, l)]
                      ELSE StoredNow[k][n]]]
  <2> DEFINE New(k, n) == IF \E l \in Buckets!Level : n = Buckets!BucketOn(currentPath, l)
                          THEN BufferNow[k][CHOOSE l \in Buckets!Level : n
                                 = Buckets!BucketOn(currentPath, l)]
                          ELSE StoredNow[k][n]
  <2>1. StoredNow' = [k \in Buckets!Kind |-> [n \in Buckets!Bucket |-> StoredIn(cells', k, n)]]
    BY <1>5 DEF BucketsIn
  <2>2. \A k \in Buckets!Kind, n \in Buckets!Bucket : StoredIn(cells', k, n) = New(k, n)
    BY <1>6
  <2> HIDE DEF New
  <2>3. StoredNow' = [k \in Buckets!Kind |-> [n \in Buckets!Bucket |-> New(k, n)]]
    BY <2>1, <2>2
  <2> QED BY <2>3 DEF New
<1> QED BY <1>1, <1>2, <1>4, <1>7, <1>8

-----------------------------------------------------------------------------
(* The two-level layout: one page for each level of pages.                 *)
LEMMA ExactQuotient ==
  ASSUME NEW m \in Nat \ {0}, NEW z \in Nat
  PROVE  (m * z) \div m = z /\ (m * z) % m = 0
<1>1. 0 \in 0 .. m - 1 /\ z \in Int
  OBVIOUS
<1>2. (m * z + 0) \div m = z /\ (m * z + 0) % m = 0
  BY <1>1, QuotientUnique
<1>3. m * z + 0 = m * z
  BY <1>1
<1> QED BY <1>2, <1>3

(* The two-level layout, as create() makes it when buckets divide pages.   *)
InPages == LayoutType = "TwoLevelHeapLayout" /\ Buckets!UsesPages("data")
  /\ Buckets!UsesPages("metadata")

LEMMA PagesNotShared ==
  ASSUME Buckets!Parameters, InPages
  PROVE  Buckets!NoSharedPages /\ Multiple(Buckets!LayoutSize("data"), MemoryPageSize)
<1> DEFINE D == Buckets!LayoutSize("data")
           B == MetadataBucketSize
<1>1. /\ LayoutType = "TwoLevelHeapLayout" /\ MemoryPageSize \in Nat \ {0} /\ B \in Nat \ {0}
      /\ D \in Nat /\ B = Buckets!BucketSize("metadata")
  BY SizesAre, SizesAddUp DEF InPages, Buckets!Kind, Buckets!BucketSize, Buckets!Parameters
<1>2. Multiple(D, MemoryPageSize)
  <2>1. "data" \in Buckets!Kind
    BY DEF Buckets!Kind
  <2>2. Buckets!NumPageLevels("data") \in 0 .. Buckets!NumPageLevels("data")
    BY <1>1, <2>1, PageLevelsDivide
  <2>3. D = Buckets!PageLevelOffset("data", Buckets!NumPageLevels("data"))
    BY <1>1 DEF Buckets!LayoutSize
  <2> QED BY <1>1, <2>1, <2>2, <2>3, OffsetsInPages
<1>3. Multiple(MemoryPageSize, B)
  <2>1. MemoryPageSize % B = 0
    BY <1>1 DEF InPages, Buckets!UsesPages
  <2> QED BY <1>1, <2>1, RemainderZero
<1>4. D % B = 0
  <2> HIDE DEF D, B
  <2>1. Multiple(D, B)
    BY <1>1, <1>2, <1>3, MultipleOfMultiple
  <2>2. PICK z \in Nat : D = B * z
    BY <2>1 DEF Multiple
  <2> QED BY <1>1, <2>2, ExactQuotient
<1>5. Buckets!UsesPages("data") /\ Buckets!UsesPages("metadata")
  BY DEF InPages
<1> QED BY <1>2, <1>4, <1>5 DEF Buckets!NoSharedPages

(* The first page of each level of pages.                                  *)
FirstPage(kind, k) == (Buckets!PageLevelOffset(kind, k) + Buckets!Offset(kind)) \div MemoryPageSize

LEMMA FirstPages ==
  ASSUME Buckets!Parameters, InPages, NEW kind \in Buckets!Kind
  PROVE  /\ \A k \in 0 .. Buckets!NumPageLevels(kind) :
              /\ FirstPage(kind, k) \in Nat
              /\ Buckets!PageLevelOffset(kind, k)
                   + Buckets!Offset(kind) = MemoryPageSize * FirstPage(kind, k)
         /\ \A k \in 0 .. Buckets!NumPageLevels(kind) - 1 :
              FirstPage(kind, k + 1) = FirstPage(kind, k)
                + Buckets!TwoToThe[Buckets!TopLevelOf(kind, k)]
         /\ \A i, j \in 0 .. Buckets!NumPageLevels(kind) : i <= j
              => FirstPage(kind, i) <= FirstPage(kind, j)
<1> DEFINE N == Buckets!NumPageLevels(kind)
<1>1. LayoutType = "TwoLevelHeapLayout" /\ MemoryPageSize \in Nat \ {0} /\ N \in Nat
  BY SizesAre, PageLevelsDivide DEF InPages
<1>2. /\ \A k \in 0 .. N : Buckets!PageLevelOffset(kind, k) \in Nat
      /\ \A k \in 0 .. N - 1 :
           Buckets!PageLevelOffset(kind, k + 1) = Buckets!PageLevelOffset(kind, k)
             + Buckets!TwoToThe[Buckets!TopLevelOf(kind, k)] * MemoryPageSize
  BY <1>1, PageLevelOffsets
<1>3. Buckets!Offset(kind) \in Nat /\ Multiple(Buckets!Offset(kind), MemoryPageSize)
  <2>1. CASE kind = "data"
    <3>1. Buckets!Offset(kind) = MemoryPageSize * 0 /\ 0 \in Nat
      BY <1>1, <2>1, SizesAddUp
    <3> QED BY <1>1, <3>1 DEF Multiple
  <2>2. CASE kind = "metadata"
    BY <2>2, SizesAddUp, PagesNotShared
  <2> QED BY <2>1, <2>2 DEF Buckets!Kind
<1>4. ASSUME NEW k \in 0 .. N
      PROVE  /\ FirstPage(kind, k) \in Nat
             /\ Buckets!PageLevelOffset(kind, k)
                  + Buckets!Offset(kind) = MemoryPageSize * FirstPage(kind, k)
  <2> DEFINE x == Buckets!PageLevelOffset(kind, k)
             y == Buckets!Offset(kind)
  <2>1. x \in Nat /\ y \in Nat /\ Multiple(x, MemoryPageSize) /\ Multiple(y, MemoryPageSize)
    BY <1>1, <1>2, <1>3, OffsetsInPages
  <2> HIDE DEF x, y
  <2>2. Multiple(x + y, MemoryPageSize)
    BY <1>1, <2>1, MultipleSum
  <2>3. PICK z \in Nat : x + y = MemoryPageSize * z
    BY <2>2 DEF Multiple
  <2>4. (x + y) \div MemoryPageSize = z
    BY <1>1, <2>3, ExactQuotient
  <2> QED BY <2>3, <2>4 DEF FirstPage, x, y
<1>5. ASSUME NEW k \in 0 .. N - 1
      PROVE  /\ FirstPage(kind, k + 1) = FirstPage(kind, k)
                  + Buckets!TwoToThe[Buckets!TopLevelOf(kind, k)]
             /\ Buckets!TwoToThe[Buckets!TopLevelOf(kind, k)] \in Nat
  <2> DEFINE t == Buckets!TwoToThe[Buckets!TopLevelOf(kind, k)]
             f == FirstPage(kind, k)
             g == FirstPage(kind, k + 1)
             x == Buckets!PageLevelOffset(kind, k)
             y == Buckets!Offset(kind)
  <2>1. k \in 0 .. N /\ k + 1 \in 0 .. N
    BY <1>1
  <2>2. t \in Nat
    <3>1. Buckets!TopLevelOf(kind, k) \in 0 .. Levels
      BY <1>1, <2>1, PageLevelsDivide
    <3> QED BY <3>1, BucketsTwoToTheFacts
  <2>3. f \in Nat /\ g \in Nat /\ x + y = MemoryPageSize * f
          /\ (x + t * MemoryPageSize) + y = MemoryPageSize * g
    BY <1>2, <1>4, <2>1
  <2>4. x \in Nat /\ y \in Nat
    BY <1>2, <1>3, <2>1
  <2> HIDE DEF t, f, g, x, y
  <2>5. MemoryPageSize * (f + t) = MemoryPageSize * g /\ f + t \in Nat
    <3> DEFINE u == t * MemoryPageSize
               v == MemoryPageSize * f
    <3>1. u \in Nat /\ v \in Nat /\ MemoryPageSize * (f + t) = v + u
      BY <1>1, <2>2, <2>3
    <3>2. x + y = v /\ (x + u) + y = MemoryPageSize * g
      BY <2>3
    <3> HIDE DEF u, v
    <3>3. (x + u) + y = v + u
      BY <2>4, <3>1, <3>2
    <3> QED BY <2>2, <2>3, <3>1, <3>2, <3>3
  <2>6. f + t = g
    <3>1. (MemoryPageSize * (f + t)) \div MemoryPageSize = f + t
            /\ (MemoryPageSize * g) \div MemoryPageSize = g
      BY <1>1, <2>3, <2>5, ExactQuotient
    <3> QED BY <2>5, <3>1
  <2> QED BY <2>2, <2>6 DEF f, g, t
<1>6. \A i, j \in 0 .. N : i <= j => FirstPage(kind, i) <= FirstPage(kind, j)
  <2> DEFINE h == [k \in 0 .. N |-> FirstPage(kind, k)]
  <2>1. \A k \in 0 .. N : h[k] \in Nat /\ h[k] = FirstPage(kind, k)
    BY <1>4
  <2>2. ASSUME NEW k \in 0 .. N - 1 PROVE h[k] <= h[k + 1]
    <3>1. k \in 0 .. N /\ k + 1 \in 0 .. N
      BY <1>1
    <3> DEFINE t == Buckets!TwoToThe[Buckets!TopLevelOf(kind, k)]
    <3>2. t \in Nat /\ h[k + 1] = h[k] + t /\ h[k] \in Nat
      BY <1>5, <2>1, <3>1
    <3> HIDE DEF t, h
    <3> QED BY <3>2
  <2> HIDE DEF h
  <2>3. \A i, j \in 0 .. N : i <= j => h[i] <= h[j]
    BY <1>1, <2>1, <2>2, Grows
  <2> QED BY <2>1, <2>3
<1> QED BY <1>4, <1>5, <1>6

(* All the buckets of a path at a level of pages are in one page of it.    *)
LEMMA PageOfBucket ==
  ASSUME Buckets!Parameters, InPages, NEW kind \in Buckets!Kind, NEW p \in Buckets!Path,
           NEW l, l \in Buckets!Level
  PROVE  /\ PageAt(kind, p, l) = FirstPage(kind, PageLevelAt(kind, l))
              + PathIndex(p, TopAbove(kind, l))
         /\ FirstPage(kind, PageLevelAt(kind, l)) <= PageAt(kind, p, l)
         /\ PageAt(kind, p, l) < FirstPage(kind, PageLevelAt(kind, l) + 1)
         /\ PageAt(kind, p, l) \in Nat
<1> DEFINE k == PageLevelAt(kind, l)
           t == TopAbove(kind, l)
           B == Buckets!BucketSize(kind)
           h == Row(kind, p, l)
           x == Buckets!PageLevelOffset(kind, k)
           y == Buckets!Offset(kind)
           i == PathIndex(p, t)
           f == FirstPage(kind, k)
<1>1. LayoutType = "TwoLevelHeapLayout" /\ MemoryPageSize \in Nat \ {0} /\ B \in Nat \ {0}
  BY SizesAre DEF InPages
<1>2. k \in 0 .. Buckets!NumPageLevels(kind) - 1 /\ k \in 0 .. Buckets!NumPageLevels(kind)
        /\ t \in 0 .. l
  BY <1>1, TopAboveLevel
<1>3. t \in Buckets!Level /\ i \in 0 .. Buckets!TwoToThe[t] - 1 /\ Buckets!TwoToThe[t] \in Nat \ {0}
  BY <1>2, IndexAbove, IndexIs
<1>4. /\ x + y = MemoryPageSize * f /\ f \in Nat /\ x \in Nat /\ y \in Nat
      /\ FirstPage(kind, k + 1) = f + Buckets!TwoToThe[t]
  <2>1. x + y = MemoryPageSize * f /\ f \in Nat /\ FirstPage(kind, k + 1) = f + Buckets!TwoToThe[t]
    BY <1>2, FirstPages DEF TopAbove
  <2>2. x \in Nat /\ y \in Nat
    BY <1>1, <1>2, PageLevelOffsets, AddressBounds
  <2> QED BY <2>1, <2>2
<1>5. h * B \in Nat /\ h * B + B <= MemoryPageSize
  BY <1>1, RowFits
<1>6. Buckets!GetAddress(kind, p, l) = h * B + i * MemoryPageSize + x + y
  <2>1. InLayout(kind, p, l) = h * B + i * MemoryPageSize + x
    BY <1>1 DEF InLayout, InPage
  <2> QED BY <2>1, AddressIs
<1> DEFINE r == h * B
           w == Buckets!TwoToThe[t]
<1> HIDE DEF k, t, B, h, x, y, i, f, w
<1>7. Buckets!GetAddress(kind, p, l) = MemoryPageSize * (f + i) + r
  <2> DEFINE u == i * MemoryPageSize
             v == MemoryPageSize * f
  <2>1. u \in Nat /\ v \in Nat /\ MemoryPageSize * (f + i) = v + u
    BY <1>1, <1>3, <1>4
  <2>2. r \in Nat
    BY <1>5
  <2>3. Buckets!GetAddress(kind, p, l) = r + u + x + y /\ x + y = v
    BY <1>4, <1>6
  <2> HIDE DEF u, v, r
  <2> QED BY <1>4, <2>1, <2>2, <2>3
<1>8. r \in 0 .. MemoryPageSize - 1 /\ f + i \in Int
  <2> HIDE DEF r
  <2>1. r \in Nat /\ r + B <= MemoryPageSize
    BY <1>5 DEF r
  <2>2. i \in Nat
    BY <1>3
  <2> QED BY <1>1, <1>4, <2>1, <2>2
<1>9. PageAt(kind, p, l) = f + i
  <2> DEFINE c == f + i
  <2>1. c \in Int /\ Buckets!GetAddress(kind, p, l) = MemoryPageSize * c + r
    BY <1>7, <1>8
  <2> HIDE DEF c, r
  <2>2. (MemoryPageSize * c + r) \div MemoryPageSize = c
    BY <1>1, <1>8, <2>1, QuotientUnique
  <2> QED BY <2>1, <2>2 DEF PageAt, c
<1>10. f <= f + i /\ f + i < f + w /\ f + i \in Nat
  BY <1>3, <1>4 DEF w
<1> QED BY <1>4, <1>9, <1>10 DEF f, i, w, k, t

PagesOfKind(kind, p) == { PageAt(kind, p, l) : l \in Buckets!Level }

LEMMA OnePageEach ==
  ASSUME Buckets!Parameters, InPages, NEW kind \in Buckets!Kind, NEW p \in Buckets!Path
  PROVE  /\ IsFiniteSet(PagesOfKind(kind, p))
         /\ Cardinality(PagesOfKind(kind, p)) = Buckets!NumPageLevels(kind)
<1> DEFINE N == Buckets!NumPageLevels(kind)
           Top(k) == Buckets!TopLevelOf(kind, k)
           P == PagesOfKind(kind, p)
           f == [k \in 0 .. N - 1 |-> PageAt(kind, p, Top(k))]
<1>1. LayoutType = "TwoLevelHeapLayout" /\ N \in Nat \ {0}
  BY PageLevelsDivide DEF InPages
<1>2. ASSUME NEW k \in 0 .. N - 1 PROVE Top(k) \in Buckets!Level /\ PageLevelAt(kind, Top(k)) = k
  <2>1. k \in 0 .. N /\ k + 1 \in 0 .. N
    BY <1>1
  <2>2. /\ Top(k) \in 0 .. Levels /\ Top(k + 1) \in 0 .. Levels
        /\ Top(k + 1) = Top(k) + LevelsOfPage(kind, k)
    BY <1>1, <2>1, PageLevelsDivide
  <2>3. LevelsOfPage(kind, k) \in Nat \ {0}
    <3>1. Buckets!FirstPageLevels(kind) \in 1 .. Buckets!LevelsPerPage(kind)
            /\ Buckets!LevelsPerPage(kind) \in Nat \ {0}
      BY <1>1, PageLevelsDivide, PagesHaveRoom
    <3> QED BY <3>1 DEF LevelsOfPage
  <2> HIDE DEF Top
  <2>4. Top(k) < Top(k + 1) /\ Top(k) <= Top(k) /\ Top(k) \in Buckets!Level
    BY <2>2, <2>3, LevelsFacts DEF Buckets!Level
  <2>5. Within(kind, k, Top(k))
    BY <2>4 DEF Within, Top
  <2>6. /\ PageLevelAt(kind, Top(k)) \in 0 .. N - 1
        /\ Within(kind, PageLevelAt(kind, Top(k)), Top(k))
    BY <1>1, <2>4, PageLevelOfLevel
  <2>7. PageLevelAt(kind, Top(k)) = k
    BY <1>1, <2>4, <2>5, <2>6, PageLevelUnique
  <2> QED BY <2>4, <2>7
<1>3. \A k \in 0 .. N - 1 : f[k] \in P
  BY <1>2 DEF PagesOfKind
<1>4. ASSUME NEW j \in 0 .. N - 1, NEW k \in 0 .. N - 1, j < k PROVE f[j] < f[k]
  <2>1. Top(j) \in Buckets!Level /\ Top(k) \in Buckets!Level /\ PageLevelAt(kind, Top(j)) = j
          /\ PageLevelAt(kind, Top(k)) = k
    BY <1>2
  <2>2. /\ PageAt(kind, p, Top(j)) < FirstPage(kind, j + 1) /\ PageAt(kind, p, Top(j)) \in Nat
        /\ FirstPage(kind, k) <= PageAt(kind, p, Top(k)) /\ PageAt(kind, p, Top(k)) \in Nat
    BY <2>1, PageOfBucket
  <2>3. j + 1 \in 0 .. N /\ k \in 0 .. N /\ j + 1 <= k
    BY <1>1, <1>4
  <2>4. /\ FirstPage(kind, j + 1) <= FirstPage(kind, k)
        /\ FirstPage(kind, j + 1) \in Nat /\ FirstPage(kind, k) \in Nat
    BY <2>3, FirstPages
  <2> DEFINE a == PageAt(kind, p, Top(j))
             b == PageAt(kind, p, Top(k))
  <2> HIDE DEF a, b
  <2>5. a < b
    BY <2>2, <2>4 DEF a, b
  <2> QED BY <2>5 DEF a, b
<1>5. \A j, k \in 0 .. N - 1 : f[j] = f[k] => j = k
  <2>1. ASSUME NEW j \in 0 .. N - 1, NEW k \in 0 .. N - 1, f[j] = f[k] PROVE j = k
    <3>1. f[j] \in Nat /\ f[k] \in Nat
      BY <1>2, PageOfBucket
    <3>2. ~(f[j] < f[k]) /\ ~(f[k] < f[j])
      <4> HIDE DEF f
      <4> QED BY <2>1, <3>1
    <3>3. j \in Int /\ k \in Int
      OBVIOUS
    <3> HIDE DEF f
    <3> QED BY <1>4, <3>2, <3>3
  <2> HIDE DEF f
  <2> QED BY <2>1
<1>6. ASSUME NEW g \in P PROVE \E k \in 0 .. N - 1 : f[k] = g
  <2>1. PICK l \in Buckets!Level : g = PageAt(kind, p, l)
    BY DEF PagesOfKind
  <2> DEFINE k == PageLevelAt(kind, l)
  <2>2. k \in 0 .. N - 1
    BY <1>1, TopAboveLevel
  <2>3. Top(k) \in Buckets!Level /\ PageLevelAt(kind, Top(k)) = k
    BY <1>2, <2>2
  <2>4. PageAt(kind, p, l) = FirstPage(kind, k) + PathIndex(p, Top(k))
    BY PageOfBucket DEF TopAbove
  <2>5. PageAt(kind, p, Top(k)) = FirstPage(kind, k) + PathIndex(p, Top(k))
    <3> DEFINE t == Top(k)
    <3>1. t \in Buckets!Level /\ PageLevelAt(kind, t) = k /\ TopAbove(kind, t) = t
      BY <2>3 DEF TopAbove
    <3> HIDE DEF t, k
    <3>2. PageAt(kind, p, t) = FirstPage(kind, k) + PathIndex(p, t)
      BY <3>1, PageOfBucket
    <3> QED BY <3>2 DEF t
  <2>6. f[k] = g
    BY <2>1, <2>2, <2>4, <2>5
  <2> QED BY <2>2, <2>6
<1>7. f \in Bijection(0 .. N - 1, P)
  <2> DEFINE S == 0 .. N - 1
  <2>1. f \in [S -> P]
    BY <1>3
  <2> HIDE DEF f, P, S
  <2>2. /\ \A j, k \in S : f[j] = f[k] => j = k
        /\ \A g \in P : \E k \in S : f[k] = g
    BY <1>5, <1>6 DEF S
  <2>3. f \in Bijection(S, P)
    BY <2>1, <2>2, Fun_IsBij
  <2> QED BY <2>3 DEF S
<1>8. ExistsBijection(0 .. N - 1, P)
  <2> HIDE DEF f, P
  <2> QED BY <1>7 DEF ExistsBijection
<1>9. IsFiniteSet(0 .. N - 1) /\ Cardinality(0 .. N - 1) = N
  <2>1. 0 \in Int /\ N - 1 \in Int
    BY <1>1
  <2>2. IsFiniteSet(0 .. N - 1) /\ Cardinality(0 .. N - 1) = IF 0 > N - 1 THEN 0 ELSE N - 1 - 0 + 1
    BY <2>1, FS_Interval
  <2> QED BY <1>1, <2>2
<1> HIDE DEF f, P, N
<1>10. IsFiniteSet(P) /\ Cardinality(P) = N
  BY <1>8, <1>9, FS_Bijection
<1> QED BY <1>10 DEF P, N

LEMMA PagesCounted ==
  ASSUME Buckets!Parameters, InPages, NEW p \in Buckets!Path
  PROVE  Cardinality(Buckets!Pages(p))
           = Buckets!NumPageLevels("data") + Buckets!NumPageLevels("metadata")
<1> DEFINE D == PagesOfKind("data", p)
           M == PagesOfKind("metadata", p)
           nd == Buckets!NumPageLevels("data")
           nm == Buckets!NumPageLevels("metadata")
<1>1. Buckets!NoSharedPages /\ Buckets!UsesPages("data") /\ Buckets!UsesPages("metadata")
        /\ LayoutType = "TwoLevelHeapLayout"
  BY PagesNotShared DEF InPages
<1>2. "data" \in Buckets!Kind /\ "metadata" \in Buckets!Kind /\ Buckets!Kind = {"data", "metadata"}
  BY DEF Buckets!Kind
<1>3. Buckets!Pages(p) = D \cup M
  <2>1. \A g : g \in Buckets!Pages(p) <=> \E k \in Buckets!Kind, l
          \in Buckets!Level : Buckets!UsesPages(k) /\ g = PageAt(k, p, l)
    BY <1>1, PagesAre
  <2> QED BY <1>1, <1>2, <2>1 DEF PagesOfKind
<1>4. D \cap M = {}
  <2>1. SUFFICES ASSUME NEW g, g \in D, g \in M PROVE FALSE
    OBVIOUS
  <2>2. PICK l \in Buckets!Level : g = PageAt("data", p, l)
    BY <2>1 DEF PagesOfKind
  <2>3. PICK m \in Buckets!Level : g = PageAt("metadata", p, m)
    BY <2>1 DEF PagesOfKind
  <2> DEFINE i == PageLevelAt("data", l)
             j == PageLevelAt("metadata", m)
  <2>4. i + 1 \in 0 .. nd /\ nd \in 0 .. nd /\ nd \in Nat
    BY <1>1, <1>2, TopAboveLevel, PageLevelsDivide
  <2>5. j \in 0 .. nm /\ 0 \in 0 .. nm /\ nm \in Nat
    BY <1>1, <1>2, TopAboveLevel, PageLevelsDivide
  <2>6. g < FirstPage("data", i + 1) /\ FirstPage("metadata", j) <= g /\ g \in Nat
    BY <1>2, <2>2, <2>3, PageOfBucket
  <2> HIDE DEF i, j, nd, nm
  <2>7. FirstPage("data", i + 1) <= FirstPage("data", nd)
        /\ FirstPage("data", i + 1) \in Nat /\ FirstPage("data", nd) \in Nat
    BY <1>2, <2>4, FirstPages DEF nd
  <2>8. FirstPage("metadata", 0) <= FirstPage("metadata", j)
        /\ FirstPage("metadata", 0) \in Nat /\ FirstPage("metadata", j) \in Nat
    BY <1>2, <2>5, FirstPages DEF nm
  <2>9. FirstPage("data", nd) = FirstPage("metadata", 0)
    <3>1. Buckets!LayoutSize("data") = Buckets!PageLevelOffset("data", nd)
            /\ Buckets!LayoutSize("data") \in Nat
      BY <1>1, SizesAddUp DEF Buckets!LayoutSize, nd
    <3>2. Buckets!Offset("data") = 0 /\ Buckets!Offset("metadata") = Buckets!LayoutSize("data")
      BY SizesAddUp
    <3>3. Buckets!PageLevelOffset("metadata", 0) = 0
      BY <1>1, <1>2, PageLevelOffsets
    <3>4. Buckets!PageLevelOffset("data", nd) + Buckets!Offset("data")
            = Buckets!PageLevelOffset("metadata", 0) + Buckets!Offset("metadata")
      BY <3>1, <3>2, <3>3
    <3> QED BY <3>4 DEF FirstPage
  <2> QED BY <2>6, <2>7, <2>8, <2>9
<1>5. /\ IsFiniteSet(D) /\ Cardinality(D) = nd /\ IsFiniteSet(M) /\ Cardinality(M) = nm
      /\ nd \in Nat /\ nm \in Nat
  BY <1>1, <1>2, OnePageEach, PageLevelsDivide
<1> HIDE DEF D, M, nd, nm
<1>6. Cardinality(D \cup M) = Cardinality(D) + Cardinality(M) - Cardinality(D \cap M)
  BY <1>5, FS_Union
<1>7. Cardinality(D \cap M) = 0
  BY <1>4, FS_EmptySet
<1> QED BY <1>3, <1>5, <1>6, <1>7 DEF nd, nm

(* Every step keeps the invariant.                                         *)
LEMMA BucketsInvPreserved ==
  ASSUME Buckets!Parameters, Buckets!NoSharedPages, BucketsInv, [Buckets!Next]_(Buckets!vars)
  PROVE  BucketsInv'
<1>1. CASE Buckets!WritePath
  BY <1>1, WritePathDoes
<1>2. ASSUME NEW p \in Buckets!Path, Buckets!ReadPath(p) PROVE BucketsInv'
  BY <1>2, ReadPathDoes
<1>3. ASSUME NEW kind \in Buckets!Kind, NEW l \in Buckets!Level, Buckets!Fill(kind, l)
      PROVE  BucketsInv'
  BY <1>3, FillDoes
<1>4. CASE UNCHANGED Buckets!vars
  BY <1>4 DEF BucketsInv, Buckets!vars
<1> QED BY <1>1, <1>2, <1>3, <1>4 DEF Buckets!Next

LEMMA BucketsInvGivesTypes ==
  ASSUME Buckets!Parameters, Buckets!NoSharedPages, BucketsInv
  PROVE  Buckets!TypeOK
<1>1. CASE currentPath = NoPath
  BY <1>1 DEF BucketsInv, Buckets!TypeOK, Cells
<1>2. CASE currentPath # NoPath
  <2> DEFINE W == Buckets!RequestsFor[currentPath]
  <2>1. currentPath \in Buckets!Path /\ Matches(currentPath, requests)
    BY <1>2 DEF BucketsInv
  <2>2. Len(W) \in Nat \ {0} /\ \A i \in 1 .. Len(W) : W[i].size \in Nat \ {0}
          /\ W[i].address \in Nat
    BY <2>1, WantedSome
  <2>3. /\ Len(requests) = Len(W)
        /\ \A i \in 1 .. Len(W) : /\ requests[i].data \in [0 .. W[i].size - 1 -> {0, 1}]
                                  /\ W[i].address + W[i].size <= Buckets!Size
    BY <2>1 DEF Matches
  <2>4. Buckets!Size \in Nat
    BY SizesAddUp
  <2> HIDE DEF W
  <2>5. requests # << >>
    BY <2>2, <2>3
  <2>6. \A i \in 1 .. Len(requests) : \E n \in 1 .. Buckets!Size : requests[i].data
          \in [0 .. n - 1 -> {0, 1}]
    <3> SUFFICES ASSUME NEW i \in 1 .. Len(requests)
                 PROVE  \E n \in 1 .. Buckets!Size : requests[i].data \in [0 .. n - 1 -> {0, 1}]
      OBVIOUS
    <3> DEFINE s == W[i].size
               x == W[i].address
    <3>1. s \in Nat \ {0} /\ x \in Nat /\ x + s <= Buckets!Size
            /\ requests[i].data \in [0 .. s - 1 -> {0, 1}]
      BY <2>2, <2>3
    <3> HIDE DEF s, x
    <3>2. s \in 1 .. Buckets!Size
      BY <2>4, <3>1
    <3> QED BY <3>1, <3>2
  <2> QED BY <1>2, <2>5, <2>6 DEF BucketsInv, Buckets!TypeOK, Cells
<1> QED BY <1>1, <1>2

(* read_path() and write_path(): the memory and the requests hold bytes, and *)
(* there are requests exactly while there is a current path.  The requests *)
(* read with a path lie within the memory.                                 *)
THEOREM BucketsTypeCorrect ==
  ASSUME Buckets!Parameters, Buckets!NoSharedPages
  PROVE  Buckets!Spec => []Buckets!TypeOK
<1>1. Buckets!Init => BucketsInv
  BY InitGivesBucketsInv
<1>2. BucketsInv /\ [Buckets!Next]_(Buckets!vars) => BucketsInv'
  BY BucketsInvPreserved
<1>3. BucketsInv => Buckets!TypeOK
  BY BucketsInvGivesTypes
<1> QED BY <1>1, <1>2, <1>3, PTL DEF Buckets!Spec

(* setup_path_access() and the coalescer: a path of the two-level layout is *)
(* read with one page for each level of pages of the data and one for each *)
(* of the metadata, however many of its buckets are in a page.             *)
THEOREM PathsReadPageByPage ==
  ASSUME Buckets!Parameters, InPages
  PROVE  Buckets!Spec => []Buckets!OnePageForEachLevelOfPages
<1>0. Buckets!NoSharedPages
  BY PagesNotShared
<1>1. Buckets!Init => BucketsInv
  BY <1>0, InitGivesBucketsInv
<1>2. BucketsInv /\ [Buckets!Next]_(Buckets!vars) => BucketsInv'
  BY <1>0, BucketsInvPreserved
<1>3. BucketsInv => Buckets!OnePageForEachLevelOfPages
  <2>1. SUFFICES ASSUME BucketsInv, currentPath # NoPath
                 PROVE  Len(requests)
                          = Buckets!NumPageLevels("data") + Buckets!NumPageLevels("metadata")
    BY DEF Buckets!OnePageForEachLevelOfPages
  <2>2. currentPath \in Buckets!Path /\ Len(requests) = Len(Buckets!RequestsFor[currentPath])
    BY <2>1 DEF BucketsInv, Matches
  <2>3. Len(Buckets!RequestsFor[currentPath]) = OwnLengths + Cardinality(Buckets!Pages(currentPath))
    BY <1>0, <2>2, WantedIs
  <2>4. Cardinality(Buckets!Pages(currentPath))
          = Buckets!NumPageLevels("data") + Buckets!NumPageLevels("metadata")
    BY <2>2, PagesCounted
  <2>5. OwnLengths = 0
    BY DEF OwnLengths, OwnLength, InPages
  <2>6. Cardinality(Buckets!Pages(currentPath)) \in Nat
    BY <1>0, <2>2, PagesAre
  <2> QED BY <2>2, <2>3, <2>4, <2>5, <2>6
<1> QED BY <1>1, <1>2, <1>3, PTL DEF Buckets!Spec

(* The refinement, step by step.                                           *)
LEMMA InitMapsToTreeInit ==
  ASSUME Buckets!Parameters, Buckets!NoSharedPages, Buckets!Init
  PROVE  Buckets!Tree!TreeInit
<1>1. /\ StoredNow = [k \in Buckets!Kind |-> [n \in Buckets!Bucket |-> Zeros(k)]]
      /\ currentPath = NoPath
           /\ BufferNow = [k \in Buckets!Kind |-> [l \in Buckets!Level |-> Zeros(k)]]
  BY InitGivesBucketsInv
<1> QED BY <1>1 DEF Buckets!Tree!TreeInit, StoredNow, BufferNow, Zeros

LEMMA StepMapsToTreeStep ==
  ASSUME Buckets!Parameters, Buckets!NoSharedPages, BucketsInv, [Buckets!Next]_(Buckets!vars)
  PROVE  [Buckets!Tree!TreeNext]_(Buckets!Tree!treeVars)
<1>1. CASE Buckets!WritePath
  <2>1. /\ currentPath \in Buckets!Path /\ currentPath' = NoPath /\ currentPath # NoPath
        /\ StoredNow' = [k \in Buckets!Kind |-> [n \in Buckets!Bucket |->
                           IF \E l \in Buckets!Level : n = Buckets!BucketOn(currentPath, l)
                           THEN BufferNow[k][CHOOSE l \in Buckets!Level : n
                                  = Buckets!BucketOn(currentPath, l)]
                           ELSE StoredNow[k][n]]]
        /\ BufferNow' = [k \in Buckets!Kind |-> [l \in Buckets!Level |-> Zeros(k)]]
    BY <1>1, WritePathDoes DEF Buckets!Parameters
  <2>2. Buckets!Tree!WritePath
    BY <2>1 DEF Buckets!Tree!WritePath, StoredNow, BufferNow, Zeros
  <2> QED BY <2>2 DEF Buckets!Tree!TreeNext
<1>2. ASSUME NEW p \in Buckets!Path, Buckets!ReadPath(p) PROVE Buckets!Tree!TreeNext
  <2>1. /\ StoredNow' = StoredNow /\ currentPath' = p
        /\ BufferNow' = [k
             \in Buckets!Kind |-> [l \in Buckets!Level |-> StoredNow[k][Buckets!BucketOn(p, l)]]]
    BY <1>2, ReadPathDoes
  <2>2. Buckets!Tree!ReadPath(p)
    BY <2>1 DEF Buckets!Tree!ReadPath, StoredNow, BufferNow
  <2> QED BY <2>2 DEF Buckets!Tree!TreeNext
<1>3. ASSUME NEW kind \in Buckets!Kind, NEW l \in Buckets!Level, Buckets!Fill(kind, l)
      PROVE  Buckets!Tree!TreeNext
  <2>1. /\ StoredNow' = StoredNow /\ currentPath # NoPath /\ currentPath' = currentPath
        /\ \E v \in {0, 1} :
             BufferNow' = [BufferNow EXCEPT ![kind][l]
               = [i \in 0 .. Buckets!BucketSize(kind) - 1 |-> v]]
    BY <1>3, FillDoes
  <2>2. Buckets!Tree!Fill(kind, l)
    BY <2>1 DEF Buckets!Tree!Fill, StoredNow, BufferNow
  <2> QED BY <2>2 DEF Buckets!Tree!TreeNext
<1>4. CASE UNCHANGED Buckets!vars
  <2>1. cells' = cells /\ currentPath' = currentPath /\ requests' = requests
    BY <1>4 DEF Buckets!vars
  <2>2. BucketsInv'
    BY <2>1 DEF BucketsInv
  <2>3. StoredNow' = StoredNow /\ BufferNow' = BufferNow
    BY <2>1, <2>2, NowIs, NextIs
  <2> QED BY <2>1, <2>3 DEF Buckets!Tree!treeVars, StoredNow, BufferNow
<1> QED BY <1>1, <1>2, <1>3, <1>4 DEF Buckets!Next

(* The controller implements the store of a tree that the ORAMs are written *)
(* for: a bucket written back is there when its path is read again, and no *)
(* other bucket has changed.                                               *)
THEOREM ControllerKeepsTree ==
  ASSUME Buckets!Parameters, Buckets!NoSharedPages
  PROVE  Buckets!Spec => Buckets!ImplementsTreeStore
<1>1. Buckets!Init => BucketsInv
  BY InitGivesBucketsInv
<1>2. BucketsInv /\ [Buckets!Next]_(Buckets!vars) => BucketsInv'
  BY BucketsInvPreserved
<1>3. Buckets!Init => Buckets!Tree!TreeInit
  BY InitMapsToTreeInit
<1>4. BucketsInv /\ [Buckets!Next]_(Buckets!vars) => [Buckets!Tree!TreeNext]_(Buckets!Tree!treeVars)
  BY StepMapsToTreeStep
<1> QED BY <1>1, <1>2, <1>3, <1>4, PTL
      DEF Buckets!Spec, Buckets!ImplementsTreeStore, Buckets!Tree!TreeSpec

=============================================================================
