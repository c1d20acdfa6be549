--------------------------- MODULE PathOram2Proofs ---------------------------
(***************************************************************************)
(* BinaryPathOram2 for every size of the tree, of the pages and of the     *)
(* stash: the counters of the pages never disagree, and with a path loaded *)
(* or without every block is stored once, on its path, with the payload    *)
(* the client gave it.                                                     *)
(***************************************************************************)
EXTENDS PathOram2, PathEvictionProofs

LEMMA PathsAreNumbers == Path \subseteq Nat
<1>1. Levels - 2 \in 0 .. Levels
  BY LevelsFacts
<1>2. TwoToThe[Levels - 2] \in Nat /\ TopLevelOrder \in Nat
  BY <1>1, TwoToTheFacts, LevelsFacts
<1> QED
  BY <1>2 DEF Path, NumPaths

-----------------------------------------------------------------------------
(* Pages: their levels and the child a path goes on to.                     *)
LEMMA PageLevelFacts ==
  /\ PageLevels \in Nat \ {0}
  /\ \A k \in PageLevel : k \in Nat /\ k * LevelsPerPage \in 0 .. Levels - 1
<1> DEFINE n == LevelsPerPage
<1>1. n \in Nat \ {0} /\ Levels \in Nat /\ Levels >= 2
  BY PathOram2Assumption, LevelsFacts DEF Parameters
<1>2. Levels + n - 1 = n * PageLevels + ((Levels + n - 1) % n)
      /\ (Levels + n - 1) % n \in 0 .. n - 1 /\ PageLevels \in Nat
  <2>1. Levels + n - 1 \in Nat
    BY <1>1
  <2> QED BY <1>1, <2>1, QuotientFacts DEF PageLevels
<1>3. PageLevels # 0
  <2> SUFFICES ASSUME PageLevels = 0 PROVE FALSE
    OBVIOUS
  <2>1. n * PageLevels = 0
    BY <1>1
  <2> QED BY <1>1, <1>2, <2>1
<1>4. ASSUME NEW k \in PageLevel PROVE k \in Nat /\ k * n \in 0 .. Levels - 1
  <2>1. k \in Nat /\ k <= PageLevels - 1
    BY <1>2, <1>3, <1>4 DEF PageLevel
  <2>2. k * n <= (PageLevels - 1) * n /\ k * n \in Nat
    BY <1>1, <1>2, <2>1, Z3
  <2>3. (PageLevels - 1) * n = n * PageLevels - n
    BY <1>1, <1>2, Z3
  <2>4. n * PageLevels \in Nat /\ (PageLevels - 1) * n \in Int
    BY <1>1, <1>2, Z3
  <2> HIDE DEF n
  <2> QED BY <1>1, <1>2, <2>1, <2>2, <2>3, <2>4
<1> QED
  BY <1>2, <1>3, <1>4

(* The page of a path at a level is the child, numbered by ChildIndex, of   *)
(* its page at the level above.                                             *)
LEMMA PageNesting ==
  ASSUME NEW path \in Path, NEW k \in PageLevel, k # 0
  PROVE  /\ k - 1 \in PageLevel
         /\ ChildIndex(path, k) \in Child
         /\ PageOn(path, k)[2] =
              TwoToThe[LevelsPerPage] * PageOn(path, k - 1)[2] + ChildIndex(path, k)
<1> DEFINE n == LevelsPerPage
           e == Levels - 1 - k * n
           a == TwoToThe[e]
           b == TwoToThe[n]
<1>1. n \in Nat \ {0} /\ Levels \in Nat /\ k \in Nat /\ k >= 1 /\ k * n \in 0 .. Levels - 1
      /\ k - 1 \in PageLevel /\ (k - 1) * n \in 0 .. Levels - 1
  <2>1. k \in Nat /\ k >= 1 /\ k - 1 \in PageLevel
    BY PageLevelFacts DEF PageLevel
  <2> QED BY <2>1, PageLevelFacts, PathOram2Assumption, LevelsFacts DEF Parameters
<1>2. (k - 1) * n = k * n - n
  BY <1>1, Z3
<1>3. e \in Nat /\ e + n <= Levels /\ n <= Levels /\ Levels - 1 - (k - 1) * n = e + n
  <2> DEFINE kn == k * n
             ln == (k - 1) * n
  <2>1. kn \in 0 .. Levels - 1 /\ ln \in 0 .. Levels - 1 /\ ln = kn - n
    BY <1>1, <1>2
  <2> HIDE DEF kn, ln, n
  <2>2. Levels - 1 - kn \in Nat /\ (Levels - 1 - kn) + n <= Levels /\ n <= Levels
        /\ Levels - 1 - ln = (Levels - 1 - kn) + n
    BY <1>1, <2>1
  <2> QED BY <2>2 DEF kn, ln
<1>4. a \in Nat \ {0} /\ b \in Nat \ {0} /\ TwoToThe[e + n] = a * b
  <2>1. e \in 0 .. Levels /\ n \in 0 .. Levels
    BY <1>1, <1>3
  <2>2. TwoToThe[e + n] = TwoToThe[e] * TwoToThe[n]
    BY <1>1, <1>3, PowersAdd
  <2> HIDE DEF e, n
  <2> QED BY <2>1, <2>2, TwoToTheFacts
<1>5. path \in Nat
  BY PathsAreNumbers
<1>6. PageOn(path, k)[2] = path \div a
  BY DEF PageOn
<1>7. PageOn(path, k - 1)[2] = (path \div a) \div b
  <2>1. PageOn(path, k - 1)[2] = path \div TwoToThe[e + n]
    BY <1>3 DEF PageOn
  <2> HIDE DEF e, n
  <2> QED BY <1>4, <1>5, <2>1, NestedDivision
<1>8. ChildIndex(path, k) = (path \div a) % b
  BY <1>6 DEF ChildIndex
<1> HIDE DEF a, b
<1> DEFINE y == path \div a
<1>9. y \in Nat
  BY <1>4, <1>5
<1> HIDE DEF y
<1>10. y = b * (y \div b) + (y % b) /\ y % b \in 0 .. b - 1
  BY <1>4, <1>9
<1>11. PageOn(path, k)[2] = y /\ PageOn(path, k - 1)[2] = y \div b /\ ChildIndex(path, k) = y % b
  BY <1>6, <1>7, <1>8 DEF y
<1>12. Child = 0 .. b - 1 /\ TwoToThe[LevelsPerPage] = b
  BY DEF Child, b
<1> QED
  BY <1>1, <1>10, <1>11, <1>12

(* All paths start in one page.                                             *)
LEMMA RootPage == \A path \in Path : PageOn(path, 0)[2] = 0
<1> SUFFICES ASSUME NEW path \in Path PROVE path \div TwoToThe[Levels - 1 - 0 * LevelsPerPage] = 0
  BY DEF PageOn
<1>1. 0 * LevelsPerPage = 0
  BY PathOram2Assumption DEF Parameters
<1>2. TopLevelOrder = 2 /\ Levels - 1 \in 1 .. Levels /\ (Levels - 1) - 1 = Levels - 2
      /\ Levels - 1 - 0 = Levels - 1 /\ Levels - 1 \in 0 .. Levels
  BY PathOram2Assumption, LevelsFacts DEF Parameters
<1>3. TwoToThe[Levels - 1] \in Nat \ {0} /\ TwoToThe[Levels - 1] = 2 * TwoToThe[Levels - 2]
  BY <1>2, TwoToTheFacts
<1>4. path \in 0 .. TwoToThe[Levels - 1] - 1
  BY <1>2, <1>3 DEF Path, NumPaths
<1> DEFINE m == TwoToThe[Levels - 1]
<1>5. m \in Nat \ {0} /\ path \in 0 .. m - 1
  BY <1>3, <1>4
<1> HIDE DEF m
<1>6. (m * 0 + path) \div m = 0 /\ m * 0 + path = path
  BY <1>5, QuotientUnique
<1> QED
  BY <1>1, <1>2, <1>6 DEF m

LEMMA PageFacts ==
  /\ \A path \in Path, k \in PageLevel : PageOn(path, k) \in Page /\ PageOn(path, k)[1] = k
  /\ \A p \in Page : p[1] \in PageLevel /\ p[1] \in Nat
<1>1. \A path \in Path, k \in PageLevel : PageOn(path, k) \in Page /\ PageOn(path, k)[1] = k
  BY DEF Page, PageOn
<1>2. \A p \in Page : p[1] \in PageLevel
  BY DEF Page, PageOn
<1> QED
  BY <1>1, <1>2, PageLevelFacts

LEMMA CounterFacts ==
  0 \in Counter /\ \A x \in Counter : (x + 1) % CounterModulus \in Counter
<1>1. CounterModulus \in Nat \ {0}
  BY PathOram2Assumption DEF Parameters
<1> QED
  BY <1>1 DEF Counter

(* Two paths share a page only if they share the pages above it, and part   *)
(* only where ChildIndex tells their pages apart.                           *)
SharesPage(p, q, k) == PageOn(p, k) = PageOn(q, k)

LEMMA SharedPages ==
  ASSUME NEW p \in Path, NEW q \in Path, NEW k \in PageLevel, k # 0
  PROVE  SharesPage(p, q, k) <=>
           SharesPage(p, q, k - 1) /\ ChildIndex(p, k) = ChildIndex(q, k)
<1> DEFINE b == TwoToThe[LevelsPerPage]
           x == PageOn(p, k - 1)[2]
           y == PageOn(q, k - 1)[2]
           i == ChildIndex(p, k)
           j == ChildIndex(q, k)
<1>1. k \in Nat /\ k - 1 \in Nat /\ k - 1 \in PageLevel
  BY PageLevelFacts, PageNesting
<1>2. b \in Nat \ {0}
  <2>1. LevelsPerPage \in 0 .. Levels
    <3>1. LevelsPerPage \in Nat \ {0} /\ Levels \in Nat
      BY PathOram2Assumption, LevelsFacts DEF Parameters
    <3>2. k * LevelsPerPage \in 0 .. Levels - 1 /\ k >= 1
      BY <1>1, PageLevelFacts
    <3>3. LevelsPerPage <= k * LevelsPerPage
      BY <1>1, <3>1, <3>2, Z3
    <3> QED BY <3>1, <3>2, <3>3
  <2> QED BY <2>1, TwoToTheFacts
<1>3. x \in Int /\ y \in Int
  <2>1. \A r \in Path, m \in PageLevel : PageOn(r, m)[2] \in Int
    <3> SUFFICES ASSUME NEW r \in Path, NEW m \in PageLevel PROVE PageOn(r, m)[2] \in Int
      OBVIOUS
    <3>1. r \in Int
      BY PathsAreNumbers
    <3>2. Levels - 1 - m * LevelsPerPage \in 0 .. Levels
      <4>1. \A n \in 0 .. Levels - 1 : Levels - 1 - n \in 0 .. Levels
        BY LevelsFacts
      <4> QED BY <4>1, PageLevelFacts
    <3> QED BY <3>1, <3>2, TwoToTheFacts DEF PageOn
  <2> QED BY <1>1, <2>1
<1>4. i \in 0 .. b - 1 /\ j \in 0 .. b - 1
  BY PageNesting DEF Child
<1>5. PageOn(p, k)[2] = b * x + i /\ PageOn(q, k)[2] = b * y + j
  BY PageNesting
<1>6. SharesPage(p, q, k) <=> b * x + i = b * y + j
  BY <1>5 DEF SharesPage, PageOn
<1>7. SharesPage(p, q, k - 1) <=> x = y
  BY DEF SharesPage, PageOn
<1> HIDE DEF b, x, y, i, j
<1>8. b * x + i = b * y + j => x = y /\ i = j
  BY <1>2, <1>3, <1>4, QuotientUnique
<1> QED
  BY <1>6, <1>7, <1>8 DEF i, j

-----------------------------------------------------------------------------
(* The counters.  OnLoaded(o, p): page p is on the loaded path.             *)
OnLoaded(o, p) == p = PageOn(o.loaded, p[1])

LEMMA CounterAboveType ==
  ASSUME NEW o \in Oram, NEW path \in Path, NEW k \in PageLevel
  PROVE  CounterAbove(o, path, k) \in Counter
<1>1. CASE k = 0
  BY <1>1 DEF CounterAbove, Oram
<1>2. CASE k # 0
  <2>1. PageOn(path, k - 1) \in Page /\ ChildIndex(path, k) \in Child
    BY <1>2, PageNesting, PageFacts
  <2>2. o.children[PageOn(path, k - 1)][ChildIndex(path, k)] \in Counter
    BY <2>1 DEF Oram
  <2> QED BY <1>2, <2>2 DEF CounterAbove
<1> QED
  BY <1>1, <1>2

LEMMA PagesWrittenFields ==
  ASSUME NEW o \in Oram, o.loaded \in Path
  PROVE  /\ PagesWritten(o) \in Oram
         /\ PagesWritten(o).tree = o.tree /\ PagesWritten(o).stash = o.stash
         /\ PagesWritten(o).bypass = o.bypass
         /\ PagesWritten(o).loaded = o.loaded /\ PagesWritten(o).buffer = o.buffer
         /\ PagesWritten(o).root = (o.root + 1) % CounterModulus
         /\ \A p \in Page :
              PagesWritten(o).under[p] =
                IF OnLoaded(o, p)
                THEN (CounterAbove(o, o.loaded, p[1]) + 1) % CounterModulus
                ELSE o.under[p]
         /\ \A p \in Page, c \in Child :
              PagesWritten(o).children[p][c] =
                IF OnLoaded(o, p) /\ p[1] < PageLevels - 1 /\ c = ChildIndex(o.loaded, p[1] + 1)
                THEN (o.children[p][c] + 1) % CounterModulus
                ELSE o.children[p][c]
<1> DEFINE under == [p \in Page |->
              IF OnLoaded(o, p) THEN (CounterAbove(o, o.loaded, p[1]) + 1) % CounterModulus
              ELSE o.under[p]]
           children == [p \in Page |-> [c \in Child |->
              IF OnLoaded(o, p) /\ p[1] < PageLevels - 1 /\ c = ChildIndex(o.loaded, p[1] + 1)
              THEN (o.children[p][c] + 1) % CounterModulus ELSE o.children[p][c]]]
           root == (o.root + 1) % CounterModulus
<1>1. PagesWritten(o) = [o EXCEPT !.under = under, !.children = children, !.root = root]
  BY DEF PagesWritten, OnLoaded
<1>2. o.under \in [Page -> Counter] /\ o.children \in [Page -> [Child -> Counter]]
      /\ o.root \in Counter
  BY DEF Oram
<1>3. under \in [Page -> Counter]
  <2>1. ASSUME NEW p \in Page
        PROVE  /\ (CounterAbove(o, o.loaded, p[1]) + 1) % CounterModulus \in Counter
               /\ o.under[p] \in Counter
    BY <1>2, PageFacts, CounterAboveType, CounterFacts
  <2> QED BY <2>1
<1>4. children \in [Page -> [Child -> Counter]]
  <2>1. ASSUME NEW p \in Page, NEW c \in Child
        PROVE  (o.children[p][c] + 1) % CounterModulus \in Counter /\ o.children[p][c] \in Counter
    BY <1>2, CounterFacts
  <2> QED BY <2>1
<1>5. root \in Counter
  BY <1>2, CounterFacts
<1>6. /\ \A p \in Page : under[p] =
           IF OnLoaded(o, p) THEN (CounterAbove(o, o.loaded, p[1]) + 1) % CounterModulus
           ELSE o.under[p]
      /\ \A p \in Page, c \in Child : children[p][c] =
           IF OnLoaded(o, p) /\ p[1] < PageLevels - 1 /\ c = ChildIndex(o.loaded, p[1] + 1)
           THEN (o.children[p][c] + 1) % CounterModulus ELSE o.children[p][c]
  OBVIOUS
<1>7. root = (o.root + 1) % CounterModulus
  OBVIOUS
<1> HIDE DEF under, children, root
<1>8. /\ PagesWritten(o) \in Oram
      /\ PagesWritten(o).tree = o.tree /\ PagesWritten(o).stash = o.stash
      /\ PagesWritten(o).bypass = o.bypass
      /\ PagesWritten(o).loaded = o.loaded /\ PagesWritten(o).buffer = o.buffer
      /\ PagesWritten(o).root = root /\ PagesWritten(o).under = under
      /\ PagesWritten(o).children = children
  BY <1>1, <1>3, <1>4, <1>5 DEF Oram
<1> QED
  BY <1>6, <1>7, <1>8

(* A write-back keeps every path readable: it renews the counters of the    *)
(* pages of one path, and another path meets them only where it shares the  *)
(* page and the counter in the page above.                                  *)
CountersAgree(o) == \A path \in Path : Readable(o, path)

LEMMA PagesWrittenAgree ==
  ASSUME NEW o \in Oram, o.loaded \in Path, CountersAgree(o)
  PROVE  CountersAgree(PagesWritten(o))
<1> DEFINE w == PagesWritten(o)
           l == o.loaded
<1> SUFFICES ASSUME NEW q \in Path, NEW k \in PageLevel
             PROVE  w.under[PageOn(q, k)] = CounterAbove(w, q, k)
  BY DEF CountersAgree, Readable
<1>1. /\ w.root = (o.root + 1) % CounterModulus
      /\ \A p \in Page : w.under[p] =
           IF OnLoaded(o, p) THEN (CounterAbove(o, l, p[1]) + 1) % CounterModulus ELSE o.under[p]
      /\ \A p \in Page, c \in Child : w.children[p][c] =
           IF OnLoaded(o, p) /\ p[1] < PageLevels - 1 /\ c = ChildIndex(l, p[1] + 1)
           THEN (o.children[p][c] + 1) % CounterModulus ELSE o.children[p][c]
  BY PagesWrittenFields
<1> HIDE DEF w
<1>2. PageOn(q, k) \in Page /\ PageOn(q, k)[1] = k
  BY PageFacts
<1>3. \A m \in PageLevel : OnLoaded(o, PageOn(q, m)) <=> SharesPage(q, l, m)
  BY PageFacts DEF OnLoaded, SharesPage
<1>4. w.under[PageOn(q, k)] =
        IF SharesPage(q, l, k) THEN (CounterAbove(o, l, k) + 1) % CounterModulus
        ELSE o.under[PageOn(q, k)]
  BY <1>1, <1>2, <1>3
<1>5. o.under[PageOn(q, k)] = CounterAbove(o, q, k)
  BY DEF CountersAgree, Readable
<1>6. CASE k = 0
  <2>1. SharesPage(q, l, k)
    <3>1. \A r \in Path : PageOn(r, 0)[2] = 0
      BY RootPage
    <3> QED BY <1>6, <3>1 DEF SharesPage, PageOn
  <2> QED BY <1>1, <1>4, <1>6, <2>1 DEF CounterAbove
<1>7. CASE k # 0
  <2>1. k \in Nat /\ k - 1 \in PageLevel /\ k - 1 < PageLevels - 1 /\ (k - 1) + 1 = k
    BY <1>7, PageNesting, PageLevelFacts DEF PageLevel
  <2>2. PageOn(q, k - 1) \in Page /\ PageOn(q, k - 1)[1] = k - 1 /\ ChildIndex(q, k) \in Child
    BY <1>7, <2>1, PageFacts, PageNesting
  <2>3. w.children[PageOn(q, k - 1)][ChildIndex(q, k)] =
          IF SharesPage(q, l, k - 1) /\ ChildIndex(q, k) = ChildIndex(l, k)
          THEN (o.children[PageOn(q, k - 1)][ChildIndex(q, k)] + 1) % CounterModulus
          ELSE o.children[PageOn(q, k - 1)][ChildIndex(q, k)]
    BY <1>1, <1>3, <2>1, <2>2
  <2>4. SharesPage(q, l, k) <=> SharesPage(q, l, k - 1) /\ ChildIndex(q, k) = ChildIndex(l, k)
    BY <1>7, SharedPages
  <2>5. SharesPage(q, l, k) => CounterAbove(o, l, k) = CounterAbove(o, q, k)
    BY <1>7, <2>4 DEF CounterAbove, SharesPage
  <2> QED BY <1>4, <1>5, <1>7, <2>3, <2>4, <2>5 DEF CounterAbove
<1> QED
  BY <1>6, <1>7

-----------------------------------------------------------------------------
(* The operations of the ORAM, and what View shows of them.                 *)
LEMMA NoPathFacts == NoPath \notin Path
BY PathOram2Assumption DEF Parameters

LEMMA ViewType ==
  ASSUME NEW o \in Oram
  PROVE  Typed(View(o), o.stash) /\ (o.loaded = NoPath => View(o) = o.tree)
<1>1. o.tree \in [Bucket -> [Slot -> Content]] /\ o.stash \in [StashSlot -> Content]
      /\ o.buffer \in [Level -> [Slot -> Content]]
  BY DEF Oram
<1>2. \A n \in Bucket : n[1] \in Level
  BY BucketLevel
<1>3. View(o) \in [Bucket -> [Slot -> Content]]
  BY <1>1, <1>2 DEF View
<1> QED
  BY <1>1, <1>3 DEF Typed, View

LEMMA NoBufferType == NoBuffer \in [Level -> [Slot -> Content]]
BY DEF NoBuffer, Content

LEMMA ReadPathFields ==
  ASSUME NEW o \in Oram, NEW path \in Path
  PROVE  /\ ReadPath(o, path) \in Oram
         /\ ReadPath(o, path).loaded = path /\ ReadPath(o, path).tree = o.tree
         /\ ReadPath(o, path).stash = o.stash /\ ReadPath(o, path).bypass = o.bypass
         /\ ReadPath(o, path).buffer = [l \in Level |-> o.tree[BucketOn(path, l)]]
         /\ View(ReadPath(o, path)) = o.tree
         /\ CountersAgree(ReadPath(o, path)) <=> CountersAgree(o)
<1> DEFINE buffer == [l \in Level |-> o.tree[BucketOn(path, l)]]
           r == ReadPath(o, path)
<1>1. o.tree \in [Bucket -> [Slot -> Content]]
  BY DEF Oram
<1>2. buffer \in [Level -> [Slot -> Content]]
  BY <1>1, BucketOnIsBucket
<1>3. \A l \in Level : buffer[l] = o.tree[BucketOn(path, l)]
  OBVIOUS
<1>4. r = [o EXCEPT !.loaded = path, !.buffer = buffer]
  BY DEF ReadPath
<1> HIDE DEF buffer, r
<1>5. /\ r \in Oram /\ r.loaded = path /\ r.tree = o.tree /\ r.stash = o.stash
      /\ r.bypass = o.bypass /\ r.buffer = buffer
      /\ r.under = o.under /\ r.children = o.children /\ r.root = o.root
  BY <1>2, <1>4 DEF Oram
<1>6. View(r) = o.tree
  <2>1. path # NoPath
    BY NoPathFacts
  <2>2. \A n \in Bucket : n = BucketOn(path, n[1]) => buffer[n[1]] = o.tree[n]
    BY <1>3, BucketLevel
  <2> QED BY <1>1, <1>5, <2>1, <2>2 DEF View
<1>7. CountersAgree(r) <=> CountersAgree(o)
  BY <1>5 DEF CountersAgree, Readable, CounterAbove
<1> QED
  BY <1>5, <1>6, <1>7 DEF r, buffer

LEMMA EvictFields ==
  ASSUME NEW o \in Oram, o.loaded \in Path
  PROVE  /\ EvictAndWritePath(o) \in Oram
         /\ EvictAndWritePath(o).loaded = NoPath
         /\ EvictAndWritePath(o).tree = EvictedTree(View(o), o.stash, o.loaded)
         /\ EvictAndWritePath(o).stash = EvictedStash(View(o), o.stash, o.loaded)
         /\ CountersAgree(o) => CountersAgree(EvictAndWritePath(o))
<1> DEFINE tree == EvictedTree(View(o), o.stash, o.loaded)
           st == EvictedStash(View(o), o.stash, o.loaded)
           w == PagesWritten(o)
           e == EvictAndWritePath(o)
<1>1. Typed(tree, st)
  BY ViewType, EvictionTyped
<1>2. tree \in [Bucket -> [Slot -> Content]] /\ st \in [StashSlot -> Content]
  BY <1>1 DEF Typed
<1>3. e = [w EXCEPT !.tree = tree, !.stash = st, !.loaded = NoPath, !.buffer = NoBuffer]
  BY DEF EvictAndWritePath
<1>4. w \in Oram /\ (CountersAgree(o) => CountersAgree(w))
  BY PagesWrittenFields, PagesWrittenAgree
<1> HIDE DEF tree, st, w, e
<1>5. /\ e \in Oram /\ e.loaded = NoPath /\ e.tree = tree /\ e.stash = st
      /\ e.under = w.under /\ e.children = w.children /\ e.root = w.root
  BY <1>2, <1>3, <1>4, NoBufferType DEF Oram
<1>6. CountersAgree(e) <=> CountersAgree(w)
  BY <1>5 DEF CountersAgree, Readable, CounterAbove
<1> QED
  BY <1>4, <1>5, <1>6 DEF e, tree, st

(* Writing a loaded path back moves blocks and loses none.                  *)
LEMMA FlushedFields ==
  ASSUME NEW o \in Oram
  PROVE  /\ Flushed(o) \in Oram /\ Flushed(o).loaded = NoPath
         /\ CountersAgree(o) => CountersAgree(Flushed(o))
BY EvictFields DEF Flushed, Oram

LEMMA FlushedGood ==
  ASSUME NEW o \in Oram, NEW pm, Good(pm, View(o), o.stash)
  PROVE  /\ Good(pm, Flushed(o).tree, Flushed(o).stash)
         /\ \A a, d : Stores(Flushed(o).tree, Flushed(o).stash, a, d)
                        <=> Stores(View(o), o.stash, a, d)
<1>1. CASE o.loaded = NoPath
  BY <1>1, ViewType DEF Flushed
<1>2. CASE o.loaded # NoPath
  <2>1. o.loaded \in Path /\ Flushed(o) = EvictAndWritePath(o)
    BY <1>2 DEF Oram, Flushed
  <2> QED BY <2>1, EvictFields, EvictionGood, EvictionKeeps
<1> QED
  BY <1>1, <1>2

(* What of the loaded path is not as stored: one slot at most, and it is    *)
(* free in the buffer.                                                      *)
Differs(o, x) == o.buffer[x[1]][x[2]] # o.tree[BucketOn(o.loaded, x[1])][x[2]]

OneSlotAwaits(o) ==
  o.loaded # NoPath =>
    /\ \A x \in Level \X Slot : Differs(o, x) => o.buffer[x[1]][x[2]] = NoBlock
    /\ \A x, y \in Level \X Slot : Differs(o, x) /\ Differs(o, y) => x = y

LEMMA ReadPathAwaits ==
  ASSUME NEW o \in Oram, NEW path \in Path
  PROVE  OneSlotAwaits(ReadPath(o, path))
<1>1. \A x \in Level \X Slot : ~Differs(ReadPath(o, path), x)
  <2>1. /\ ReadPath(o, path).loaded = path /\ ReadPath(o, path).tree = o.tree
        /\ ReadPath(o, path).buffer = [l \in Level |-> o.tree[BucketOn(path, l)]]
    BY ReadPathFields
  <2>2. ASSUME NEW x \in Level \X Slot PROVE ~Differs(ReadPath(o, path), x)
    <3>1. x[1] \in Level
      OBVIOUS
    <3>2. ReadPath(o, path).buffer[x[1]] = o.tree[BucketOn(path, x[1])]
      BY <2>1, <3>1
    <3> QED BY <2>1, <3>2 DEF Differs
  <2> QED BY <2>2
<1> QED
  BY <1>1 DEF OneSlotAwaits

(* A lookup on a path that is not loaded takes its block out of the view,   *)
(* whether or not it reads the path.                                        *)
LEMMA RemovedFields ==
  ASSUME NEW o \in Oram, o.loaded = NoPath, NEW b \in Block, NEW path \in Path
  PROVE  /\ Removed(o, b, path) \in Oram
         /\ Removed(o, b, path).stash = ErasedStash(o.stash, b)
         /\ View(Removed(o, b, path)) = ErasedTree(o.tree, o.stash, path, b)
         /\ CountersAgree(o) => CountersAgree(Removed(o, b, path))
         /\ OneCopy(o.tree, o.stash) => OneSlotAwaits(Removed(o, b, path))
<1> DEFINE read == IF o.bypass /\ StashHits(o, b) # {} THEN o ELSE ReadPath(o, path)
           st == ErasedStash(o.stash, b)
           buffer == [l \in Level |-> [s \in Slot |->
                        IF StashHits(o, b) = {} /\ Holds(read.buffer[l][s], b) THEN NoBlock
                        ELSE read.buffer[l][s]]]
           r == Removed(o, b, path)
<1>1. r = [read EXCEPT !.stash = st, !.buffer = buffer]
  BY DEF Removed
<1>2. /\ o.tree \in [Bucket -> [Slot -> Content]] /\ o.stash \in [StashSlot -> Content]
      /\ Typed(o.tree, o.stash)
  BY DEF Oram, Typed
<1>3. read \in Oram /\ read.tree = o.tree /\ (CountersAgree(read) <=> CountersAgree(o))
  BY ReadPathFields
<1>4. st \in [StashSlot -> Content]
  BY <1>2 DEF ErasedStash, Content
<1>5. buffer \in [Level -> [Slot -> Content]]
  <2>1. read.buffer \in [Level -> [Slot -> Content]]
    BY <1>3 DEF Oram
  <2> HIDE DEF read
  <2> QED BY <2>1 DEF Content
<1>6. \A l \in Level, s \in Slot : buffer[l][s] =
        IF StashHits(o, b) = {} /\ Holds(read.buffer[l][s], b) THEN NoBlock
        ELSE read.buffer[l][s]
  OBVIOUS
<1>7. StashHits(o, b) = {} <=> \A i \in StashSlot : ~Holds(o.stash[i], b)
  BY DEF StashHits
<1>8. \/ o.bypass /\ StashHits(o, b) # {} /\ read = o
      \/ read = ReadPath(o, path)
  OBVIOUS
<1> HIDE DEF read, st, buffer, r
<1>9. /\ r \in Oram /\ r.stash = st /\ r.buffer = buffer /\ r.tree = o.tree
      /\ r.loaded = read.loaded /\ r.under = read.under
      /\ r.children = read.children /\ r.root = read.root
  BY <1>1, <1>3, <1>4, <1>5 DEF Oram
<1>10. CountersAgree(r) <=> CountersAgree(read)
  BY <1>9 DEF CountersAgree, Readable, CounterAbove
<1>11. View(r) = ErasedTree(o.tree, o.stash, path, b)
       /\ (OneCopy(o.tree, o.stash) => OneSlotAwaits(r))
  <2>1. CASE o.bypass /\ StashHits(o, b) # {} /\ read = o
    <3>1. r.loaded = NoPath
      BY <1>9, <2>1
    <3>2. ErasedTree(o.tree, o.stash, path, b) = o.tree
      <4>1. PICK i \in StashSlot : Holds(o.stash[i], b)
        BY <2>1, <1>7
      <4> QED BY <1>2, <4>1, StashHitSparesTree
    <3> QED BY <1>9, <3>1, <3>2 DEF View, OneSlotAwaits
  <2>2. CASE read = ReadPath(o, path)
    <3>1. r.loaded = path /\ path # NoPath /\ read.buffer = [l \in Level |-> o.tree[BucketOn(path, l)]]
      BY <1>9, <2>2, ReadPathFields, NoPathFacts
    <3>2. \A l \in Level, s \in Slot : buffer[l][s] =
            IF StashHits(o, b) = {} /\ Holds(o.tree[BucketOn(path, l)][s], b) THEN NoBlock
            ELSE o.tree[BucketOn(path, l)][s]
      BY <1>6, <3>1
    <3>3. View(r) = ErasedTree(o.tree, o.stash, path, b)
      <4>1. View(r) = [n \in Bucket |-> IF n = BucketOn(path, n[1]) THEN buffer[n[1]]
                                        ELSE o.tree[n]]
        BY <1>9, <3>1 DEF View
      <4>2. ErasedTree(o.tree, o.stash, path, b) = [n \in Bucket |-> [u \in Slot |->
              IF StashHits(o, b) = {} /\ n = BucketOn(path, n[1]) /\ Holds(o.tree[n][u], b)
              THEN NoBlock ELSE o.tree[n][u]]]
        BY <1>7 DEF ErasedTree
      <4>3. ASSUME NEW n \in Bucket
            PROVE  (IF n = BucketOn(path, n[1]) THEN buffer[n[1]] ELSE o.tree[n])
                     = [u \in Slot |->
                          IF StashHits(o, b) = {} /\ n = BucketOn(path, n[1])
                               /\ Holds(o.tree[n][u], b)
                          THEN NoBlock ELSE o.tree[n][u]]
        <5>1. n[1] \in Level
          BY BucketLevel
        <5>2. CASE n = BucketOn(path, n[1])
          <6>1. buffer[n[1]] = [u \in Slot |-> buffer[n[1]][u]]
            BY <1>5, <5>1
          <6>2. \A u \in Slot : buffer[n[1]][u] =
                  IF StashHits(o, b) = {} /\ Holds(o.tree[n][u], b) THEN NoBlock
                  ELSE o.tree[n][u]
            BY <3>2, <5>1, <5>2
          <6> QED BY <5>2, <6>1, <6>2
        <5>3. CASE n # BucketOn(path, n[1])
          <6>1. o.tree[n] = [u \in Slot |-> o.tree[n][u]]
            BY <1>2
          <6> QED BY <5>3, <6>1
        <5> QED BY <5>2, <5>3
      <4> QED BY <4>1, <4>2, <4>3
    <3>4. ASSUME OneCopy(o.tree, o.stash) PROVE OneSlotAwaits(r)
      <4>1. \A x \in Level \X Slot : Differs(r, x) =>
              r.buffer[x[1]][x[2]] = NoBlock /\ x \in Hits(o.tree, path, b)
        BY <1>9, <3>1, <3>2 DEF Differs, Hits
      <4>2. \A x, y \in Hits(o.tree, path, b) : x = y
        BY <1>2, <3>4, PathSearched
      <4> QED BY <4>1, <4>2 DEF OneSlotAwaits
    <3> QED BY <3>3, <3>4
  <2> QED BY <1>8, <2>1, <2>2
<1> QED
  BY <1>3, <1>9, <1>10, <1>11 DEF r, st

LEMMA OneMemberAtMost ==
  ASSUME NEW S, \A x, y \in S : x = y
  PROVE  Cardinality(S) <= 1
<1>1. CASE S = {}
  BY <1>1, FS_EmptySet
<1>2. CASE S # {}
  <2>1. PICK x \in S : TRUE
    BY <1>2
  <2>2. S = {x}
    BY <2>1
  <2> QED BY <2>2, FS_Singleton
<1> QED
  BY <1>1, <1>2

LEMMA AwaitsCounted ==
  ASSUME NEW o, OneSlotAwaits(o), o.loaded # NoPath
  PROVE  Cardinality({ x \in Level \X Slot : Differs(o, x) }) <= 1
<1>1. \A x, y \in { x \in Level \X Slot : Differs(o, x) } : x = y
  BY DEF OneSlotAwaits
<1> QED
  BY <1>1, OneMemberAtMost

-----------------------------------------------------------------------------
(* A search returns a copy of its block; where no block is stored twice and *)
(* every block is on its path, it finds the block if there is one.          *)
LEMMA LocatedStored ==
  ASSUME NEW o, Typed(o.tree, o.stash), NEW b \in Block, NEW path \in Path,
         Located(o, b, path) # NoBlock
  PROVE  /\ Stores(o.tree, o.stash, b, Located(o, b, path))
         /\ Located(o, b, path).data \in Value
<1> DEFINE c == Located(o, b, path)
           hits == PathHits(o, b, path)
           last == LastOf(hits)
<1>1. Stores(o.tree, o.stash, b, c) /\ c \in Content
  <2>1. CASE StashHits(o, b) # {}
    <3>1. PICK i \in StashHits(o, b) : c = o.stash[i]
      BY <2>1 DEF Located
    <3> QED BY <3>1 DEF StashHits, Holds, Stores, Typed
  <2>2. CASE StashHits(o, b) = {} /\ hits # {}
    <3>1. c = o.tree[BucketOn(path, last[1])][last[2]]
      BY <2>2 DEF Located, LastOf
    <3>2. hits \in SUBSET (Level \X Slot)
      BY DEF PathHits
    <3>3. last \in hits
      <4> HIDE DEF hits
      <4> QED BY <2>2, <3>2, LastHit
    <3>4. last[1] \in Level /\ last[2] \in Slot
          /\ Holds(o.tree[BucketOn(path, last[1])][last[2]], b)
      <4> HIDE DEF last
      <4> QED BY <3>3 DEF PathHits
    <3>5. BucketOn(path, last[1]) \in Bucket
      BY <3>4, BucketOnIsBucket
    <3> HIDE DEF c, last
    <3> QED BY <3>1, <3>4, <3>5 DEF Holds, Stores, Typed
  <2>3. CASE StashHits(o, b) = {} /\ hits = {}
    BY <2>3 DEF Located
  <2> QED BY <2>1, <2>2, <2>3
<1> HIDE DEF c
<1>2. c # NoBlock /\ c.data \in Value
  BY <1>1 DEF Stores, Content, Entry
<1> QED
  BY <1>1, <1>2 DEF c

LEMMA NotLocatedLacks ==
  ASSUME NEW o, NEW pm \in [Block -> Path], Good(pm, o.tree, o.stash), NEW b \in Block,
         Located(o, b, pm[b]) = NoBlock
  PROVE  Lacks(o.tree, o.stash, b)
<1>1. StashHits(o, b) = {}
  <2> SUFFICES ASSUME StashHits(o, b) # {} PROVE FALSE
    OBVIOUS
  <2>1. PICK i \in StashHits(o, b) : NoBlock = o.stash[i]
    BY DEF Located
  <2> QED BY <2>1 DEF StashHits, Holds
<1>2. PathHits(o, b, pm[b]) = {}
  <2> SUFFICES ASSUME PathHits(o, b, pm[b]) # {} PROVE FALSE
    OBVIOUS
  <2> DEFINE hits == PathHits(o, b, pm[b])
             last == LastOf(hits)
  <2>1. NoBlock = o.tree[BucketOn(pm[b], last[1])][last[2]]
    BY <1>1 DEF Located, LastOf
  <2>2. hits \in SUBSET (Level \X Slot)
    BY DEF PathHits
  <2>3. last \in hits
    <3> HIDE DEF hits
    <3> QED BY <2>2, LastHit DEF hits
  <2>4. Holds(o.tree[BucketOn(pm[b], last[1])][last[2]], b)
    <3> HIDE DEF last
    <3> QED BY <2>3 DEF PathHits
  <2> QED BY <2>1, <2>4 DEF Holds
<1> QED
  BY <1>1, <1>2, NothingFound DEF StashHits, PathHits, Hits

-----------------------------------------------------------------------------
(* What a placement does: it finds no free slot, or it takes one and evicts *)
(* onto the path that is loaded, or else onto one it reads.                 *)
Overflows(o) ==
  /\ status' = "StashOverflow" /\ oram' \in Oram
  /\ View(oram') = View(o) /\ oram'.stash = o.stash
  /\ CountersAgree(o) => CountersAgree(oram')
  /\ OneSlotAwaits(o) => OneSlotAwaits(oram')

Places(o, c) ==
  \E i \in StashSlot, added \in [StashSlot -> Content], path \in Path :
    /\ o.stash[i] = NoBlock
    /\ added[i] = c /\ \A j \in StashSlot : j # i => added[j] = o.stash[j]
    /\ status' = status
    /\ oram' \in Oram /\ oram'.loaded = NoPath
    /\ oram'.tree = EvictedTree(View(o), added, path)
    /\ oram'.stash = EvictedStash(View(o), added, path)
    /\ CountersAgree(o) => CountersAgree(oram')

LEMMA PlaceSteps ==
  ASSUME NEW o \in Oram, NEW c \in Content, PlaceBlockOnPath(o, c)
  PROVE  Overflows(o) \/ Places(o, c)
<1> DEFINE free == { i \in StashSlot : o.stash[i] = NoBlock }
           first == CHOOSE i \in free : \A j \in free : i <= j
           Ready(path) == IF o.loaded = NoPath THEN ReadPath(o, path) ELSE o
<1>1. PICK path \in IF o.loaded = NoPath THEN Path ELSE {o.loaded} :
        IF free = {} THEN oram' = Ready(path) /\ status' = "StashOverflow"
        ELSE /\ oram' = EvictAndWritePath([Ready(path) EXCEPT !.stash[first] = c])
             /\ UNCHANGED status
  BY DEF PlaceBlockOnPath
<1>2. path \in Path
  BY <1>1 DEF Oram
<1>3. /\ Ready(path) \in Oram /\ Ready(path).loaded = path /\ Ready(path).stash = o.stash
      /\ View(Ready(path)) = View(o)
      /\ CountersAgree(o) => CountersAgree(Ready(path))
      /\ OneSlotAwaits(o) => OneSlotAwaits(Ready(path))
  <2>1. CASE o.loaded = NoPath
    BY <1>2, <2>1, ReadPathFields, ReadPathAwaits, ViewType
  <2>2. CASE o.loaded # NoPath
    BY <1>1, <2>2
  <2> QED BY <2>1, <2>2
<1> DEFINE ready == Ready(path)
<1>4. CASE free = {}
  BY <1>1, <1>3, <1>4 DEF Overflows
<1>5. CASE free # {}
  <2>1. \E i \in free : \A j \in free : i <= j
    <3>1. free \subseteq Nat
      BY CapacityAssumption DEF StashSlot
    <3>2. PICK i \in free : \A j \in free : ~(j < i)
      <4> HIDE DEF free
      <4> QED BY <1>5, <3>1, LeastElement
    <3> QED BY <3>1, <3>2
  <2>2. first \in StashSlot /\ o.stash[first] = NoBlock
    BY <2>1
  <2>3. oram' = EvictAndWritePath([ready EXCEPT !.stash[first] = c]) /\ status' = status
    BY <1>1, <1>5
  <2> HIDE DEF first, free, Ready, ready
  <2> DEFINE added == [o.stash EXCEPT ![first] = c]
             placed == [ready EXCEPT !.stash[first] = c]
  <2>4. ready \in Oram /\ ready.loaded = path /\ ready.stash = o.stash
        /\ View(ready) = View(o) /\ (CountersAgree(o) => CountersAgree(ready))
    BY <1>3 DEF ready
  <2>5. /\ added \in [StashSlot -> Content] /\ added[first] = c
        /\ \A j \in StashSlot : j # first => added[j] = o.stash[j]
    <3>1. o.stash \in [StashSlot -> Content]
      BY DEF Oram
    <3> QED BY <2>2, <3>1
  <2>6. placed = [ready EXCEPT !.stash = added]
    BY <2>4
  <2> HIDE DEF added, placed
  <2>7. /\ placed \in Oram /\ placed.loaded = path /\ placed.stash = added
        /\ placed.tree = ready.tree /\ placed.buffer = ready.buffer
        /\ placed.under = ready.under /\ placed.children = ready.children
        /\ placed.root = ready.root
    BY <2>4, <2>5, <2>6 DEF Oram
  <2>8. View(placed) = View(o) /\ (CountersAgree(o) => CountersAgree(placed))
    BY <2>4, <2>7 DEF View, CountersAgree, Readable, CounterAbove
  <2>9. /\ oram' \in Oram /\ oram'.loaded = NoPath
        /\ oram'.tree = EvictedTree(View(o), added, path)
        /\ oram'.stash = EvictedStash(View(o), added, path)
        /\ CountersAgree(o) => CountersAgree(oram')
    BY <1>2, <2>3, <2>7, <2>8, EvictFields DEF placed
  <2> QED BY <1>2, <2>2, <2>3, <2>5, <2>9 DEF Places
<1> QED
  BY <1>4, <1>5

-----------------------------------------------------------------------------
(* Types and counters: an invariant whatever the lookups find, and whether  *)
(* or not the program is saved while a path is loaded.                      *)
TypedAndReadable == TypeOK /\ CountersAgree(oram)

(* What fast_init() and init() leave in a slot.                             *)
LEMMA InitialSlots ==
  ASSUME Init
  PROVE  /\ posmap \in [Block -> Path] /\ status = "ok" /\ reply = NoReply
         /\ \E tree \in [Bucket -> [Slot -> Content]] :
              /\ oram = [tree |-> tree, stash |-> [i \in StashSlot |-> NoBlock],
                         under |-> [p \in Page |-> 0],
                         children |-> [p \in Page |-> [c \in Child |-> 0]],
                         root |-> 0, bypass |-> BypassPathReadOnStashHit,
                         loaded |-> NoPath, buffer |-> NoBuffer]
              /\ PlacedInTree(posmap, tree) /\ OnceInTree(tree)
              /\ \/ \A n \in Bucket, u \in Slot : tree[n][u] = NoBlock
                 \/ \A b \in Block : \E n \in Bucket, u \in Slot :
                      tree[n][u] # NoBlock /\ tree[n][u].id = b
<1>1. posmap \in [Block -> Path] /\ status = "ok" /\ reply = NoReply
  BY DEF Init
<1>0. PICK filled \in {{}, Block} : \E at \in [filled -> Level \X Slot] :
        LET place == [b \in filled |-> <<BucketOn(posmap[b], at[b][1]), at[b][2]>>]
        IN  /\ \A a, b \in filled : place[a] = place[b] => a = b
            /\ oram = [tree |-> FilledTree(place), stash |-> [i \in StashSlot |-> NoBlock],
                       under |-> [p \in Page |-> 0],
                       children |-> [p \in Page |-> [c \in Child |-> 0]],
                       root |-> 0, bypass |-> BypassPathReadOnStashHit,
                       loaded |-> NoPath, buffer |-> NoBuffer]
  BY DEF Init
<1>2. PICK at \in [filled -> Level \X Slot] :
        LET place == [b \in filled |-> <<BucketOn(posmap[b], at[b][1]), at[b][2]>>]
        IN  /\ \A a, b \in filled : place[a] = place[b] => a = b
            /\ oram = [tree |-> FilledTree(place), stash |-> [i \in StashSlot |-> NoBlock],
                       under |-> [p \in Page |-> 0],
                       children |-> [p \in Page |-> [c \in Child |-> 0]],
                       root |-> 0, bypass |-> BypassPathReadOnStashHit,
                       loaded |-> NoPath, buffer |-> NoBuffer]
  BY <1>0
<1> DEFINE place == [b \in filled |-> <<BucketOn(posmap[b], at[b][1]), at[b][2]>>]
           tree == FilledTree(place)
<1>3. /\ DOMAIN place = filled /\ filled \subseteq Block
      /\ \A a, b \in filled : place[a] = place[b] => a = b
      /\ \A b \in filled : /\ place[b][1] = BucketOn(posmap[b], place[b][1][1])
                           /\ place[b] = <<place[b][1], place[b][2]>>
                           /\ place[b][1] \in Bucket /\ place[b][2] \in Slot
  <2>1. \A b \in filled : at[b][1] \in Level /\ at[b][2] \in Slot /\ posmap[b] \in Path
    BY <1>1, <1>2
  <2>2. \A b \in filled : BucketOn(posmap[b], at[b][1]) \in Bucket
                          /\ BucketOn(posmap[b], at[b][1])[1] = at[b][1]
    BY <2>1, BucketOnIsBucket
  <2> QED BY <1>2, <2>1, <2>2
<1> HIDE DEF place
<1>4. \A b \in Block : Number(b) \in Value
  BY PathOram2Assumption DEF Number, Parameters
<1>5. ASSUME NEW n \in Bucket, NEW u \in Slot
      PROVE  \/ /\ \A b \in filled : place[b] # <<n, u>>
                /\ tree[n][u] = NoBlock
             \/ \E b \in filled : /\ place[b] = <<n, u>>
                                  /\ tree[n][u] = [id |-> b, path |-> posmap[b], data |-> Number(b)]
  <2> DEFINE inside == { b \in filled : place[b] = <<n, u>> }
  <2>1. tree[n][u] = IF inside = {} THEN NoBlock
                     ELSE LET b == CHOOSE b \in inside : TRUE
                          IN  [id |-> b, path |-> posmap[b], data |-> Number(b)]
    BY <1>3 DEF FilledTree
  <2> QED BY <2>1
<1>6. ASSUME NEW n \in Bucket, NEW u \in Slot, NEW b \in filled, place[b] = <<n, u>>,
             tree[n][u] = [id |-> b, path |-> posmap[b], data |-> Number(b)]
      PROVE  /\ tree[n][u] \in Content /\ tree[n][u].id = b
             /\ tree[n][u].path = posmap[tree[n][u].id]
             /\ n = BucketOn(tree[n][u].path, n[1])
  <2>1. posmap[b] \in Path /\ b \in Block
    BY <1>1, <1>3
  <2>2. n = BucketOn(posmap[b], n[1])
    BY <1>3, <1>6
  <2> HIDE DEF tree
  <2> QED BY <1>4, <1>6, <2>1, <2>2 DEF Content, Entry
<1>7. tree \in [Bucket -> [Slot -> Content]]
  <2> DEFINE SlotOf(n, u) ==
               LET inside == { b \in DOMAIN place : place[b] = <<n, u>> }
               IN  IF inside = {} THEN NoBlock
                   ELSE LET b == CHOOSE b \in inside : TRUE
                        IN  [id |-> b, path |-> posmap[b], data |-> Number(b)]
  <2>1. tree = [n \in Bucket |-> [u \in Slot |-> SlotOf(n, u)]]
    BY DEF FilledTree
  <2> HIDE DEF tree, SlotOf
  <2>2. ASSUME NEW n \in Bucket, NEW u \in Slot PROVE tree[n][u] \in Content
    <3>1. CASE tree[n][u] = NoBlock
      BY <3>1 DEF Content
    <3>2. CASE tree[n][u] # NoBlock
      <4>1. PICK b \in filled : /\ place[b] = <<n, u>>
                                /\ tree[n][u] = [id |-> b, path |-> posmap[b], data |-> Number(b)]
        BY <1>5, <3>2
      <4> QED BY <1>6, <4>1
    <3> QED BY <3>1, <3>2
  <2>3. \A n \in Bucket, u \in Slot : SlotOf(n, u) \in Content
    BY <2>1, <2>2
  <2> QED BY <2>1, <2>3
<1>8. oram = [tree |-> tree, stash |-> [i \in StashSlot |-> NoBlock],
              under |-> [p \in Page |-> 0],
              children |-> [p \in Page |-> [c \in Child |-> 0]],
              root |-> 0, bypass |-> BypassPathReadOnStashHit,
              loaded |-> NoPath, buffer |-> NoBuffer]
  BY <1>2 DEF place
<1> HIDE DEF tree
<1>9. PlacedInTree(posmap, tree) /\ OnceInTree(tree)
  <2>1. ASSUME NEW n \in Bucket, NEW u \in Slot, tree[n][u] # NoBlock
        PROVE  /\ tree[n][u].id \in filled /\ place[tree[n][u].id] = <<n, u>>
               /\ tree[n][u].path = posmap[tree[n][u].id]
               /\ n = BucketOn(tree[n][u].path, n[1])
    <3>1. PICK b \in filled : /\ place[b] = <<n, u>>
                              /\ tree[n][u] = [id |-> b, path |-> posmap[b], data |-> Number(b)]
      BY <1>5, <2>1
    <3>2. /\ tree[n][u].id = b /\ tree[n][u].path = posmap[tree[n][u].id]
          /\ n = BucketOn(tree[n][u].path, n[1])
      BY <1>6, <3>1
    <3> QED BY <3>1, <3>2
  <2> QED BY <2>1 DEF PlacedInTree, OnceInTree
<1>10. \/ \A n \in Bucket, u \in Slot : tree[n][u] = NoBlock
       \/ \A b \in Block : \E n \in Bucket, u \in Slot :
            tree[n][u] # NoBlock /\ tree[n][u].id = b
  <2>1. CASE filled = {}
    BY <1>5, <2>1
  <2>2. CASE filled = Block
    <3>1. ASSUME NEW b \in Block
          PROVE  \E n \in Bucket, u \in Slot : tree[n][u] # NoBlock /\ tree[n][u].id = b
      <4>1. PICK n \in Bucket, u \in Slot : place[b] = <<n, u>>
        BY <1>3, <2>2
      <4>2. PICK a \in filled : /\ place[a] = <<n, u>>
                                /\ tree[n][u] = [id |-> a, path |-> posmap[a], data |-> Number(a)]
        BY <1>5, <2>2, <4>1
      <4>3. a = b
        BY <1>3, <2>2, <4>1, <4>2
      <4>4. [id |-> a, path |-> posmap[a], data |-> Number(a)] # NoBlock
        <5>1. [id |-> a, path |-> posmap[a], data |-> Number(a)] \in Entry
          BY <1>1, <1>3, <1>4 DEF Entry
        <5> QED BY <5>1, NoBlockAssumption
      <4> QED BY <4>2, <4>3, <4>4
    <3> QED BY <3>1
  <2> QED BY <1>2, <2>1, <2>2
<1> QED
  BY <1>1, <1>7, <1>8, <1>9, <1>10

LEMMA InitTyped == Init => TypedAndReadable
<1> SUFFICES ASSUME Init PROVE TypedAndReadable
  OBVIOUS
<1>1. PICK tree \in [Bucket -> [Slot -> Content]] :
        oram = [tree |-> tree, stash |-> [i \in StashSlot |-> NoBlock],
                under |-> [p \in Page |-> 0],
                children |-> [p \in Page |-> [c \in Child |-> 0]],
                root |-> 0, bypass |-> BypassPathReadOnStashHit,
                loaded |-> NoPath, buffer |-> NoBuffer]
  BY InitialSlots
<1>2. [i \in StashSlot |-> NoBlock] \in [StashSlot -> Content]
  BY DEF Content
<1>3. BypassPathReadOnStashHit \in BOOLEAN
  BY PathOram2Assumption DEF Parameters
<1>4. oram \in Oram
  BY <1>1, <1>2, <1>3, CounterFacts, NoBufferType DEF Oram
<1>5. ASSUME NEW path \in Path, NEW k \in PageLevel
      PROVE  oram.under[PageOn(path, k)] = CounterAbove(oram, path, k)
  <2>1. oram.under[PageOn(path, k)] = 0
    BY <1>1, PageFacts
  <2>2. CounterAbove(oram, path, k) = 0
    <3>1. CASE k = 0
      BY <1>1, <3>1 DEF CounterAbove
    <3>2. CASE k # 0
      <4>1. PageOn(path, k - 1) \in Page /\ ChildIndex(path, k) \in Child
        BY <3>2, PageNesting, PageFacts
      <4> QED BY <1>1, <3>2, <4>1 DEF CounterAbove
    <3> QED BY <3>1, <3>2
  <2> QED BY <2>1, <2>2
<1> QED
  BY <1>4, <1>5, InitialSlots DEF TypedAndReadable, TypeOK, CountersAgree, Readable

LEMMA LookupFields ==
  ASSUME TypedAndReadable, NEW b \in Block
  PROVE  /\ Flushed(oram) \in Oram /\ Flushed(oram).loaded = NoPath
         /\ CountersAgree(Flushed(oram))
         /\ Lookup(b) \in Oram /\ CountersAgree(Lookup(b))
         /\ Target(b) # NoBlock => Target(b).data \in Value
<1>1. oram \in Oram /\ CountersAgree(oram) /\ posmap[b] \in Path
  BY DEF TypedAndReadable, TypeOK
<1>2. /\ Flushed(oram) \in Oram /\ Flushed(oram).loaded = NoPath
      /\ CountersAgree(Flushed(oram))
  BY <1>1, FlushedFields
<1>3. Typed(Flushed(oram).tree, Flushed(oram).stash)
  BY <1>2 DEF Oram, Typed
<1>4. Lookup(b) \in Oram /\ CountersAgree(Lookup(b))
  BY <1>1, <1>2, RemovedFields DEF Lookup
<1>5. Target(b) # NoBlock => Target(b).data \in Value
  BY <1>1, <1>3, LocatedStored DEF Target
<1> QED
  BY <1>2, <1>4, <1>5

(* A payload put back under a new path.                                     *)
NewEntry(b, path, v) == [id |-> b, path |-> path, data |-> v]

LEMMA PutSteps ==
  ASSUME NEW o \in Oram, NEW b \in Block, NEW v \in Value, Put(b, o, v)
  PROVE  \E newPath \in Path :
           /\ posmap' = [posmap EXCEPT ![b] = newPath] /\ NewEntry(b, newPath, v) \in Entry
           /\ Overflows(o) \/ Places(o, NewEntry(b, newPath, v))
<1>1. PICK newPath \in Path :
        /\ posmap' = [posmap EXCEPT ![b] = newPath]
        /\ PlaceBlockOnPath(o, NewEntry(b, newPath, v))
  BY DEF Put, DrawnPath, NewEntry
<1>2. NewEntry(b, newPath, v) \in Entry
  BY DEF NewEntry, Entry
<1>3. NewEntry(b, newPath, v) \in Content
  BY <1>2 DEF Content
<1> QED
  BY <1>1, <1>2, <1>3, PlaceSteps

LEMMA PutTyped ==
  ASSUME TypedAndReadable, NEW o \in Oram, CountersAgree(o), NEW b \in Block, NEW v \in Value,
         Put(b, o, v), reply' \in Value \cup {NoReply}
  PROVE  TypedAndReadable'
<1>1. PICK newPath \in Path :
        /\ posmap' = [posmap EXCEPT ![b] = newPath]
        /\ Overflows(o) \/ Places(o, NewEntry(b, newPath, v))
  BY PutSteps
<1>2. posmap' \in [Block -> Path]
  BY <1>1 DEF TypedAndReadable, TypeOK
<1>3. oram' \in Oram /\ CountersAgree(oram') /\ status' \in {"StashOverflow", status}
  BY <1>1 DEF Overflows, Places
<1> QED
  BY <1>2, <1>3 DEF TypedAndReadable, TypeOK

(* The requests that end in a placement, and what they place.               *)
Replaces(b, v, r) ==
  /\ status = "ok" /\ Put(b, Lookup(b), v)
  /\ reply' = IF status' = "ok" THEN r ELSE NoReply

LEMMA ReplacingRequests ==
  ASSUME TypedAndReadable, NEW b \in Block, NEW v \in Value,
         Read(b) \/ Write(b, v) \/ ReadWrite(b, v) \/ Update(b, v)
  PROVE  \E x \in Value, r \in Value \cup {NoReply} : Replaces(b, x, r)
<1>1. CASE Read(b)
  BY <1>1, LookupFields DEF Read, Running, Replaces
<1>2. CASE Write(b, v)
  BY <1>2 DEF Write, Running, Replaces
<1>3. CASE ReadWrite(b, v)
  BY <1>3, LookupFields DEF ReadWrite, Running, Replaces
<1>4. CASE Update(b, v)
  BY <1>4 DEF Update, Running, Replaces
<1> QED
  BY <1>1, <1>2, <1>3, <1>4

(* The requests that leave the path of their block loaded.                  *)
LeavesLoaded(b) == Pop(b) \/ PopMissing(b) \/ MissingBlock(b)

LEMMA LoadingSteps ==
  ASSUME TypedAndReadable, NEW b \in Block, LeavesLoaded(b)
  PROVE  /\ status = "ok" /\ oram' = Lookup(b)
         /\ \E newPath \in Path : posmap' = [posmap EXCEPT ![b] = newPath]
         /\ reply' = (IF Pop(b) THEN Target(b).data ELSE NoReply)
         /\ reply' \in Value \cup {NoReply}
         /\ status' = (IF MissingBlock(b) THEN "BlockDoesNotExist" ELSE "ok")
         /\ Pop(b) <=> Target(b) # NoBlock
<1>1. CASE Pop(b)
  <2>1. ~MissingBlock(b)
    BY <1>1 DEF Pop, MissingBlock
  <2> QED BY <1>1, <2>1, LookupFields DEF Pop, Running, DrawnPath
<1>2. CASE PopMissing(b)
  <2>1. ~Pop(b)
    BY <1>2 DEF Pop, PopMissing
  <2>2. ~MissingBlock(b)
    BY <1>2 DEF PopMissing, MissingBlock, Running
  <2> QED BY <1>2, <2>1, <2>2 DEF PopMissing, Running, DrawnPath
<1>3. CASE MissingBlock(b)
  <2>1. ~Pop(b)
    BY <1>3 DEF Pop, MissingBlock
  <2> QED BY <1>3, <2>1 DEF MissingBlock, Running, DrawnPath
<1> QED
  BY <1>1, <1>2, <1>3 DEF LeavesLoaded

LEMMA DroppedFields ==
  ASSUME NEW o \in Oram
  PROVE  LET d == [Dropped(o) EXCEPT !.bypass = LoadedBypass(@)]
         IN  /\ d \in Oram /\ d.loaded = NoPath /\ d.tree = o.tree /\ d.stash = o.stash
             /\ CountersAgree(o) => CountersAgree(d)
<1> DEFINE d == [Dropped(o) EXCEPT !.bypass = LoadedBypass(@)]
<1>1. d = [o EXCEPT !.loaded = NoPath, !.buffer = NoBuffer, !.bypass = TRUE]
  BY DEF Dropped, LoadedBypass, Oram
<1> HIDE DEF d
<1>2. /\ d \in Oram /\ d.loaded = NoPath /\ d.tree = o.tree /\ d.stash = o.stash
      /\ d.under = o.under /\ d.children = o.children /\ d.root = o.root
  BY <1>1, NoBufferType DEF Oram
<1>3. CountersAgree(o) => CountersAgree(d)
  BY <1>2 DEF CountersAgree, Readable, CounterAbove
<1> QED
  BY <1>2, <1>3 DEF d

LEMMA NextTyped == TypedAndReadable /\ [Next]_vars => TypedAndReadable'
<1> SUFFICES ASSUME TypedAndReadable, [Next]_vars PROVE TypedAndReadable'
  OBVIOUS
<1>1. /\ oram \in Oram /\ CountersAgree(oram) /\ posmap \in [Block -> Path]
      /\ status \in {"ok", "StashOverflow", "BlockDoesNotExist"} /\ reply \in Value \cup {NoReply}
  BY DEF TypedAndReadable, TypeOK
<1>2. ASSUME NEW b \in Block, NEW v \in Value,
             Read(b) \/ Write(b, v) \/ ReadWrite(b, v) \/ Update(b, v)
      PROVE  TypedAndReadable'
  <2>1. PICK x \in Value, r \in Value \cup {NoReply} : Replaces(b, x, r)
    BY <1>2, ReplacingRequests
  <2> QED BY <2>1, LookupFields, PutTyped DEF Replaces
<1>3. ASSUME NEW b \in Block, LeavesLoaded(b) PROVE TypedAndReadable'
  <2>1. /\ oram' = Lookup(b) /\ posmap' \in [Block -> Path]
        /\ reply' \in Value \cup {NoReply} /\ status' \in {"ok", "BlockDoesNotExist"}
    BY <1>1, <1>3, LoadingSteps
  <2> QED BY <2>1, LookupFields DEF TypedAndReadable, TypeOK
<1>4. ASSUME NEW b \in Block, NEW v \in Value, Push(b, v) PROVE TypedAndReadable'
  BY <1>1, <1>4, PutTyped DEF Push
<1>5. ASSUME NEW b \in Block, DummyPop(b) PROVE TypedAndReadable'
  <2>1. /\ oram' = ReadPath(Flushed(oram), posmap[b]) /\ reply' = NoReply
        /\ posmap' = posmap /\ status' = status
    BY <1>5 DEF DummyPop
  <2>2. posmap[b] \in Path
    BY <1>1
  <2>3. oram' \in Oram /\ CountersAgree(oram')
    BY <1>1, <2>1, <2>2, FlushedFields, ReadPathFields
  <2> QED BY <1>1, <2>1, <2>3 DEF TypedAndReadable, TypeOK
<1>6. CASE DummyPush
  <2>1. /\ PlaceBlockOnPath(oram, NoBlock) /\ reply' = NoReply /\ posmap' = posmap
        /\ NoBlock \in Content
    BY <1>6 DEF DummyPush, Content
  <2>2. oram' \in Oram /\ CountersAgree(oram') /\ status' \in {"StashOverflow", status}
    BY <1>1, <2>1, PlaceSteps DEF Overflows, Places
  <2> QED BY <1>1, <2>1, <2>2 DEF TypedAndReadable, TypeOK
<1>7. CASE SaveAndLoad
  <2>1. oram' \in Oram /\ CountersAgree(oram')
    BY <1>1, <1>7, DroppedFields DEF SaveAndLoad
  <2> QED BY <1>1, <1>7, <2>1 DEF SaveAndLoad, TypedAndReadable, TypeOK
<1>8. CASE UNCHANGED vars
  <2>1. posmap' = posmap /\ oram' = oram /\ status' = status /\ reply' = reply
    BY <1>8 DEF vars
  <2> QED BY <1>1, <2>1 DEF TypedAndReadable, TypeOK
<1>9. PICK v \in Value : TRUE
  BY PathOram2Assumption DEF Parameters
<1> QED
  BY <1>2, <1>3, <1>4, <1>5, <1>6, <1>7, <1>8, <1>9 DEF Next, LeavesLoaded

THEOREM TypedAndReadableHolds == Spec => []TypedAndReadable
<1> QED
  BY InitTyped, NextTyped, PTL DEF Spec

(* Every variable has its type, whatever the sizes of tree, pages and stash *)
(* and whatever the lookups find, with saves while a path is loaded or not. *)
THEOREM TypeCorrect == Spec => []TypeOK
<1>1. TypedAndReadable => TypeOK
  BY DEF TypedAndReadable
<1> QED
  BY <1>1, TypedAndReadableHolds, PTL

(* Every path can be decrypted after every sequence of requests, write-     *)
(* backs, saves and loads: the counter a page was encrypted under is always *)
(* the one the page above it holds, for pages of any number of levels and   *)
(* counters that wrap anywhere.                                             *)
THEOREM PathsReadable == Spec => []EveryPathReadable
<1>1. TypedAndReadable => EveryPathReadable
  BY DEF TypedAndReadable, CountersAgree, EveryPathReadable
<1> QED
  BY <1>1, TypedAndReadableHolds, PTL

-----------------------------------------------------------------------------
(* Placement and uniqueness, in the tree as a write-back would leave it.    *)
(* They hold when no save drops a path that waits to be written back.       *)
WellPlaced == posmap \in [Block -> Path] /\ Good(posmap, View(oram), oram.stash)

IInv == TypedAndReadable /\ WellPlaced /\ OneSlotAwaits(oram)

LEMMA InitGood == Init => IInv
<1> SUFFICES ASSUME Init PROVE IInv
  OBVIOUS
<1>1. TypedAndReadable /\ oram \in Oram /\ posmap \in [Block -> Path]
  BY InitTyped DEF TypedAndReadable, TypeOK
<1>2. PICK tree \in [Bucket -> [Slot -> Content]] :
        /\ oram = [tree |-> tree, stash |-> [i \in StashSlot |-> NoBlock],
                   under |-> [p \in Page |-> 0],
                   children |-> [p \in Page |-> [c \in Child |-> 0]],
                   root |-> 0, bypass |-> BypassPathReadOnStashHit,
                   loaded |-> NoPath, buffer |-> NoBuffer]
        /\ PlacedInTree(posmap, tree) /\ OnceInTree(tree)
  BY InitialSlots
<1>3. oram.tree = tree /\ oram.loaded = NoPath /\ oram.stash = [i \in StashSlot |-> NoBlock]
  BY <1>2
<1>4. View(oram) = tree /\ Typed(View(oram), oram.stash)
  BY <1>1, <1>3, ViewType
<1>5. \A i \in StashSlot : oram.stash[i] = NoBlock
  BY <1>3
<1> QED
  BY <1>1, <1>2, <1>3, <1>4, <1>5
     DEF IInv, WellPlaced, Good, OneSlotAwaits, PlacedInStash, OneCopy, OnceInStash, NotInBoth

(* A lookup takes out the block it returns and no other.                    *)
LEMMA LookupGood ==
  ASSUME TypedAndReadable, WellPlaced, NEW b \in Block
  PROVE  /\ Good(posmap, View(Lookup(b)), Lookup(b).stash)
         /\ Lacks(View(Lookup(b)), Lookup(b).stash, b)
         /\ OneSlotAwaits(Lookup(b))
         /\ \A a, d : a # b => (Stores(View(Lookup(b)), Lookup(b).stash, a, d)
                                  <=> Stores(View(oram), oram.stash, a, d))
         /\ Target(b) # NoBlock => Stores(View(oram), oram.stash, b, Target(b))
         /\ Target(b) = NoBlock => Lacks(View(oram), oram.stash, b)
<1> DEFINE o == Flushed(oram)
           path == posmap[b]
           r == Lookup(b)
<1>1. oram \in Oram /\ Good(posmap, View(oram), oram.stash) /\ posmap \in [Block -> Path]
      /\ path \in Path
  BY DEF TypedAndReadable, TypeOK, WellPlaced
<1>2. o \in Oram /\ o.loaded = NoPath
  BY LookupFields
<1>3. /\ Good(posmap, o.tree, o.stash)
      /\ \A a, d : Stores(o.tree, o.stash, a, d) <=> Stores(View(oram), oram.stash, a, d)
  BY <1>1, FlushedGood
<1>4. r = Removed(o, b, path) /\ Target(b) = Located(o, b, path)
  BY DEF Lookup, Target
<1> HIDE DEF o, r
<1>5. /\ r.stash = ErasedStash(o.stash, b) /\ View(r) = ErasedTree(o.tree, o.stash, path, b)
      /\ OneSlotAwaits(r)
  BY <1>1, <1>2, <1>3, <1>4, RemovedFields DEF Good
<1>6. Good(posmap, View(r), r.stash) /\ Lacks(View(r), r.stash, b)
  BY <1>1, <1>3, <1>5, ErasureGood
<1>7. \A a, d : a # b => (Stores(View(r), r.stash, a, d) <=> Stores(o.tree, o.stash, a, d))
  BY <1>5, ErasureStores
<1>8. Target(b) # NoBlock => Stores(View(oram), oram.stash, b, Target(b))
  BY <1>1, <1>3, <1>4, LocatedStored DEF Good
<1>9. Target(b) = NoBlock => Lacks(View(oram), oram.stash, b)
  <2>1. Target(b) = NoBlock => Lacks(o.tree, o.stash, b)
    BY <1>1, <1>3, <1>4, NotLocatedLacks
  <2> QED BY <1>3, <2>1, LacksStores
<1> QED
  BY <1>3, <1>5, <1>6, <1>7, <1>8, <1>9 DEF r

(* A placement adds its entry, or throws and changes nothing that is seen.  *)
LEMMA PlacementGood ==
  ASSUME NEW o \in Oram, NEW pm, Good(pm, View(o), o.stash), NEW c \in Entry,
         c.path = pm[c.id], Lacks(View(o), o.stash, c.id), Overflows(o) \/ Places(o, c)
  PROVE  /\ Good(pm, View(oram'), oram'.stash)
         /\ OneSlotAwaits(o) => OneSlotAwaits(oram')
         /\ \A a, d : a # c.id => (Stores(View(oram'), oram'.stash, a, d)
                                     <=> Stores(View(o), o.stash, a, d))
         /\ \/ status' = "StashOverflow"
            \/ status' = status /\ Stores(View(oram'), oram'.stash, c.id, c)
<1>1. CASE Overflows(o)
  BY <1>1 DEF Overflows
<1>2. CASE Places(o, c)
  <2>1. PICK i \in StashSlot, added \in [StashSlot -> Content], path \in Path :
          /\ o.stash[i] = NoBlock
          /\ added[i] = c /\ \A j \in StashSlot : j # i => added[j] = o.stash[j]
          /\ status' = status
          /\ oram' \in Oram /\ oram'.loaded = NoPath
          /\ oram'.tree = EvictedTree(View(o), added, path)
          /\ oram'.stash = EvictedStash(View(o), added, path)
    BY <1>2 DEF Places
  <2>2. /\ Good(pm, View(o), added) /\ Stores(View(o), added, c.id, c)
        /\ \A a, d : a # c.id =>
             (Stores(View(o), added, a, d) <=> Stores(View(o), o.stash, a, d))
    BY <2>1, EntryAdded
  <2>3. View(oram') = EvictedTree(View(o), added, path)
        /\ oram'.stash = EvictedStash(View(o), added, path)
    BY <2>1, ViewType
  <2>4. Good(pm, View(oram'), oram'.stash)
    BY <2>2, <2>3, EvictionGood
  <2>5. \A a, d : Stores(View(oram'), oram'.stash, a, d) <=> Stores(View(o), added, a, d)
    BY <2>2, <2>3, EvictionKeeps
  <2>6. OneSlotAwaits(oram')
    BY <2>1 DEF OneSlotAwaits
  <2> QED BY <2>1, <2>2, <2>4, <2>5, <2>6
<1> QED
  BY <1>1, <1>2

(* Putting a block back where there is none of it.                          *)
LEMMA PutGood ==
  ASSUME NEW o \in Oram, posmap \in [Block -> Path], Good(posmap, View(o), o.stash),
         NEW b \in Block, NEW v \in Value, Lacks(View(o), o.stash, b), Put(b, o, v)
  PROVE  /\ WellPlaced'
         /\ OneSlotAwaits(o) => OneSlotAwaits(oram')
         /\ \A a, d : a # b => (Stores(View(oram'), oram'.stash, a, d)
                                  <=> Stores(View(o), o.stash, a, d))
         /\ \/ status' = "StashOverflow"
            \/ /\ status' = status
               /\ \E path : Stores(View(oram'), oram'.stash, b, NewEntry(b, path, v))
<1>1. PICK newPath \in Path :
        /\ posmap' = [posmap EXCEPT ![b] = newPath] /\ NewEntry(b, newPath, v) \in Entry
        /\ Overflows(o) \/ Places(o, NewEntry(b, newPath, v))
  BY PutSteps
<1> DEFINE c == NewEntry(b, newPath, v)
<1>2. posmap' \in [Block -> Path] /\ Good(posmap', View(o), o.stash)
  BY <1>1, RemapGood
<1>3. c.id = b /\ c.path = posmap'[c.id]
  BY <1>1 DEF NewEntry
<1>4. c \in Entry /\ (Overflows(o) \/ Places(o, c))
  BY <1>1
<1> HIDE DEF c
<1>5. /\ Good(posmap', View(oram'), oram'.stash)
      /\ OneSlotAwaits(o) => OneSlotAwaits(oram')
      /\ \A a, d : a # c.id => (Stores(View(oram'), oram'.stash, a, d)
                                  <=> Stores(View(o), o.stash, a, d))
      /\ \/ status' = "StashOverflow"
         \/ status' = status /\ Stores(View(oram'), oram'.stash, c.id, c)
  BY <1>2, <1>3, <1>4, PlacementGood
<1>6. WellPlaced'
  BY <1>2, <1>5 DEF WellPlaced, View
<1> QED
  BY <1>3, <1>5, <1>6 DEF c

LEMMA DummyGood ==
  ASSUME IInv, status = "ok", PlaceBlockOnPath(oram, NoBlock), posmap' = posmap
  PROVE  /\ WellPlaced' /\ OneSlotAwaits(oram')
         /\ \A a, d : Stores(View(oram'), oram'.stash, a, d) <=> Stores(View(oram), oram.stash, a, d)
         /\ status' \in {"ok", "StashOverflow"}
<1>1. oram \in Oram /\ posmap' \in [Block -> Path] /\ Good(posmap', View(oram), oram.stash)
      /\ OneSlotAwaits(oram)
  BY DEF IInv, TypedAndReadable, TypeOK, WellPlaced
<1>2. Overflows(oram) \/ Places(oram, NoBlock)
  BY <1>1, PlaceSteps DEF Content
<1>3. CASE Overflows(oram)
  <2>1. View(oram') = View(oram) /\ oram'.stash = oram.stash
        /\ OneSlotAwaits(oram') /\ status' = "StashOverflow"
    BY <1>1, <1>3 DEF Overflows
  <2>2. WellPlaced'
    BY <1>1, <2>1 DEF WellPlaced, View
  <2> QED BY <2>1, <2>2
<1>4. CASE Places(oram, NoBlock)
  <2>1. PICK i \in StashSlot, added \in [StashSlot -> Content], path \in Path :
          /\ oram.stash[i] = NoBlock
          /\ added[i] = NoBlock /\ \A j \in StashSlot : j # i => added[j] = oram.stash[j]
          /\ status' = status
          /\ oram' \in Oram /\ oram'.loaded = NoPath
          /\ oram'.tree = EvictedTree(View(oram), added, path)
          /\ oram'.stash = EvictedStash(View(oram), added, path)
    BY <1>4 DEF Places
  <2>2. added = oram.stash
    <3>1. oram.stash \in [StashSlot -> Content]
      BY <1>1 DEF Oram
    <3> QED BY <2>1, <3>1
  <2>3. View(oram') = EvictedTree(View(oram), oram.stash, path)
        /\ oram'.stash = EvictedStash(View(oram), oram.stash, path)
    BY <2>1, <2>2, ViewType
  <2>4. Good(posmap', View(oram'), oram'.stash)
    BY <1>1, <2>3, EvictionGood
  <2>5. \A a, d : Stores(View(oram'), oram'.stash, a, d) <=> Stores(View(oram), oram.stash, a, d)
    BY <1>1, <2>3, EvictionKeeps
  <2>6. OneSlotAwaits(oram') /\ WellPlaced'
    BY <1>1, <2>1, <2>4 DEF OneSlotAwaits, WellPlaced, View
  <2> QED BY <2>1, <2>5, <2>6
<1> QED
  BY <1>2, <1>3, <1>4

(* What a step stores after it, request by request.                         *)
KeepsOthers(b) ==
  \A a \in Block : \A d : a # b => (Stores(View(oram'), oram'.stash, a, d)
                                  <=> Stores(View(oram), oram.stash, a, d))

LEMMA ReplacesGood ==
  ASSUME IInv, NEW b \in Block, NEW v \in Value, NEW r, Replaces(b, v, r)
  PROVE  /\ WellPlaced' /\ OneSlotAwaits(oram') /\ KeepsOthers(b)
         /\ \/ status' = "StashOverflow" /\ reply' = NoReply
            \/ /\ status' = "ok" /\ reply' = r
               /\ \E path : Stores(View(oram'), oram'.stash, b, NewEntry(b, path, v))
<1>1. TypedAndReadable /\ WellPlaced /\ posmap \in [Block -> Path]
  BY DEF IInv, WellPlaced
<1>2. Lookup(b) \in Oram
  BY <1>1, LookupFields
<1>3. /\ Good(posmap, View(Lookup(b)), Lookup(b).stash)
      /\ Lacks(View(Lookup(b)), Lookup(b).stash, b) /\ OneSlotAwaits(Lookup(b))
      /\ \A a, d : a # b => (Stores(View(Lookup(b)), Lookup(b).stash, a, d)
                               <=> Stores(View(oram), oram.stash, a, d))
  BY <1>1, LookupGood
<1>4. status = "ok" /\ Put(b, Lookup(b), v) /\ reply' = IF status' = "ok" THEN r ELSE NoReply
  BY DEF Replaces
<1> QED
  BY <1>1, <1>2, <1>3, <1>4, PutGood DEF KeepsOthers

LEMMA PushGood ==
  ASSUME IInv, NEW b \in Block, NEW v \in Value, Push(b, v)
  PROVE  /\ WellPlaced' /\ OneSlotAwaits(oram') /\ KeepsOthers(b)
         /\ \/ status' = "StashOverflow"
            \/ /\ status' = "ok"
               /\ \E path : Stores(View(oram'), oram'.stash, b, NewEntry(b, path, v))
<1>1. /\ TypedAndReadable /\ WellPlaced /\ OneSlotAwaits(oram) /\ oram \in Oram
      /\ posmap \in [Block -> Path] /\ Good(posmap, View(oram), oram.stash)
  BY DEF IInv, WellPlaced, TypedAndReadable, TypeOK
<1>2. status = "ok" /\ Put(b, oram, v) /\ Target(b) = NoBlock
  BY DEF Push
<1>3. Lacks(View(oram), oram.stash, b)
  BY <1>1, <1>2, LookupGood
<1> QED
  BY <1>1, <1>2, <1>3, PutGood DEF KeepsOthers

LEMMA LoadingGood ==
  ASSUME IInv, NEW b \in Block, LeavesLoaded(b)
  PROVE  /\ WellPlaced' /\ OneSlotAwaits(oram') /\ KeepsOthers(b)
         /\ Lacks(View(oram'), oram'.stash, b)
<1>1. TypedAndReadable /\ WellPlaced /\ posmap \in [Block -> Path]
  BY DEF IInv, WellPlaced
<1>2. PICK newPath \in Path : posmap' = [posmap EXCEPT ![b] = newPath]
  BY <1>1, LoadingSteps
<1>3. oram' = Lookup(b)
  BY <1>1, LoadingSteps
<1>4. /\ Good(posmap, View(oram'), oram'.stash) /\ Lacks(View(oram'), oram'.stash, b)
      /\ OneSlotAwaits(oram')
      /\ \A a, d : a # b => (Stores(View(oram'), oram'.stash, a, d)
                               <=> Stores(View(oram), oram.stash, a, d))
  BY <1>1, <1>3, LookupGood
<1>5. Good(posmap', View(oram'), oram'.stash) /\ posmap' \in [Block -> Path]
  BY <1>1, <1>2, <1>4, RemapGood
<1>6. WellPlaced'
  BY <1>5 DEF WellPlaced, View
<1> QED
  BY <1>4, <1>6 DEF KeepsOthers

LEMMA DummyPopGood ==
  ASSUME IInv, NEW b \in Block, DummyPop(b)
  PROVE  /\ WellPlaced' /\ OneSlotAwaits(oram')
         /\ \A a, d : Stores(View(oram'), oram'.stash, a, d) <=> Stores(View(oram), oram.stash, a, d)
<1>1. /\ oram \in Oram /\ posmap \in [Block -> Path] /\ posmap[b] \in Path
      /\ Good(posmap, View(oram), oram.stash)
  BY DEF IInv, WellPlaced, TypedAndReadable, TypeOK
<1>2. oram' = ReadPath(Flushed(oram), posmap[b]) /\ posmap' = posmap
  BY DEF DummyPop
<1>3. Flushed(oram) \in Oram
  BY <1>1, FlushedFields
<1>4. View(oram') = Flushed(oram).tree /\ oram'.stash = Flushed(oram).stash
      /\ OneSlotAwaits(oram')
  BY <1>1, <1>2, <1>3, ReadPathFields, ReadPathAwaits
<1>5. /\ Good(posmap, View(oram'), oram'.stash)
      /\ \A a, d : Stores(View(oram'), oram'.stash, a, d) <=> Stores(View(oram), oram.stash, a, d)
  BY <1>1, <1>4, FlushedGood
<1>6. WellPlaced'
  BY <1>1, <1>2, <1>5 DEF WellPlaced, View
<1> QED
  BY <1>4, <1>5, <1>6

(* A save when no path is loaded drops nothing.                             *)
LEMMA SaveGood ==
  ASSUME IInv, ~SavesMidPath, SaveAndLoad
  PROVE  WellPlaced' /\ OneSlotAwaits(oram') /\ View(oram') = View(oram) /\ oram'.stash = oram.stash
<1>1. oram \in Oram /\ oram.loaded = NoPath /\ posmap' = posmap
      /\ oram' = [Dropped(oram) EXCEPT !.bypass = LoadedBypass(@)]
  BY DEF IInv, TypedAndReadable, TypeOK, SaveAndLoad
<1>2. oram' \in Oram /\ oram'.loaded = NoPath /\ oram'.tree = oram.tree
      /\ oram'.stash = oram.stash
  BY <1>1, DroppedFields
<1>3. View(oram') = View(oram)
  BY <1>1, <1>2, ViewType
<1>4. WellPlaced' /\ OneSlotAwaits(oram')
  BY <1>1, <1>2, <1>3 DEF IInv, WellPlaced, View, OneSlotAwaits
<1> QED
  BY <1>2, <1>3, <1>4

(* Every request preserves the invariant.                                   *)
LEMMA NextGood ==
  ASSUME ~SavesMidPath, IInv, [Next]_vars
  PROVE  IInv'
<1>1. TypedAndReadable /\ TypedAndReadable'
  BY NextTyped DEF IInv
<1>2. SUFFICES WellPlaced' /\ OneSlotAwaits(oram')
  BY <1>1 DEF IInv, OneSlotAwaits, Differs
<1>3. ASSUME NEW b \in Block, NEW v \in Value,
             Read(b) \/ Write(b, v) \/ ReadWrite(b, v) \/ Update(b, v)
      PROVE  WellPlaced' /\ OneSlotAwaits(oram')
  <2>1. PICK x \in Value, r \in Value \cup {NoReply} : Replaces(b, x, r)
    BY <1>1, <1>3, ReplacingRequests
  <2> QED BY <2>1, ReplacesGood
<1>4. ASSUME NEW b \in Block, LeavesLoaded(b) PROVE WellPlaced' /\ OneSlotAwaits(oram')
  BY <1>4, LoadingGood
<1>5. ASSUME NEW b \in Block, NEW v \in Value, Push(b, v)
      PROVE  WellPlaced' /\ OneSlotAwaits(oram')
  BY <1>5, PushGood
<1>6. ASSUME NEW b \in Block, DummyPop(b) PROVE WellPlaced' /\ OneSlotAwaits(oram')
  BY <1>6, DummyPopGood
<1>7. CASE DummyPush
  BY <1>7, DummyGood DEF DummyPush
<1>8. CASE SaveAndLoad
  BY <1>8, SaveGood
<1>9. CASE UNCHANGED vars
  <2>1. posmap' = posmap /\ oram' = oram
    BY <1>9 DEF vars
  <2> QED BY <2>1 DEF IInv, WellPlaced, View
<1>10. PICK v \in Value : TRUE
  BY PathOram2Assumption DEF Parameters
<1> QED
  BY <1>3, <1>4, <1>5, <1>6, <1>7, <1>8, <1>9, <1>10 DEF Next, LeavesLoaded

LEMMA InvariantHolds ==
  ASSUME ~SavesMidPath
  PROVE  Spec => []IInv
<1>1. IInv /\ [Next]_vars => IInv'
  BY NextGood
<1> QED
  BY <1>1, InitGood, PTL DEF Spec

(* Every block is on the path the position map gives it, in the stash, the  *)
(* buffer or a bucket, whatever was popped, pushed, bypassed or flushed.    *)
THEOREM Placement ==
  ASSUME ~SavesMidPath
  PROVE  Spec => []BlocksOnTheirPaths
<1>1. IInv => BlocksOnTheirPaths
  BY DEF IInv, WellPlaced, Good, PlacedInTree, PlacedInStash, BlocksOnTheirPaths
<1> QED
  BY <1>1, InvariantHolds, PTL

(* No block is stored twice: a path still loaded is written back before the *)
(* next lookup, so the copy a POP left in the tree is gone by then.         *)
THEOREM Uniqueness ==
  ASSUME ~SavesMidPath
  PROVE  Spec => []AtMostOneCopy
<1>1. IInv => AtMostOneCopy
  BY CopiesCounted DEF IInv, WellPlaced, Good, AtMostOneCopy, StashHits
<1> QED
  BY <1>1, InvariantHolds, PTL

(* What waits for the write-back of a loaded path is one popped block at    *)
(* most.                                                                    *)
THEOREM LittleAwaits ==
  ASSUME ~SavesMidPath
  PROVE  Spec => []OnlyPopAwaitsWriteBack
<1>1. IInv => OnlyPopAwaitsWriteBack
  <2> SUFFICES ASSUME OneSlotAwaits(oram), oram.loaded # NoPath
               PROVE  LET differing == { x \in Level \X Slot : Differs(oram, x) }
                      IN  /\ Cardinality(differing) <= 1
                          /\ \A x \in differing : oram.buffer[x[1]][x[2]] = NoBlock
    BY DEF IInv, OnlyPopAwaitsWriteBack, Differs
  <2> QED BY AwaitsCounted DEF OneSlotAwaits
<1> QED
  BY <1>1, InvariantHolds, PTL

-----------------------------------------------------------------------------
(* The ORAM implements BlockStore.  What a client sees of a block is the    *)
(* payload stored for it, in the stash, the buffer or a bucket.             *)
Held(b) == ValueOf(View(oram), oram.stash, b)

ShowsWhatIsStored == Contents = [b \in Block |-> Held(b)]

LEMMA ContentsStored == IInv => ShowsWhatIsStored
<1> SUFFICES ASSUME IInv, NEW b \in Block PROVE Contents[b] = Held(b)
  BY DEF ShowsWhatIsStored, Contents
<1> DEFINE seen == [oram EXCEPT !.tree = View(oram)]
           c == Located(seen, b, posmap[b])
<1>1. /\ oram \in Oram /\ posmap \in [Block -> Path] /\ posmap[b] \in Path
      /\ Good(posmap, View(oram), oram.stash)
  BY DEF IInv, WellPlaced, TypedAndReadable, TypeOK
<1>2. seen.tree = View(oram) /\ seen.stash = oram.stash
  BY <1>1 DEF Oram
<1>3. Contents[b] = IF c = NoBlock THEN NoBlock ELSE c.data
  BY DEF Contents
<1> HIDE DEF seen
<1>4. Good(posmap, seen.tree, seen.stash)
      /\ Typed(seen.tree, seen.stash) /\ OneCopy(seen.tree, seen.stash)
  BY <1>1, <1>2 DEF Good
<1>5. CASE c # NoBlock
  <2>1. Stores(seen.tree, seen.stash, b, c)
    BY <1>1, <1>4, <1>5, LocatedStored
  <2> HIDE DEF c
  <2>2. ValueOf(seen.tree, seen.stash, b) = c.data
    BY <1>4, <2>1, StoredValue
  <2> QED BY <1>2, <1>3, <1>5, <2>2 DEF Held
<1>6. CASE c = NoBlock
  <2>1. Lacks(seen.tree, seen.stash, b)
    BY <1>1, <1>4, <1>6, NotLocatedLacks
  <2>2. ValueOf(seen.tree, seen.stash, b) = NoBlock
    BY <1>4, <2>1, LacksStores, StoredValue
  <2> QED BY <1>2, <1>3, <1>6, <2>2 DEF Held
<1> QED
  BY <1>5, <1>6

(* The payload a request finds is what the client sees of its block.        *)
LEMMA TargetShown ==
  ASSUME IInv, NEW b \in Block
  PROVE  /\ Contents[b] \in Value \cup {NoBlock}
         /\ Target(b) # NoBlock => Contents[b] = Target(b).data /\ Contents[b] \in Value
         /\ Target(b) = NoBlock => Contents[b] = NoBlock
<1>1. TypedAndReadable /\ WellPlaced
      /\ Typed(View(oram), oram.stash) /\ OneCopy(View(oram), oram.stash)
  BY DEF IInv, WellPlaced, Good
<1>2. Contents[b] = ValueOf(View(oram), oram.stash, b)
  BY ContentsStored DEF ShowsWhatIsStored, Held
<1>3. CASE Target(b) # NoBlock
  BY <1>1, <1>2, <1>3, LookupGood, StoredValue
<1>4. CASE Target(b) = NoBlock
  <2>1. Lacks(View(oram), oram.stash, b)
    BY <1>1, <1>4, LookupGood
  <2> QED BY <1>1, <1>2, <1>4, <2>1, LacksStores, StoredValue
<1> QED
  BY <1>1, <1>2, <1>3, <1>4, StoredValue

(* A step that stores a block as before shows it as before.                 *)
LEMMA HeldKept ==
  ASSUME IInv, IInv', NEW a \in Block,
         \A d : Stores(View(oram'), oram'.stash, a, d) <=> Stores(View(oram), oram.stash, a, d)
  PROVE  Held(a)' = Held(a)
<1>1. /\ Typed(View(oram), oram.stash) /\ OneCopy(View(oram), oram.stash)
      /\ Typed(View(oram'), oram'.stash) /\ OneCopy(View(oram'), oram'.stash)
  BY DEF IInv, WellPlaced, Good, View
<1>2. ValueOf(View(oram'), oram'.stash, a) = ValueOf(View(oram), oram.stash, a)
  BY <1>1, SameValue
<1> QED
  BY <1>2 DEF Held, View, ValueOf, Stores

LEMMA ContentsBothTimes ==
  ASSUME IInv, IInv'
  PROVE  /\ Contents = [a \in Block |-> Held(a)]
         /\ Contents' = [a \in Block |-> Held(a)']
<1>1. ShowsWhatIsStored'
  BY ContentsStored, PTL
<1> QED
  BY <1>1, ContentsStored DEF ShowsWhatIsStored

(* A step that stores every other block as before changes one payload.      *)
LEMMA ContentsStep ==
  ASSUME IInv, IInv', NEW b \in Block, KeepsOthers(b)
  PROVE  /\ Contents' = [Contents EXCEPT ![b] = Held(b)']
         /\ Held(b)' \in Value \cup {NoBlock}
<1>1. \A a \in Block : a # b => Held(a)' = Held(a)
  BY HeldKept DEF KeepsOthers
<1>2. Typed(View(oram'), oram'.stash) /\ OneCopy(View(oram'), oram'.stash)
  BY DEF IInv, WellPlaced, Good, View
<1>3. ValueOf(View(oram'), oram'.stash, b) \in Value \cup {NoBlock}
  BY <1>2, StoredValue
<1>4. Held(b)' \in Value \cup {NoBlock}
  BY <1>3 DEF Held, View, ValueOf, Stores
<1> QED
  BY <1>1, <1>4, ContentsBothTimes

LEMMA ContentsKept ==
  ASSUME IInv, IInv',
         \A a, d : Stores(View(oram'), oram'.stash, a, d) <=> Stores(View(oram), oram.stash, a, d)
  PROVE  Contents' = Contents
<1>1. \A a \in Block : Held(a)' = Held(a)
  BY HeldKept
<1> QED
  BY <1>1, ContentsBothTimes

(* What a step that ends in a placement does to the store.                  *)
LEMMA ContentsPut ==
  ASSUME IInv, IInv', NEW b \in Block, NEW v \in Value, KeepsOthers(b),
         \E path : Stores(View(oram'), oram'.stash, b, NewEntry(b, path, v))
  PROVE  Contents' = [Contents EXCEPT ![b] = v]
<1>1. PICK path : Stores(View(oram'), oram'.stash, b, NewEntry(b, path, v))
  OBVIOUS
<1>2. Typed(View(oram'), oram'.stash) /\ OneCopy(View(oram'), oram'.stash)
  BY DEF IInv, WellPlaced, Good, View
<1>3. ValueOf(View(oram'), oram'.stash, b) = v
  BY <1>1, <1>2, StoredValue DEF NewEntry
<1>4. Held(b)' = v
  BY <1>3 DEF Held, View, ValueOf, Stores
<1> QED
  BY <1>4, ContentsStep

LEMMA ContentsTaken ==
  ASSUME IInv, IInv', NEW b \in Block, KeepsOthers(b), Lacks(View(oram'), oram'.stash, b)
  PROVE  Contents' = [Contents EXCEPT ![b] = NoBlock]
<1>1. Typed(View(oram'), oram'.stash) /\ OneCopy(View(oram'), oram'.stash)
  BY DEF IInv, WellPlaced, Good, View
<1>2. ValueOf(View(oram'), oram'.stash, b) = NoBlock
  BY <1>1, LacksStores, StoredValue
<1>3. Held(b)' = NoBlock
  BY <1>2 DEF Held, View, ValueOf, Stores
<1> QED
  BY <1>3, ContentsStep
LEMMA InitRefines == Init => Store!StoreInit
<1> SUFFICES ASSUME Init PROVE Store!StoreInit
  OBVIOUS
<1>1. IInv /\ oram \in Oram /\ status = "ok" /\ reply = NoReply
  BY InitGood, InitialSlots DEF IInv, TypedAndReadable, TypeOK
<1>2. Contents = [b \in Block |-> ValueOf(View(oram), oram.stash, b)]
  BY <1>1, ContentsStored DEF ShowsWhatIsStored, Held
<1>3. PICK tree \in [Bucket -> [Slot -> Content]] :
        /\ oram = [tree |-> tree, stash |-> [i \in StashSlot |-> NoBlock],
                   under |-> [p \in Page |-> 0],
                   children |-> [p \in Page |-> [c \in Child |-> 0]],
                   root |-> 0, bypass |-> BypassPathReadOnStashHit,
                   loaded |-> NoPath, buffer |-> NoBuffer]
        /\ \/ \A n \in Bucket, u \in Slot : tree[n][u] = NoBlock
           \/ \A b \in Block : \E n \in Bucket, u \in Slot :
                tree[n][u] # NoBlock /\ tree[n][u].id = b
  BY InitialSlots
<1>4. oram.tree = tree /\ oram.loaded = NoPath /\ oram.stash = [i \in StashSlot |-> NoBlock]
  BY <1>3
<1>5. View(oram) = tree /\ \A i \in StashSlot : oram.stash[i] = NoBlock
  BY <1>1, <1>4, ViewType
<1>6. Typed(View(oram), oram.stash) /\ OneCopy(View(oram), oram.stash)
  BY <1>1 DEF IInv, WellPlaced, Good
<1>7. CASE \A n \in Bucket, u \in Slot : tree[n][u] = NoBlock
  <2>1. \A b \in Block : Lacks(View(oram), oram.stash, b)
    BY <1>5, <1>7 DEF Lacks
  <2>2. \A b \in Block : ValueOf(View(oram), oram.stash, b) = NoBlock
    BY <1>6, <2>1, LacksStores, StoredValue
  <2>3. Contents = [b \in Block |-> NoBlock]
    BY <1>2, <2>2
  <2> QED BY <1>1, <2>3 DEF Store!StoreInit
<1>8. CASE \A b \in Block : \E n \in Bucket, u \in Slot : tree[n][u] # NoBlock /\ tree[n][u].id = b
  <2>1. \A b \in Block : \E c : Stores(View(oram), oram.stash, b, c)
    BY <1>5, <1>8 DEF Stores
  <2>2. \A b \in Block : ValueOf(View(oram), oram.stash, b) \in Value
    BY <1>6, <2>1, StoredValue
  <2>3. Contents \in [Block -> Value]
    BY <1>2, <2>2
  <2> QED BY <1>1, <2>3 DEF Store!StoreInit
<1> QED
  BY <1>3, <1>7, <1>8

(* Every request is one of the store's, or fails and spoils its own block.  *)
LEMMA NextRefines ==
  ASSUME ~SavesMidPath, IInv, IInv', [Next]_vars
  PROVE  [Store!StoreNext]_(Store!storeVars)
<1>1. Contents = [a \in Block |-> Contents[a]]
  BY DEF Contents
<1>2. ASSUME NEW b \in Block, status = "ok", status' # "ok", reply' = NoReply,
             \E x \in Value \cup {NoBlock} : Contents' = [Contents EXCEPT ![b] = x]
      PROVE  Store!Fail(b)
  BY <1>2 DEF Store!Fail
<1>3. ASSUME NEW b \in Block, NEW v \in Value, NEW r, Replaces(b, v, r)
      PROVE  \/ /\ status = "ok" /\ status' = "ok" /\ reply' = r
                /\ Contents' = [Contents EXCEPT ![b] = v]
             \/ Store!Fail(b)
  <2>1. /\ KeepsOthers(b) /\ status = "ok"
        /\ \/ status' = "StashOverflow" /\ reply' = NoReply
           \/ /\ status' = "ok" /\ reply' = r
              /\ \E path : Stores(View(oram'), oram'.stash, b, NewEntry(b, path, v))
    BY <1>3, ReplacesGood DEF Replaces
  <2>2. CASE status' = "StashOverflow" /\ reply' = NoReply
    <3>1. \E x \in Value \cup {NoBlock} : Contents' = [Contents EXCEPT ![b] = x]
      BY <2>1, ContentsStep
    <3> QED BY <1>2, <2>1, <2>2, <3>1
  <2>3. CASE /\ status' = "ok" /\ reply' = r
             /\ \E path : Stores(View(oram'), oram'.stash, b, NewEntry(b, path, v))
    BY <2>1, <2>3, ContentsPut
  <2> QED BY <2>1, <2>2, <2>3
<1>4. ASSUME NEW b \in Block, Read(b) PROVE Store!Read(b) \/ Store!Fail(b)
  <2>1. Contents[b] = Target(b).data /\ Contents[b] \in Value /\ Contents[b] # NoBlock
    BY <1>4, TargetShown, NoBlockAssumption DEF Read
  <2>2. Replaces(b, Contents[b], Contents[b])
    BY <1>4, <2>1 DEF Read, Running, Replaces
  <2> QED BY <1>1, <1>3, <2>1, <2>2 DEF Store!Read, Store!Returns, Store!Present
<1>5. ASSUME NEW b \in Block, NEW v \in Value, Write(b, v) \/ Update(b, v)
      PROVE  Store!Write(b, v) \/ Store!Fail(b)
  <2>1. Replaces(b, v, NoReply)
    BY <1>5 DEF Write, Update, Running, Replaces
  <2> QED BY <1>3, <2>1 DEF Store!Write, Store!Returns
<1>6. ASSUME NEW b \in Block, NEW v \in Value, ReadWrite(b, v)
      PROVE  Store!ReadWrite(b, v) \/ Store!Fail(b)
  <2>1. Contents[b] = Target(b).data /\ Contents[b] # NoBlock
    BY <1>6, TargetShown, NoBlockAssumption DEF ReadWrite
  <2>2. Replaces(b, v, Contents[b])
    BY <1>6, <2>1 DEF ReadWrite, Running, Replaces
  <2> QED BY <1>3, <2>1, <2>2 DEF Store!ReadWrite, Store!Returns, Store!Present
<1>7. ASSUME NEW b \in Block, LeavesLoaded(b)
      PROVE  Store!Pop(b) \/ Store!Dummy \/ Store!Fail(b)
  <2>1. /\ status = "ok" /\ reply' = (IF Pop(b) THEN Target(b).data ELSE NoReply)
        /\ status' = (IF MissingBlock(b) THEN "BlockDoesNotExist" ELSE "ok")
        /\ Pop(b) <=> Target(b) # NoBlock
    BY <1>7, LoadingSteps DEF IInv
  <2>2. Contents' = [Contents EXCEPT ![b] = NoBlock]
    BY <1>7, LoadingGood, ContentsTaken
  <2>3. CASE Pop(b)
    <3>1. Contents[b] = Target(b).data /\ Contents[b] # NoBlock /\ status' = status
      BY <2>1, <2>3, TargetShown, NoBlockAssumption DEF Pop
    <3> QED BY <2>1, <2>2, <2>3, <3>1 DEF Store!Pop, Store!Returns, Store!Present
  <2>4. CASE MissingBlock(b)
    <3>1. status' # "ok" /\ reply' = NoReply
      BY <2>1, <2>4 DEF MissingBlock
    <3> QED BY <1>2, <2>1, <2>2, <3>1
  <2>5. CASE PopMissing(b)
    <3>1. status' = status /\ reply' = NoReply /\ Contents[b] = NoBlock
      BY <2>5, TargetShown DEF PopMissing
    <3>2. Contents' = Contents
      BY <1>1, <2>2, <3>1
    <3> QED BY <2>1, <3>1, <3>2 DEF Store!Dummy, Store!Returns
  <2> QED BY <1>7, <2>3, <2>4, <2>5 DEF LeavesLoaded
<1>8. ASSUME NEW b \in Block, NEW v \in Value, Push(b, v)
      PROVE  Store!Push(b, v) \/ Store!Fail(b)
  <2>1. /\ KeepsOthers(b) /\ status = "ok" /\ reply' = NoReply /\ Contents[b] = NoBlock
        /\ \/ status' = "StashOverflow"
           \/ /\ status' = "ok"
              /\ \E path : Stores(View(oram'), oram'.stash, b, NewEntry(b, path, v))
    BY <1>8, PushGood, TargetShown DEF Push
  <2>2. CASE status' = "StashOverflow"
    <3>1. \E x \in Value \cup {NoBlock} : Contents' = [Contents EXCEPT ![b] = x]
      BY <2>1, ContentsStep
    <3> QED BY <1>2, <2>1, <2>2, <3>1
  <2>3. CASE /\ status' = "ok"
             /\ \E path : Stores(View(oram'), oram'.stash, b, NewEntry(b, path, v))
    <3>1. Contents' = [Contents EXCEPT ![b] = v]
      BY <2>1, <2>3, ContentsPut
    <3> QED BY <2>1, <2>3, <3>1 DEF Store!Push, Store!Returns, Store!Present
  <2> QED BY <2>1, <2>2, <2>3
<1>9. ASSUME NEW b \in Block, DummyPop(b) PROVE Store!Dummy
  <2>1. status = "ok" /\ status' = status /\ reply' = NoReply
    BY <1>9 DEF DummyPop, Running
  <2>2. Contents' = Contents
    BY <1>9, DummyPopGood, ContentsKept
  <2> QED BY <2>1, <2>2 DEF Store!Dummy, Store!Returns
<1>10. CASE DummyPush
  <2>1. status = "ok" /\ PlaceBlockOnPath(oram, NoBlock) /\ reply' = NoReply /\ posmap' = posmap
    BY <1>10 DEF DummyPush
  <2>2. Contents' = Contents /\ status' \in {"ok", "StashOverflow"}
    BY <2>1, DummyGood, ContentsKept
  <2>3. PICK b \in Block : TRUE
    BY PathOram2Assumption DEF Parameters
  <2>4. Contents[b] \in Value \cup {NoBlock}
    BY TargetShown
  <2>5. Contents' = [Contents EXCEPT ![b] = Contents[b]]
    <3>1. \A f : f = [a \in Block |-> f[a]] => f = [f EXCEPT ![b] = f[b]]
      OBVIOUS
    <3>2. Contents = [Contents EXCEPT ![b] = Contents[b]]
      BY <1>1, <3>1
    <3> QED BY <2>2, <3>2
  <2>6. CASE status' = "ok"
    <3>1. Store!Dummy
      BY <2>1, <2>2, <2>6 DEF Store!Dummy, Store!Returns
    <3> QED BY <3>1 DEF Store!StoreNext
  <2>7. CASE status' = "StashOverflow"
    <3>1. Store!Fail(b)
      BY <1>2, <2>1, <2>4, <2>5, <2>7
    <3> QED BY <3>1 DEF Store!StoreNext
  <2> QED BY <2>2, <2>6, <2>7
<1>11. CASE SaveAndLoad
  <2>1. status' = status /\ reply' = reply
    BY <1>11 DEF SaveAndLoad
  <2>2. Contents' = Contents
    BY <1>11, SaveGood, ContentsKept
  <2> QED BY <2>1, <2>2 DEF Store!storeVars
<1>12. CASE UNCHANGED vars
  <2>1. posmap' = posmap /\ oram' = oram /\ status' = status /\ reply' = reply
    BY <1>12 DEF vars
  <2>2. Contents' = Contents
    BY <2>1, ContentsKept
  <2> QED BY <2>1, <2>2 DEF Store!storeVars
<1>13. PICK v \in Value : TRUE
  BY PathOram2Assumption DEF Parameters
<1> QED
  BY <1>4, <1>5, <1>6, <1>7, <1>8, <1>9, <1>10, <1>11, <1>12, <1>13
     DEF Next, LeavesLoaded, Store!StoreNext

(* To its client the ORAM is a plain store of blocks, whatever paths are    *)
(* loaded, flushed or bypassed between its requests: a POP returns and      *)
(* takes out the payload last written, and an exception spoils only the     *)
(* block it was about.  It needs saves to come when no path is loaded.      *)
THEOREM Refinement ==
  ASSUME ~SavesMidPath
  PROVE  Spec => ImplementsBlockStore
<1>1. IInv /\ IInv' /\ [Next]_vars => [Store!StoreNext]_(Store!storeVars)
  BY NextRefines
<1> QED
  BY <1>1, InitRefines, InvariantHolds, PTL DEF Spec, ImplementsBlockStore, Store!StoreSpec
=============================================================================
