------------------------- MODULE PathEvictionProofs -------------------------
(***************************************************************************)
(* Facts about PathEviction for every size of the tree and of the stash:   *)
(* an eviction keeps every block on its path and in one place, and the     *)
(* steps an access is made of do so too.  The path ORAMs share them.       *)
(***************************************************************************)
EXTENDS PathEviction, TreePathsProofs, FiniteSetTheorems

(* A tree t and a stash s with the parts of the invariant they satisfy.    *)
Typed(t, s) ==
  t \in [Bucket -> [Slot -> Content]] /\ s \in [StashSlot -> Content]

PlacedInTree(pm, t) ==
  \A n \in Bucket, u \in Slot : t[n][u] # NoBlock =>
    t[n][u].path = pm[t[n][u].id] /\ n = BucketOn(t[n][u].path, n[1])

PlacedInStash(pm, s) ==
  \A i \in StashSlot : s[i] # NoBlock => s[i].path = pm[s[i].id]

OnceInStash(s) ==
  \A i, j \in StashSlot :
    s[i] # NoBlock /\ s[j] # NoBlock /\ s[i].id = s[j].id => i = j

OnceInTree(t) ==
  \A n, m \in Bucket : \A u, v \in Slot :
    t[n][u] # NoBlock /\ t[m][v] # NoBlock /\ t[n][u].id = t[m][v].id
      => n = m /\ u = v

NotInBoth(t, s) ==
  \A n \in Bucket, u \in Slot, i \in StashSlot :
    t[n][u] # NoBlock /\ s[i] # NoBlock => t[n][u].id # s[i].id

OneCopy(t, s) == OnceInStash(s) /\ OnceInTree(t) /\ NotInBoth(t, s)

Lacks(t, s, b) ==
  /\ \A n \in Bucket, u \in Slot : t[n][u] # NoBlock => t[n][u].id # b
  /\ \A i \in StashSlot : s[i] # NoBlock => s[i].id # b

Good(pm, t, s) ==
  Typed(t, s) /\ PlacedInTree(pm, t) /\ PlacedInStash(pm, s) /\ OneCopy(t, s)

-----------------------------------------------------------------------------
LEMMA EntryFields ==
  ASSUME NEW c \in Content, c # NoBlock
  PROVE  c \in Entry /\ c.id \in Block /\ c.path \in Path /\ c.data \in Value
BY DEF Content, Entry

(* The path buffer and the stash hold what the tree and the stash held.    *)
LEMMA GatheredFacts ==
  ASSUME NEW pm, NEW t, NEW s, Good(pm, t, s), NEW path \in Path
  PROVE  LET held == Gathered(t, s, path)
         IN  /\ held \in [Place -> Content]
             /\ \A i \in StashSlot : <<StashLevel, i>> \in Place /\ held[<<StashLevel, i>>] = s[i]
             /\ \A p \in Place : \/ \E i \in StashSlot : p = <<StashLevel, i>> /\ held[p] = s[i]
                                 \/ /\ p[1] \in Level /\ p[2] \in Slot
                                    /\ held[p] = t[BucketOn(path, p[1])][p[2]]
                                    /\ BucketOn(path, p[1]) \in Bucket
             /\ \A p \in Place : held[p] # NoBlock => held[p].path = pm[held[p].id]
             /\ \A p, q \in Place :
                  held[p] # NoBlock /\ held[q] # NoBlock /\ held[p].id = held[q].id => p = q
<1> DEFINE held == Gathered(t, s, path)
<1>1. ASSUME NEW i \in StashSlot
      PROVE  <<StashLevel, i>> \in Place /\ held[<<StashLevel, i>>] = s[i]
  BY DEF Place, Gathered
<1>2. ASSUME NEW p \in Place
      PROVE  \/ \E i \in StashSlot : p = <<StashLevel, i>> /\ held[p] = s[i]
             \/ /\ p \in Level \X Slot /\ p[1] \in Level /\ p[2] \in Slot
                /\ held[p] = t[BucketOn(path, p[1])][p[2]]
                /\ BucketOn(path, p[1]) \in Bucket
  <2>1. CASE p \in {StashLevel} \X StashSlot
    <3>1. PICK i \in StashSlot : p = <<StashLevel, i>>
      BY <2>1
    <3> QED BY <3>1, <1>1
  <2>2. CASE p \in Level \X Slot
    <3>1. p[1] \in Level /\ p[2] \in Slot /\ p[1] # StashLevel
      BY <2>2 DEF Level, StashLevel
    <3> QED BY <2>2, <3>1, BucketOnIsBucket DEF Gathered
  <2> QED BY <2>1, <2>2 DEF Place
<1>3. ASSUME NEW p \in Place PROVE held[p] \in Content
  BY <1>2 DEF Good, Typed
<1>4. held \in [Place -> Content]
  BY <1>3 DEF Gathered
<1>5. ASSUME NEW p \in Place, held[p] # NoBlock PROVE held[p].path = pm[held[p].id]
  BY <1>2, <1>5 DEF Good, PlacedInTree, PlacedInStash
<1>6. ASSUME NEW p \in Place, NEW q \in Place,
             held[p] # NoBlock, held[q] # NoBlock, held[p].id = held[q].id
      PROVE  p = q
  <2>1. CASE \E i \in StashSlot : p = <<StashLevel, i>> /\ held[p] = s[i]
    BY <1>2, <1>6, <2>1 DEF Good, OneCopy, OnceInStash, NotInBoth
  <2>2. CASE \E i \in StashSlot : q = <<StashLevel, i>> /\ held[q] = s[i]
    BY <1>2, <1>6, <2>2 DEF Good, OneCopy, OnceInStash, NotInBoth
  <2>3. CASE /\ p \in Level \X Slot /\ q \in Level \X Slot
             /\ p[1] \in Level /\ p[2] \in Slot /\ q[1] \in Level /\ q[2] \in Slot
             /\ held[p] = t[BucketOn(path, p[1])][p[2]]
             /\ held[q] = t[BucketOn(path, q[1])][q[2]]
             /\ BucketOn(path, p[1]) \in Bucket
             /\ BucketOn(path, q[1]) \in Bucket
    <3>1. BucketOn(path, p[1]) = BucketOn(path, q[1]) /\ p[2] = q[2]
      BY <1>6, <2>3 DEF Good, OneCopy, OnceInTree
    <3>2. p[1] = q[1]
      BY <2>3, <3>1, BucketOnIsBucket
    <3> QED BY <2>3, <3>1, <3>2
  <2> QED BY <1>2, <2>1, <2>2, <2>3
<1> HIDE DEF held
<1>7. /\ held \in [Place -> Content]
      /\ \A i \in StashSlot : <<StashLevel, i>> \in Place /\ held[<<StashLevel, i>>] = s[i]
      /\ \A p \in Place : \/ \E i \in StashSlot : p = <<StashLevel, i>> /\ held[p] = s[i]
                          \/ /\ p[1] \in Level /\ p[2] \in Slot
                             /\ held[p] = t[BucketOn(path, p[1])][p[2]]
                             /\ BucketOn(path, p[1]) \in Bucket
      /\ \A p \in Place : held[p] # NoBlock => held[p].path = pm[held[p].id]
      /\ \A p, q \in Place :
           held[p] # NoBlock /\ held[q] # NoBlock /\ held[p].id = held[q].id => p = q
  BY <1>1, <1>2, <1>4, <1>5, <1>6
<1> QED
  BY <1>7 DEF held

-----------------------------------------------------------------------------
LEMMA IntervalSize ==
  ASSUME NEW n \in Nat
  PROVE  IsFiniteSet(0 .. n - 1) /\ Cardinality(0 .. n - 1) = n
<1>1. 0 \in Int /\ n - 1 \in Int
  OBVIOUS
<1>2. /\ IsFiniteSet(0 .. n - 1)
      /\ Cardinality(0 .. n - 1) = IF 0 > n - 1 THEN 0 ELSE (n - 1) - 0 + 1
  BY <1>1, FS_Interval
<1> QED
  BY <1>2

(* A scan numbers the places it goes through: Precedes is a strict total   *)
(* order on them, and there are finitely many.                             *)
LEMMA PlaceFacts ==
  /\ IsFiniteSet(Place)
  /\ \A p \in Place : p = <<p[1], p[2]>> /\ p[1] \in Int /\ p[2] \in Nat
  /\ \A p \in Place : p[1] \in Level => p[2] \in Slot
  /\ \A p \in Place : p[1] # StashLevel => p[1] \in Level
<1>1. IsFiniteSet(Level) /\ IsFiniteSet(Slot) /\ IsFiniteSet(StashSlot) /\ IsFiniteSet({StashLevel})
  <2>1. Levels \in Nat /\ BlocksPerBucket \in Nat /\ StashCapacity \in Nat
    BY LevelsFacts, CapacityAssumption
  <2> QED BY <2>1, IntervalSize, FS_Singleton DEF Level, Slot, StashSlot
<1>2. IsFiniteSet(Level \X Slot) /\ IsFiniteSet({StashLevel} \X StashSlot)
  BY <1>1, FS_Product
<1>3. IsFiniteSet(Place)
  BY <1>2, FS_Union DEF Place
<1>4. ASSUME NEW p \in Place
      PROVE  /\ p = <<p[1], p[2]>> /\ p[1] \in Int /\ p[2] \in Nat
             /\ p[1] \in Level => p[2] \in Slot
             /\ p[1] # StashLevel => p[1] \in Level
  <2>1. CASE p \in Level \X Slot
    BY <2>1, LevelsFacts, CapacityAssumption DEF Level, Slot
  <2>2. CASE p \in {StashLevel} \X StashSlot
    BY <2>2, LevelsFacts, CapacityAssumption DEF StashLevel, StashSlot, Level
  <2> QED BY <2>1, <2>2 DEF Place
<1> QED
  BY <1>3, <1>4

LEMMA RankFacts ==
  ASSUME NEW S \in SUBSET Place
  PROVE  /\ \A p \in S : Rank(S, p) \in Nat
         /\ \A p, q \in S : Precedes(p, q) => Rank(S, p) < Rank(S, q)
         /\ \A p, q \in S : Rank(S, p) = Rank(S, q) => p = q
<1> DEFINE Before(p) == { q \in S : Precedes(q, p) }
<1>1. \A p \in S : IsFiniteSet(Before(p)) /\ Cardinality(Before(p)) \in Nat
                  /\ Rank(S, p) = Cardinality(Before(p))
  <2>1. IsFiniteSet(S)
    BY PlaceFacts, FS_Subset
  <2> QED BY <2>1, FS_Subset, FS_CardinalityType DEF Rank
<1>2. \A p \in S : Rank(S, p) \in Nat
  <2> HIDE DEF Before
  <2> QED BY <1>1
<1>3. ASSUME NEW p \in S, NEW q \in S, Precedes(p, q)
      PROVE  Rank(S, p) < Rank(S, q)
  <2>1. Before(p) \subseteq Before(q)
    BY <1>3, PlaceFacts DEF Precedes
  <2>2. p \in Before(q) /\ p \notin Before(p)
    BY <1>3, PlaceFacts DEF Precedes
  <2>3. Cardinality(Before(p)) <= Cardinality(Before(q))
        /\ Cardinality(Before(p)) # Cardinality(Before(q))
    <3> HIDE DEF Before
    <3> QED BY <1>1, <2>1, <2>2, FS_Subset
  <2> HIDE DEF Before
  <2> QED BY <1>1, <2>3
<1>4. ASSUME NEW p \in S, NEW q \in S, Rank(S, p) = Rank(S, q) PROVE p = q
  <2>1. p = q \/ Precedes(p, q) \/ Precedes(q, p)
    BY PlaceFacts DEF Precedes
  <2> HIDE DEF Before
  <2> QED BY <1>2, <1>3, <1>4, <2>1
<1> HIDE DEF Before
<1> QED
  BY <1>2, <1>3, <1>4

(* The numbers have no gap: if no place of a scan has number u, no place    *)
(* has a larger one.                                                        *)
LEMMA RanksWithoutGap ==
  ASSUME NEW S \in SUBSET Place, NEW u \in Nat, \A p \in S : Rank(S, p) # u
  PROVE  \A p \in S : Rank(S, p) < u
<1> DEFINE Large == { r \in Nat : r > u /\ \E p \in S : Rank(S, p) = r }
<1>1. SUFFICES ASSUME Large # {} PROVE FALSE
  <2> SUFFICES ASSUME Large = {}, NEW p \in S PROVE Rank(S, p) < u
    OBVIOUS
  <2>1. Rank(S, p) \in Nat /\ Rank(S, p) \notin Large
    BY RankFacts
  <2> QED BY <2>1
<1>2. PICK r \in Large : \A x \in Large : ~(x < r)
  <2>1. Large \subseteq Nat
    OBVIOUS
  <2> HIDE DEF Large
  <2> QED BY <1>1, <2>1, LeastElement
<1>3. PICK p \in S : Rank(S, p) = r
  BY <1>2
<1> DEFINE Before == { q \in S : Precedes(q, p) }
           number == [q \in Before |-> Rank(S, q)]
<1>4. ASSUME NEW q \in Before PROVE Rank(S, q) \in 0 .. u - 1
  <2>1. Rank(S, q) \in Nat /\ Rank(S, q) < r
    BY <1>3, RankFacts
  <2>2. Rank(S, q) \notin Large
    BY <1>2, <2>1
  <2> QED BY <2>1, <2>2
<1>5. number \in Injection(Before, 0 .. u - 1)
  <2>1. number \in [Before -> 0 .. u - 1]
    BY <1>4
  <2>2. \A x, y \in Before : number[x] = number[y] => x = y
    BY RankFacts
  <2> HIDE DEF number, Before
  <2> QED BY <2>1, <2>2 DEF Injection, IsInjective
<1>6. IsFiniteSet(0 .. u - 1) /\ Cardinality(0 .. u - 1) = u
  BY IntervalSize
<1>7. Cardinality(Before) <= u
  <2> HIDE DEF number, Before
  <2> QED BY <1>5, <1>6, FS_Injection
<1>8. Rank(S, p) = Cardinality(Before)
  BY DEF Rank
<1> QED
  <2> HIDE DEF Before
  <2> QED BY <1>2, <1>3, <1>7, <1>8

(* Of the places of a level that none follows, those before a slot are the *)
(* lower slots of the level.                                               *)
LEMMA LowestLevelChosen ==
  ASSUME NEW S \in SUBSET Place, NEW l \in Level, \A q \in S : q[1] <= l,
         NEW p \in S, p[1] = l
  PROVE  p \in Chosen(S)
<1> DEFINE Before == { q \in S : Precedes(q, p) }
           slot == [q \in Before |-> q[2]]
<1>1. p[2] \in Slot /\ p[2] \in Nat /\ p[2] < BlocksPerBucket /\ l \in Int
  BY PlaceFacts, LevelsFacts, CapacityAssumption DEF Slot, Level
<1>2. ASSUME NEW q \in Before PROVE q[1] = l /\ q[2] \in 0 .. p[2] - 1
  BY <1>1, PlaceFacts DEF Precedes
<1>3. slot \in Injection(Before, 0 .. p[2] - 1)
  <2>1. slot \in [Before -> 0 .. p[2] - 1]
    BY <1>2
  <2>2. \A x, y \in Before : slot[x] = slot[y] => x = y
    <3>1. \A x \in Before : x = <<x[1], x[2]>>
      BY PlaceFacts
    <3> HIDE DEF Before
    <3> QED BY <1>2, <3>1
  <2> HIDE DEF slot, Before
  <2> QED BY <2>1, <2>2 DEF Injection, IsInjective
<1>4. IsFiniteSet(0 .. p[2] - 1) /\ Cardinality(0 .. p[2] - 1) = p[2]
  BY <1>1, IntervalSize
<1>5. Cardinality(Before) <= p[2]
  <2> HIDE DEF slot, Before
  <2> QED BY <1>3, <1>4, FS_Injection
<1>6. Rank(S, p) = Cardinality(Before) /\ Rank(S, p) \in Nat
  BY RankFacts DEF Rank
<1>7. Rank(S, p) < BlocksPerBucket
  <2> HIDE DEF Before
  <2> QED BY <1>1, <1>5, <1>6, CapacityAssumption
<1> QED
  BY <1>7 DEF Chosen

(* What the rounds of an eviction take only grows, and every round but the *)
(* ones that chose it leaves a place alone.                                *)
LEMMA TakenFacts ==
  ASSUME NEW held, NEW path
  PROVE  LET taken == Taken(held, path)
             left(l) == Candidates(held, path, l) \ taken[Levels - 1 - l]
         IN  /\ \A l \in Level : Chosen(left(l)) \subseteq taken[Levels - l]
             /\ \A k, m \in 0 .. Levels : k <= m => taken[k] \subseteq taken[m]
             /\ \A k \in 0 .. Levels : \A p \in taken[k] :
                  \E l \in Level : Levels - l <= k /\ p \in Chosen(left(l))
<1> DEFINE X == SUBSET Place
           Round(k, earlier) == earlier \cup Chosen(Candidates(held, path, Levels - k) \ earlier)
           step == [p \in (1 .. Levels) \X X |-> Round(p[1], p[2])]
<1>1. \A k \in 1 .. Levels, x \in X : Round(k, x) \in X
  BY DEF Chosen, Candidates
<1>2. step \in [(1 .. Levels) \X X -> X] /\ {} \in X /\ Levels \in Nat
  <2> HIDE DEF X, Round
  <2>1. step \in [(1 .. Levels) \X X -> X]
    BY <1>1
  <2> QED BY <2>1, LevelsFacts DEF X
<1>3. \A k \in 1 .. Levels, x \in X : step[<<k, x>>] = Round(k, x)
  <2> HIDE DEF X, Round
  <2> QED OBVIOUS
<1>4. PICK f \in [0 .. Levels -> X] : Recursive(f, Levels, {}, step)
  <2> HIDE DEF X, step
  <2> QED BY <1>2, RecursiveFunctionExists
<1>5. f = [k \in 0 .. Levels |-> IF k = 0 THEN {} ELSE Round(k, f[k - 1])]
  <2> HIDE DEF step, X, Round
  <2>1. \A k \in 0 .. Levels : k # 0 => f[k - 1] \in X /\ k \in 1 .. Levels
    BY LevelsFacts
  <2>2. \A k \in 0 .. Levels : f[k] = IF k = 0 THEN {} ELSE Round(k, f[k - 1])
    BY <1>3, <1>4, <2>1 DEF Recursive
  <2> QED BY <2>2
<1> DEFINE taken == CHOOSE g :
             g = [k \in 0 .. Levels |-> IF k = 0 THEN {} ELSE Round(k, g[k - 1])]
<1>6. taken = [k \in 0 .. Levels |-> IF k = 0 THEN {} ELSE Round(k, taken[k - 1])]
  <2> HIDE DEF Round
  <2> QED BY <1>5
<1>7. Taken(held, path) = taken
  BY DEF Taken
<1> HIDE DEF taken
<1>8. \A k \in 1 .. Levels : taken[k] = Round(k, taken[k - 1])
  <2>1. \A k \in 0 .. Levels :
          taken[k] = IF k = 0 THEN {} ELSE Round(k, taken[k - 1])
    <3> HIDE DEF Round
    <3> QED BY <1>6
  <2>2. \A k \in 1 .. Levels : k \in 0 .. Levels /\ k # 0
    BY LevelsFacts
  <2> HIDE DEF Round
  <2> QED BY <2>1, <2>2
<1>9. \A k \in 1 .. Levels : taken[k - 1] \subseteq taken[k]
  BY <1>8
<1>10. ASSUME NEW k \in 0 .. Levels, NEW m \in 0 .. Levels, k <= m
       PROVE  taken[k] \subseteq taken[m]
  <2> DEFINE S == { j \in 0 .. Levels : k <= j => taken[k] \subseteq taken[j] }
  <2>1. 0 \in S
    BY LevelsFacts
  <2>2. ASSUME NEW j \in 0 .. Levels - 1, j \in S PROVE j + 1 \in S
    <3>1. taken[j] \subseteq taken[j + 1] /\ j + 1 \in 0 .. Levels
      BY <1>9, LevelsFacts
    <3>2. CASE k <= j
      BY <2>2, <3>1, <3>2
    <3>3. CASE ~(k <= j)
      <4>1. k <= j + 1 => k = j + 1
        BY <3>3
      <4> QED BY <3>1, <4>1
    <3> QED BY <3>2, <3>3
  <2>3. \A j \in 0 .. Levels : j \in S
    <3> HIDE DEF S
    <3> QED BY <2>1, <2>2, LevelsFacts, IntervalInduction
  <2> QED BY <1>10, <2>3
<1>11. ASSUME NEW l \in Level
       PROVE  Chosen(Candidates(held, path, l) \ taken[Levels - 1 - l]) \subseteq taken[Levels - l]
  <2>1. Levels - l \in 1 .. Levels /\ Levels - (Levels - l) = l /\ (Levels - l) - 1 = Levels - 1 - l
    BY LevelsFacts DEF Level
  <2>2. taken[Levels - l] = Round(Levels - l, taken[Levels - 1 - l])
    BY <1>8, <2>1
  <2> QED BY <2>1, <2>2
<1>12. taken[0] = {}
  <2>1. \A k \in 0 .. Levels :
          taken[k] = IF k = 0 THEN {} ELSE Round(k, taken[k - 1])
    <3> HIDE DEF Round
    <3> QED BY <1>6
  <2> HIDE DEF Round
  <2> QED BY <2>1, LevelsFacts
<1> DEFINE ByRound(k) ==
      \A p \in taken[k] : \E l \in Level : Levels - l <= k
        /\ p \in Chosen(Candidates(held, path, l) \ taken[Levels - 1 - l])
<1>13. ASSUME NEW k \in 0 .. Levels - 1, ByRound(k) PROVE ByRound(k + 1)
  <2>1. k + 1 \in 1 .. Levels /\ (k + 1) - 1 = k
    BY LevelsFacts
  <2>2. taken[k + 1] = Round(k + 1, taken[k])
    BY <1>8, <2>1
  <2> DEFINE l == Levels - (k + 1)
  <2>3. l \in Level /\ Levels - 1 - l = k /\ Levels - l <= k + 1
    BY LevelsFacts DEF Level
  <2>4. ASSUME NEW p \in taken[k + 1], p \notin taken[k]
        PROVE  p \in Chosen(Candidates(held, path, l) \ taken[Levels - 1 - l])
    BY <2>2, <2>3, <2>4
  <2>5. ASSUME NEW p \in taken[k]
        PROVE  \E m \in Level : Levels - m <= k + 1
                 /\ p \in Chosen(Candidates(held, path, m) \ taken[Levels - 1 - m])
    <3>1. PICK m \in Level : Levels - m <= k
             /\ p \in Chosen(Candidates(held, path, m) \ taken[Levels - 1 - m])
      BY <1>13
    <3>2. Levels - m <= k + 1
      BY <3>1, LevelsFacts DEF Level
    <3> QED BY <3>1, <3>2
  <2> HIDE DEF l
  <2> QED BY <2>3, <2>4, <2>5
<1>14. \A k \in 0 .. Levels : ByRound(k)
  <2> DEFINE S == { k \in 0 .. Levels : ByRound(k) }
  <2>1. 0 \in S
    <3>1. ByRound(0)
      BY <1>12
    <3> HIDE DEF ByRound
    <3> QED BY <3>1, LevelsFacts
  <2>2. ASSUME NEW k \in 0 .. Levels - 1, k \in S PROVE k + 1 \in S
    <3>1. k + 1 \in 0 .. Levels
      BY LevelsFacts
    <3> HIDE DEF ByRound
    <3> QED BY <1>13, <2>2, <3>1
  <2>3. \A k \in 0 .. Levels : k \in S
    <3> HIDE DEF S
    <3> QED BY <2>1, <2>2, LevelsFacts, IntervalInduction
  <2> HIDE DEF ByRound
  <2> QED BY <2>3
<1> QED
  BY <1>7, <1>10, <1>11, <1>14

(* Place p is where the block in slot u of the refilled bucket came from:   *)
(* it was chosen at that bucket's level, fits the bucket, and was not taken *)
(* by an earlier round.                                                     *)
FillsSlot(held, path, p, l, u) ==
  LET taken == Taken(held, path)
  IN  /\ held[p] = Refilled(held, path, taken, l)[u]
      /\ p \in Candidates(held, path, l)
      /\ BucketOn(held[p].path, l) = BucketOn(path, l)
      /\ Rank(Candidates(held, path, l) \ taken[Levels - 1 - l], p) = u
      /\ p \in taken[Levels - l]
      /\ p \notin taken[Levels - 1 - l]

LEMMA RefilledSource ==
  ASSUME NEW held, NEW path, NEW l \in Level, NEW u \in Slot,
         Refilled(held, path, Taken(held, path), l)[u] # NoBlock
  PROVE  \E p \in Place : FillsSlot(held, path, p, l, u)
<1> DEFINE taken == Taken(held, path)
           left == Candidates(held, path, l) \ taken[Levels - 1 - l]
           p == CHOOSE q \in left : Rank(left, q) = u
<1>1. \E q \in left : Rank(left, q) = u
  BY DEF Refilled
<1>2. p \in left /\ Rank(left, p) = u
  BY <1>1
<1>3. Refilled(held, path, taken, l)[u] = held[p]
  BY <1>1 DEF Refilled
<1>4. p \in Place /\ BucketOn(held[p].path, l) = BucketOn(path, l)
  BY <1>2 DEF Candidates
<1>5. u < BlocksPerBucket
  BY CapacityAssumption DEF Slot
<1>6. p \in Chosen(left)
  <2> HIDE DEF left, p
  <2> QED BY <1>2, <1>5 DEF Chosen
<1>7. Chosen(left) \subseteq taken[Levels - l]
  BY TakenFacts
<1>8. FillsSlot(held, path, p, l, u)
  <2> HIDE DEF p
  <2> QED BY <1>2, <1>3, <1>4, <1>6, <1>7 DEF FillsSlot
<1> QED
  BY <1>4, <1>8

(* Evictions keep the types, whatever is on the path.                       *)
LEMMA EvictionTyped ==
  ASSUME NEW t, NEW s, Typed(t, s), NEW path \in Path
  PROVE  Typed(EvictedTree(t, s, path), EvictedStash(t, s, path))
<1> DEFINE held == Gathered(t, s, path)
           taken == Taken(held, path)
<1>1. held \in [Place -> Content]
  <2>1. ASSUME NEW p \in Place
        PROVE  (IF p[1] = StashLevel THEN s[p[2]] ELSE t[BucketOn(path, p[1])][p[2]]) \in Content
    <3>1. CASE p[1] = StashLevel
      <4>1. p[2] \in StashSlot
        BY <3>1, LevelsFacts DEF Place, StashLevel, Level
      <4> QED BY <3>1, <4>1 DEF Typed
    <3>2. CASE p[1] # StashLevel
      <4>1. p[1] \in Level /\ p[2] \in Slot
        BY <3>2 DEF Place
      <4> QED BY <3>2, <4>1, BucketOnIsBucket DEF Typed
    <3> QED BY <3>1, <3>2
  <2> QED BY <2>1 DEF Gathered
<1> HIDE DEF held
<1>2. ASSUME NEW l \in Level PROVE Refilled(held, path, taken, l) \in [Slot -> Content]
  <2> DEFINE left == Candidates(held, path, l) \ taken[Levels - 1 - l]
  <2>1. left \subseteq Place
    BY DEF Candidates
  <2> HIDE DEF left
  <2>2. ASSUME NEW u \in Slot
        PROVE  (IF \E p \in left : Rank(left, p) = u
                THEN held[CHOOSE p \in left : Rank(left, p) = u] ELSE NoBlock) \in Content
    <3>1. CASE \E p \in left : Rank(left, p) = u
      <4> DEFINE q == CHOOSE p \in left : Rank(left, p) = u
      <4>1. q \in left
        BY <3>1
      <4> HIDE DEF q
      <4>2. held[q] \in Content
        BY <1>1, <2>1, <4>1
      <4> QED BY <3>1, <4>2 DEF q
    <3>2. CASE ~\E p \in left : Rank(left, p) = u
      BY <3>2 DEF Content
    <3> QED BY <3>1, <3>2
  <2> QED BY <2>2 DEF Refilled, left
<1>3. EvictedTree(t, s, path) \in [Bucket -> [Slot -> Content]]
  BY <1>2, BucketLevel DEF EvictedTree, Typed, held
<1>4. EvictedStash(t, s, path) \in [StashSlot -> Content]
  BY DEF EvictedStash, Typed, Content
<1> QED
  BY <1>3, <1>4 DEF Typed

(* An eviction moves blocks to buckets of their paths and copies none.     *)
LEMMA EvictionGood ==
  ASSUME NEW pm, NEW t, NEW s, Good(pm, t, s), NEW path \in Path
  PROVE  Good(pm, EvictedTree(t, s, path), EvictedStash(t, s, path))
<1> DEFINE held == Gathered(t, s, path)
           taken == Taken(held, path)
           left(l) == Candidates(held, path, l) \ taken[Levels - 1 - l]
           newTree == EvictedTree(t, s, path)
           newStash == EvictedStash(t, s, path)
           OnPath(n) == n = BucketOn(path, n[1])
           From(p, n, u) == /\ held[p] = newTree[n][u]
                            /\ BucketOn(held[p].path, n[1]) = n
                            /\ Rank(left(n[1]), p) = u
                            /\ p \in taken[Levels - n[1]]
                            /\ p \notin taken[Levels - 1 - n[1]]
<1>1. /\ held \in [Place -> Content]
      /\ \A i \in StashSlot : <<StashLevel, i>> \in Place /\ held[<<StashLevel, i>>] = s[i]
      /\ \A p \in Place : \/ \E i \in StashSlot : p = <<StashLevel, i>> /\ held[p] = s[i]
                          \/ /\ p[1] \in Level /\ p[2] \in Slot
                             /\ held[p] = t[BucketOn(path, p[1])][p[2]]
                             /\ BucketOn(path, p[1]) \in Bucket
      /\ \A p \in Place : held[p] # NoBlock => held[p].path = pm[held[p].id]
      /\ \A p, q \in Place :
           held[p] # NoBlock /\ held[q] # NoBlock /\ held[p].id = held[q].id => p = q
  BY GatheredFacts
<1>2. \A k, m \in 0 .. Levels : k <= m => taken[k] \subseteq taken[m]
  BY TakenFacts
<1>3. /\ \A n \in Bucket : ~OnPath(n) => newTree[n] = t[n]
      /\ \A i \in StashSlot : newStash[i] = NoBlock
                              \/ (newStash[i] = s[i] /\ <<StashLevel, i>> \notin taken[Levels])
  <2>1. newTree = [n \in Bucket |-> IF OnPath(n) THEN Refilled(held, path, taken, n[1]) ELSE t[n]]
    BY DEF EvictedTree
  <2>2. newStash = [i \in StashSlot |-> IF <<StashLevel, i>> \in taken[Levels] THEN NoBlock ELSE s[i]]
    BY DEF EvictedStash
  <2> HIDE DEF newTree, newStash, taken, held
  <2> QED BY <2>1, <2>2
<1>4. ASSUME NEW n \in Bucket, OnPath(n), NEW u \in Slot, newTree[n][u] # NoBlock
      PROVE  \E p \in Place : From(p, n, u)
  <2>1. n[1] \in Level
    BY BucketLevel
  <2>2. newTree[n] = Refilled(held, path, taken, n[1])
    BY <1>4 DEF EvictedTree
  <2>3. PICK p \in Place : FillsSlot(held, path, p, n[1], u)
    <3>1. Refilled(held, path, taken, n[1])[u] # NoBlock
      BY <1>4, <2>2
    <3> QED BY <2>1, <3>1, RefilledSource
  <2>4. From(p, n, u)
    BY <1>4, <2>2, <2>3 DEF FillsSlot
  <2> QED BY <2>4
<1>5. \A n \in Bucket : n[1] \in Level /\ Levels - n[1] \in 0 .. Levels /\ Levels - 1 - n[1] \in 0 .. Levels
  BY BucketLevel, LevelsFacts DEF Level
<1>6. Levels \in 0 .. Levels
  BY LevelsFacts
<1>7. /\ t \in [Bucket -> [Slot -> Content]] /\ s \in [StashSlot -> Content]
      /\ NoBlock \in Content
  BY DEF Good, Typed, Content
<1> HIDE DEF taken, left, newTree, newStash
<1>8. Typed(newTree, newStash)
  <2>1. ASSUME NEW n \in Bucket PROVE newTree[n] \in [Slot -> Content]
    <3>1. CASE OnPath(n)
      <4>1. \A u \in Slot : newTree[n][u] \in Content
        BY <1>1, <1>4, <1>7, <3>1
      <4>2. newTree[n] = Refilled(held, path, taken, n[1])
        BY <3>1 DEF newTree, EvictedTree, taken
      <4>3. newTree[n] = [u \in Slot |-> newTree[n][u]]
        BY <4>2 DEF Refilled
      <4> QED BY <4>1, <4>3
    <3>2. CASE ~OnPath(n)
      BY <1>3, <1>7, <3>2
    <3> QED BY <3>1, <3>2
  <2>2. newTree = [n \in Bucket |-> newTree[n]] /\ newStash = [i \in StashSlot |-> newStash[i]]
    BY DEF newTree, newStash, EvictedTree, EvictedStash
  <2>3. newTree \in [Bucket -> [Slot -> Content]]
    BY <2>1, <2>2
  <2>4. \A i \in StashSlot : newStash[i] \in Content
    BY <1>3, <1>7
  <2>5. newStash \in [StashSlot -> Content]
    BY <2>2, <2>4
  <2> QED BY <2>3, <2>5 DEF Typed
<1>9. PlacedInTree(pm, newTree)
  <2> SUFFICES ASSUME NEW n \in Bucket, NEW u \in Slot, newTree[n][u] # NoBlock
               PROVE  newTree[n][u].path = pm[newTree[n][u].id]
                      /\ n = BucketOn(newTree[n][u].path, n[1])
    BY DEF PlacedInTree
  <2>1. CASE OnPath(n)
    <3>1. PICK p \in Place : From(p, n, u)
      BY <1>4, <2>1
    <3> QED BY <1>1, <3>1
  <2>2. CASE ~OnPath(n)
    BY <1>3, <2>2 DEF Good, PlacedInTree
  <2> QED BY <2>1, <2>2
<1>10. PlacedInStash(pm, newStash)
  BY <1>3 DEF Good, PlacedInStash
<1>11. OnceInStash(newStash)
  BY <1>3 DEF Good, OneCopy, OnceInStash
<1>12. ASSUME NEW n \in Bucket, NEW m \in Bucket, NEW u \in Slot, NEW v \in Slot,
              newTree[n][u] # NoBlock, newTree[m][v] # NoBlock,
              newTree[n][u].id = newTree[m][v].id, OnPath(n), OnPath(m), n[1] >= m[1]
       PROVE  n = m /\ u = v
  <2>1. PICK p \in Place : From(p, n, u)
    BY <1>4, <1>12
  <2>2. PICK q \in Place : From(q, m, v)
    BY <1>4, <1>12
  <2>3. p = q
    BY <1>1, <1>12, <2>1, <2>2
  <2>4. n[1] = m[1]
    <3>1. SUFFICES ASSUME n[1] > m[1] PROVE FALSE
      BY <1>5, <1>12 DEF Level
    <3>2. Levels - n[1] <= Levels - 1 - m[1]
      BY <1>5, <3>1, LevelsFacts DEF Level
    <3>3. taken[Levels - n[1]] \subseteq taken[Levels - 1 - m[1]]
      BY <1>2, <1>5, <3>2
    <3> QED BY <2>1, <2>2, <2>3, <3>3
  <2>5. n = m
    BY <1>12, <2>4
  <2> QED BY <2>1, <2>2, <2>3, <2>5
<1>13. ASSUME NEW n \in Bucket, NEW m \in Bucket, NEW u \in Slot, NEW v \in Slot,
              newTree[n][u] # NoBlock, newTree[m][v] # NoBlock,
              newTree[n][u].id = newTree[m][v].id, OnPath(n), ~OnPath(m)
       PROVE  FALSE
  <2>1. PICK p \in Place : From(p, n, u)
    BY <1>4, <1>13
  <2>2. newTree[m][v] = t[m][v]
    BY <1>3, <1>13
  <2>3. CASE \E i \in StashSlot : p = <<StashLevel, i>> /\ held[p] = s[i]
    BY <1>13, <2>1, <2>2, <2>3 DEF Good, OneCopy, NotInBoth
  <2>4. CASE /\ p[1] \in Level /\ p[2] \in Slot
             /\ held[p] = t[BucketOn(path, p[1])][p[2]]
             /\ BucketOn(path, p[1]) \in Bucket
    <3>1. BucketOn(path, p[1]) = m
      BY <1>13, <2>1, <2>2, <2>4 DEF Good, OneCopy, OnceInTree
    <3>2. m[1] = p[1]
      BY <2>4, <3>1, BucketOnIsBucket
    <3> QED BY <1>13, <3>1, <3>2
  <2> QED BY <1>1, <2>3, <2>4
<1>14. OnceInTree(newTree)
  <2> SUFFICES ASSUME NEW n \in Bucket, NEW m \in Bucket, NEW u \in Slot, NEW v \in Slot,
                      newTree[n][u] # NoBlock, newTree[m][v] # NoBlock,
                      newTree[n][u].id = newTree[m][v].id
               PROVE  n = m /\ u = v
    BY DEF OnceInTree
  <2>1. CASE OnPath(n) /\ OnPath(m)
    <3>1. n[1] >= m[1] \/ m[1] >= n[1]
      BY <1>5 DEF Level
    <3> QED BY <1>12, <2>1, <3>1
  <2>2. CASE ~OnPath(n) /\ ~OnPath(m)
    BY <1>3, <2>2 DEF Good, OneCopy, OnceInTree
  <2> QED BY <1>13, <2>1, <2>2
<1>15. NotInBoth(newTree, newStash)
  <2> SUFFICES ASSUME NEW n \in Bucket, NEW u \in Slot, NEW i \in StashSlot,
                      newTree[n][u] # NoBlock, newStash[i] # NoBlock,
                      newTree[n][u].id = newStash[i].id
               PROVE  FALSE
    BY DEF NotInBoth
  <2>1. newStash[i] = s[i] /\ <<StashLevel, i>> \notin taken[Levels]
    BY <1>3
  <2>2. CASE OnPath(n)
    <3>1. PICK p \in Place : From(p, n, u)
      BY <1>4, <2>2
    <3>2. p = <<StashLevel, i>>
      BY <1>1, <2>1, <3>1
    <3>3. taken[Levels - n[1]] \subseteq taken[Levels]
      BY <1>2, <1>5, <1>6, LevelsFacts DEF Level
    <3> QED BY <2>1, <3>1, <3>2, <3>3
  <2>3. CASE ~OnPath(n)
    BY <1>3, <2>1, <2>3 DEF Good, OneCopy, NotInBoth
  <2> QED BY <2>2, <2>3
<1> QED
  BY <1>8, <1>9, <1>10, <1>11, <1>14, <1>15 DEF Good, OneCopy, newTree, newStash

-----------------------------------------------------------------------------
(* The candidates of a round that no earlier round has taken.              *)
Left(held, path, l) == Candidates(held, path, l) \ Taken(held, path)[Levels - 1 - l]

(* A place that a round chooses has a slot in the bucket of that round.    *)
LEMMA ChosenLands ==
  ASSUME NEW held, NEW path, NEW l \in Level, NEW p,
         p \in Chosen(Left(held, path, l))
  PROVE  \E u \in Slot : Refilled(held, path, Taken(held, path), l)[u] = held[p]
<1> USE DEF Left
<1> DEFINE left == Left(held, path, l)
           u == Rank(left, p)
           q == CHOOSE x \in left : Rank(left, x) = u
<1>1. left \in SUBSET Place
  BY DEF Candidates
<1>2. p \in left /\ u < BlocksPerBucket
  BY DEF Chosen
<1>3. u \in Nat
  <2> HIDE DEF left
  <2> QED BY <1>1, <1>2, RankFacts
<1>4. u \in Slot
  BY <1>2, <1>3, CapacityAssumption DEF Slot
<1>5. q \in left /\ Rank(left, q) = u
  BY <1>2
<1>6. q = p
  <2> HIDE DEF left, q
  <2> QED BY <1>1, <1>2, <1>5, RankFacts
<1>7. Refilled(held, path, Taken(held, path), l)[u] = held[q]
  BY <1>2, <1>4 DEF Refilled
<1> HIDE DEF u, q
<1> QED
  BY <1>4, <1>6, <1>7

(* A slot that a round leaves free: the round had room for every candidate. *)
LEMMA FreeSlotTakesAll ==
  ASSUME NEW held, NEW path, NEW l \in Level, NEW u \in Slot,
         Refilled(held, path, Taken(held, path), l)[u] = NoBlock
  PROVE  Candidates(held, path, l) \subseteq Taken(held, path)[Levels - l]
<1> DEFINE taken == Taken(held, path)
           left == Candidates(held, path, l) \ taken[Levels - 1 - l]
           q == CHOOSE x \in left : Rank(left, x) = u
<1>1. left \in SUBSET Place /\ \A p \in left : held[p] # NoBlock
  BY DEF Candidates
<1>2. \A p \in left : Rank(left, p) # u
  <2> SUFFICES ASSUME \E p \in left : Rank(left, p) = u PROVE FALSE
    OBVIOUS
  <2>1. q \in left
    <3> HIDE DEF left
    <3> QED OBVIOUS
  <2>2. Refilled(held, path, taken, l)[u] = held[q]
    BY DEF Refilled
  <2> HIDE DEF left, q
  <2> QED BY <1>1, <2>1, <2>2
<1>3. u \in Nat /\ u < BlocksPerBucket
  BY CapacityAssumption DEF Slot
<1>4. \A p \in left : Rank(left, p) < u /\ Rank(left, p) \in Nat
  <2> HIDE DEF left
  <2> QED BY <1>1, <1>2, <1>3, RanksWithoutGap, RankFacts
<1>5. \A p \in left : p \in Chosen(left)
  <2>1. \A p \in left : Rank(left, p) < BlocksPerBucket
    <3> HIDE DEF left
    <3> QED BY <1>3, <1>4, CapacityAssumption
  <2> HIDE DEF left
  <2> QED BY <2>1 DEF Chosen
<1>6. Chosen(left) \subseteq taken[Levels - l]
  BY TakenFacts
<1>7. taken[Levels - 1 - l] \subseteq taken[Levels - l]
  <2>1. Levels - 1 - l \in 0 .. Levels /\ Levels - l \in 0 .. Levels /\ Levels - 1 - l <= Levels - l
    BY LevelsFacts DEF Level
  <2> QED BY <2>1, TakenFacts
<1>8. \A p \in Candidates(held, path, l) : p \in taken[Levels - 1 - l] \/ p \in left
  OBVIOUS
<1>9. Candidates(held, path, l) \subseteq taken[Levels - l]
  <2> HIDE DEF taken, left
  <2> QED BY <1>5, <1>6, <1>7, <1>8
<1> QED
  BY <1>9

(* The block c is stored, in the tree t or in the stash s, as block b.     *)
Stores(t, s, b, c) ==
  /\ c # NoBlock /\ c.id = b
  /\ \/ \E n \in Bucket, u \in Slot : t[n][u] = c
     \/ \E i \in StashSlot : s[i] = c

(* An eviction loses no block: what the path held is taken at its own      *)
(* level at the latest, since no place of a level follows those below it,  *)
(* and what is taken lands in a bucket.                                    *)
LEMMA EvictionKeeps ==
  ASSUME NEW pm, NEW t, NEW s, Good(pm, t, s), NEW path \in Path, NEW b, NEW c
  PROVE  Stores(EvictedTree(t, s, path), EvictedStash(t, s, path), b, c) <=> Stores(t, s, b, c)
<1> DEFINE held == Gathered(t, s, path)
           taken == Taken(held, path)
           newTree == EvictedTree(t, s, path)
           newStash == EvictedStash(t, s, path)
           OnPath(n) == n = BucketOn(path, n[1])
<1>1. /\ held \in [Place -> Content]
      /\ \A i \in StashSlot : <<StashLevel, i>> \in Place /\ held[<<StashLevel, i>>] = s[i]
      /\ \A p \in Place : \/ \E i \in StashSlot : p = <<StashLevel, i>> /\ held[p] = s[i]
                          \/ /\ p[1] \in Level /\ p[2] \in Slot
                             /\ held[p] = t[BucketOn(path, p[1])][p[2]]
                             /\ BucketOn(path, p[1]) \in Bucket
  BY GatheredFacts
<1>2. /\ \A l \in Level :
           Chosen(Candidates(held, path, l) \ taken[Levels - 1 - l]) \subseteq taken[Levels - l]
      /\ \A k, m \in 0 .. Levels : k <= m => taken[k] \subseteq taken[m]
      /\ \A k \in 0 .. Levels : \A p \in taken[k] :
           \E l \in Level : Levels - l <= k
             /\ p \in Chosen(Candidates(held, path, l) \ taken[Levels - 1 - l])
  BY TakenFacts
<1>3. \A n \in Bucket : n[1] \in Level
        /\ newTree[n] = IF OnPath(n) THEN Refilled(held, path, taken, n[1]) ELSE t[n]
  BY BucketLevel DEF EvictedTree
<1>4. \A i \in StashSlot :
        newStash[i] = IF <<StashLevel, i>> \in taken[Levels] THEN NoBlock ELSE s[i]
  BY DEF EvictedStash
<1>5. ASSUME NEW p \in taken[Levels]
      PROVE  \E n \in Bucket, u \in Slot : newTree[n][u] = held[p]
  <2>1. PICK l \in Level : p \in Chosen(Candidates(held, path, l) \ taken[Levels - 1 - l])
    <3>1. Levels \in 0 .. Levels
      BY LevelsFacts
    <3> QED BY <1>2, <3>1
  <2>2. PICK u \in Slot : Refilled(held, path, taken, l)[u] = held[p]
    <3>1. p \in Chosen(Left(held, path, l))
      BY <2>1 DEF Left
    <3> QED BY <3>1, ChosenLands
  <2>3. BucketOn(path, l) \in Bucket /\ BucketOn(path, l)[1] = l
    BY BucketOnIsBucket
  <2>4. newTree[BucketOn(path, l)] = Refilled(held, path, taken, l)
    <3> HIDE DEF newTree, taken, held
    <3> QED BY <1>3, <2>3
  <2> QED BY <2>2, <2>3, <2>4
<1>6. ASSUME NEW p \in Place, p[1] \in Level, held[p] # NoBlock
      PROVE  p \in taken[Levels]
  <2> DEFINE l == p[1]
             left == Candidates(held, path, l) \ taken[Levels - 1 - l]
  <2>1. /\ Levels - 1 - l \in 0 .. Levels /\ Levels - l \in 0 .. Levels /\ Levels \in 0 .. Levels
        /\ Levels - 1 - l <= Levels /\ Levels - l <= Levels /\ l # StashLevel /\ l <= l
    BY <1>6, LevelsFacts DEF Level, StashLevel
  <2>2. CASE p \in taken[Levels - 1 - l]
    <3> HIDE DEF taken, l
    <3> QED BY <1>2, <2>1, <2>2
  <2>3. CASE p \notin taken[Levels - 1 - l]
    <3>1. p[2] \in Slot /\ BucketOn(path, l) \in Bucket /\ BucketOn(path, l)[1] = l
          /\ held[p] = t[BucketOn(path, l)][p[2]]
      <4>1. ~ \E i \in StashSlot : p = <<StashLevel, i>>
        BY <2>1
      <4> QED BY <1>1, <1>6, <4>1, BucketOnIsBucket
    <3>2. BucketOn(held[p].path, l) = BucketOn(path, l)
      <4> HIDE DEF held, l
      <4> QED BY <1>6, <3>1 DEF Good, PlacedInTree
    <3>3. p \in left
      BY <1>6, <2>1, <2>3, <3>2 DEF Candidates
    <3>4. left \in SUBSET Place /\ \A q \in left : q[1] <= l
      BY DEF Candidates
    <3>5. p \in Chosen(left)
      <4> HIDE DEF left
      <4> QED BY <1>6, <3>3, <3>4, LowestLevelChosen
    <3> HIDE DEF taken, l
    <3> QED BY <1>2, <1>6, <2>1, <3>5 DEF l
  <2> QED BY <2>2, <2>3
<1> HIDE DEF taken, newTree, newStash
<1>7. ASSUME Stores(newTree, newStash, b, c) PROVE Stores(t, s, b, c)
  <2>1. CASE \E n \in Bucket, u \in Slot : newTree[n][u] = c
    <3>1. PICK n \in Bucket, u \in Slot : newTree[n][u] = c
      BY <2>1
    <3>2. CASE OnPath(n)
      <4>1. Refilled(held, path, Taken(held, path), n[1])[u] # NoBlock
        BY <1>3, <1>7, <3>1, <3>2 DEF Stores, taken
      <4>2. PICK p \in Place : FillsSlot(held, path, p, n[1], u)
        BY <1>3, <4>1, RefilledSource
      <4>3. held[p] = c
        BY <1>3, <3>1, <3>2, <4>2 DEF FillsSlot, taken
      <4> HIDE DEF held
      <4> QED BY <1>1, <1>7, <4>3 DEF Stores
    <3>3. CASE ~OnPath(n)
      BY <1>3, <1>7, <3>1, <3>3 DEF Stores
    <3> QED BY <3>2, <3>3
  <2>2. CASE \E i \in StashSlot : newStash[i] = c
    BY <1>4, <1>7, <2>2 DEF Stores
  <2> QED BY <1>7, <2>1, <2>2 DEF Stores
<1>8. ASSUME Stores(t, s, b, c) PROVE Stores(newTree, newStash, b, c)
  <2>1. ASSUME NEW p \in Place, held[p] = c, p \in taken[Levels]
        PROVE  Stores(newTree, newStash, b, c)
    BY <1>5, <1>8, <2>1 DEF Stores
  <2>2. CASE \E n \in Bucket, u \in Slot : t[n][u] = c
    <3>1. PICK n \in Bucket, u \in Slot : t[n][u] = c
      BY <2>2
    <3>2. CASE OnPath(n)
      <4>1. <<n[1], u>> \in Place /\ <<n[1], u>>[1] # StashLevel
        BY <1>3, LevelsFacts DEF Place, Level, StashLevel
      <4>2. held[<<n[1], u>>] = c
        BY <3>1, <3>2, <4>1 DEF Gathered
      <4> HIDE DEF held
      <4> QED BY <1>3, <1>6, <1>8, <2>1, <4>1, <4>2 DEF Stores
    <3>3. CASE ~OnPath(n)
      BY <1>3, <1>8, <3>1, <3>3 DEF Stores
    <3> QED BY <3>2, <3>3
  <2>3. CASE \E i \in StashSlot : s[i] = c
    <3>1. PICK i \in StashSlot : s[i] = c
      BY <2>3
    <3>2. <<StashLevel, i>> \in Place /\ held[<<StashLevel, i>>] = c
      BY <1>1, <3>1
    <3> HIDE DEF held
    <3> QED BY <1>4, <1>8, <2>1, <3>1, <3>2 DEF Stores
  <2> QED BY <1>8, <2>2, <2>3 DEF Stores
<1> QED
  BY <1>7, <1>8 DEF newTree, newStash

(* An eviction is greedy from the leaf up: it leaves a slot of a bucket     *)
(* free only if no block of the new stash, and none of a bucket above it on *)
(* the path, could have gone there.                                         *)
PacksWell(path, t, s) ==
  \A l \in Level :
    (\E u \in Slot : t[BucketOn(path, l)][u] = NoBlock) =>
      /\ \A i \in StashSlot :
           s[i] # NoBlock => BucketOn(s[i].path, l) # BucketOn(path, l)
      /\ \A k \in 0 .. l - 1, u \in Slot :
           LET c == t[BucketOn(path, k)][u]
           IN  c # NoBlock => BucketOn(c.path, l) # BucketOn(path, l)

LEMMA EvictionPacks ==
  ASSUME NEW pm, NEW t, NEW s, Good(pm, t, s), NEW path \in Path
  PROVE  PacksWell(path, EvictedTree(t, s, path), EvictedStash(t, s, path))
<1> DEFINE held == Gathered(t, s, path)
           taken == Taken(held, path)
           newTree == EvictedTree(t, s, path)
           newStash == EvictedStash(t, s, path)
<1>1. \A i \in StashSlot : <<StashLevel, i>> \in Place /\ held[<<StashLevel, i>>] = s[i]
  BY GatheredFacts
<1>2. \A k, m \in 0 .. Levels : k <= m => taken[k] \subseteq taken[m]
  BY TakenFacts
<1>3. \A l \in Level : newTree[BucketOn(path, l)] = Refilled(held, path, taken, l)
  BY BucketOnIsBucket DEF EvictedTree
<1>4. \A i \in StashSlot :
        newStash[i] = IF <<StashLevel, i>> \in taken[Levels] THEN NoBlock ELSE s[i]
  BY DEF EvictedStash
<1> SUFFICES ASSUME NEW l \in Level, NEW free \in Slot,
                    newTree[BucketOn(path, l)][free] = NoBlock
             PROVE  /\ \A i \in StashSlot : newStash[i] # NoBlock =>
                         BucketOn(newStash[i].path, l) # BucketOn(path, l)
                    /\ \A k \in 0 .. l - 1, u \in Slot :
                         LET c == newTree[BucketOn(path, k)][u]
                         IN  c # NoBlock => BucketOn(c.path, l) # BucketOn(path, l)
  BY DEF PacksWell
<1>5. Candidates(held, path, l) \subseteq taken[Levels - l]
  <2>1. Refilled(held, path, Taken(held, path), l)[free] = NoBlock
    BY <1>3
  <2> QED BY <2>1, FreeSlotTakesAll
<1>6. l \in Nat /\ Levels - l \in 0 .. Levels /\ Levels \in 0 .. Levels /\ Levels - l <= Levels
  BY LevelsFacts DEF Level
<1> HIDE DEF taken, newTree, newStash
<1>7. ASSUME NEW i \in StashSlot, newStash[i] # NoBlock,
             BucketOn(newStash[i].path, l) = BucketOn(path, l)
      PROVE  FALSE
  <2>1. newStash[i] = s[i] /\ <<StashLevel, i>> \notin taken[Levels]
    BY <1>4, <1>7
  <2>2. <<StashLevel, i>> \in Candidates(held, path, l)
    <3>1. <<StashLevel, i>>[1] <= l
      BY <1>6 DEF StashLevel
    <3> HIDE DEF held
    <3> QED BY <1>1, <1>7, <2>1, <3>1 DEF Candidates
  <2> QED BY <1>2, <1>5, <1>6, <2>1, <2>2
<1>8. ASSUME NEW k \in 0 .. l - 1, NEW u \in Slot, newTree[BucketOn(path, k)][u] # NoBlock,
             BucketOn(newTree[BucketOn(path, k)][u].path, l) = BucketOn(path, l)
      PROVE  FALSE
  <2>1. k \in Level /\ k < l /\ Levels - 1 - k \in 0 .. Levels /\ Levels - l <= Levels - 1 - k
    BY <1>6, LevelsFacts DEF Level
  <2>2. newTree[BucketOn(path, k)][u] = Refilled(held, path, Taken(held, path), k)[u]
    BY <1>3, <2>1 DEF taken
  <2>3. PICK p \in Place : FillsSlot(held, path, p, k, u)
    <3> HIDE DEF held
    <3> QED BY <1>8, <2>1, <2>2, RefilledSource
  <2>4. /\ held[p] = newTree[BucketOn(path, k)][u] /\ p \in Candidates(held, path, k)
        /\ p \notin taken[Levels - 1 - k]
    BY <2>2, <2>3 DEF FillsSlot, taken
  <2>5. p[1] \in Int /\ p[1] <= k
    BY <2>4, PlaceFacts DEF Candidates
  <2>6. p \in Candidates(held, path, l)
    <3>1. p[1] <= l
      BY <1>6, <2>1, <2>5
    <3> HIDE DEF held
    <3> QED BY <1>8, <2>4, <3>1 DEF Candidates
  <2>7. taken[Levels - l] \subseteq taken[Levels - 1 - k]
    BY <1>2, <1>6, <2>1
  <2> QED BY <1>5, <2>4, <2>6, <2>7
<1> QED
  BY <1>7, <1>8

-----------------------------------------------------------------------------
(* A block that is nowhere may be given any path.                          *)
LEMMA RemapGood ==
  ASSUME NEW pm \in [Block -> Path], NEW t, NEW s, NEW b \in Block, NEW newPath \in Path,
         Good(pm, t, s), Lacks(t, s, b)
  PROVE  Good([pm EXCEPT ![b] = newPath], t, s)
<1> DEFINE new == [pm EXCEPT ![b] = newPath]
<1>1. \A a \in Block : a # b => new[a] = pm[a]
  OBVIOUS
<1>2. \A n \in Bucket, u \in Slot : t[n][u] # NoBlock => t[n][u].id \in Block
  BY EntryFields DEF Good, Typed
<1>3. \A i \in StashSlot : s[i] # NoBlock => s[i].id \in Block
  BY EntryFields DEF Good, Typed
<1> HIDE DEF new
<1>4. PlacedInTree(new, t)
  BY <1>1, <1>2 DEF Good, Lacks, PlacedInTree
<1>5. PlacedInStash(new, s)
  BY <1>1, <1>3 DEF Good, Lacks, PlacedInStash
<1> QED
  BY <1>4, <1>5 DEF Good, new

(* Adding a block that is nowhere to a free slot of the stash.              *)
LEMMA AdditionGood ==
  ASSUME NEW pm, NEW t, NEW s, Good(pm, t, s),
         NEW c \in Content, NEW i \in StashSlot, s[i] = NoBlock,
         c # NoBlock => c.path = pm[c.id] /\ Lacks(t, s, c.id)
  PROVE  Good(pm, t, [s EXCEPT ![i] = c])
<1> DEFINE added == [s EXCEPT ![i] = c]
<1>1. s \in [StashSlot -> Content]
  BY DEF Good, Typed
<1>2. added \in [StashSlot -> Content] /\ added[i] = c
      /\ \A j \in StashSlot : j # i => added[j] = s[j]
  BY <1>1
<1> HIDE DEF added
<1>3. Typed(t, added)
  BY <1>2 DEF Good, Typed
<1>4. PlacedInStash(pm, added)
  BY <1>2 DEF Good, PlacedInStash
<1>5. OnceInStash(added)
  BY <1>2 DEF Good, OneCopy, OnceInStash, Lacks
<1>6. NotInBoth(t, added)
  BY <1>2 DEF Good, OneCopy, NotInBoth, Lacks
<1> QED
  BY <1>3, <1>4, <1>5, <1>6 DEF Good, OneCopy, added

(* Taking a block out clears its only copy, wherever it is: a copy in the   *)
(* tree lies on the path the position map names, which is the one searched. *)
LEMMA ErasureGood ==
  ASSUME NEW pm \in [Block -> Path], NEW t, NEW s, Good(pm, t, s), NEW b \in Block
  PROVE  /\ Good(pm, ErasedTree(t, s, pm[b], b), ErasedStash(s, b))
         /\ Lacks(ErasedTree(t, s, pm[b], b), ErasedStash(s, b), b)
<1> DEFINE newTree == ErasedTree(t, s, pm[b], b)
           newStash == ErasedStash(s, b)
<1>1. \A i \in StashSlot : /\ newStash[i] = s[i] \/ newStash[i] = NoBlock
                           /\ newStash[i] # NoBlock => newStash[i].id # b
  BY DEF ErasedStash, Holds
<1>2. \A n \in Bucket, u \in Slot : newTree[n][u] = t[n][u] \/ newTree[n][u] = NoBlock
  BY DEF ErasedTree
<1>3. ASSUME NEW n \in Bucket, NEW u \in Slot, newTree[n][u] # NoBlock
      PROVE  newTree[n][u].id # b
  <2>1. SUFFICES ASSUME t[n][u] # NoBlock, t[n][u].id = b, newTree[n][u] = t[n][u]
                 PROVE  FALSE
    BY <1>2, <1>3
  <2>2. \A i \in StashSlot : ~Holds(s[i], b)
    BY <2>1 DEF Good, OneCopy, NotInBoth, Holds
  <2>3. n = BucketOn(pm[b], n[1])
    BY <2>1 DEF Good, PlacedInTree
  <2> QED BY <1>3, <2>1, <2>2, <2>3 DEF ErasedTree, Holds
<1>4. Typed(newTree, newStash)
  <2>1. t \in [Bucket -> [Slot -> Content]] /\ s \in [StashSlot -> Content]
        /\ NoBlock \in Content
    BY DEF Good, Typed, Content
  <2>2. newStash \in [StashSlot -> Content]
    BY <2>1 DEF ErasedStash
  <2>3. newTree \in [Bucket -> [Slot -> Content]]
    BY <2>1 DEF ErasedTree
  <2> QED BY <2>2, <2>3 DEF Typed
<1> HIDE DEF newTree, newStash
<1>5. PlacedInTree(pm, newTree) /\ PlacedInStash(pm, newStash)
  BY <1>1, <1>2 DEF Good, PlacedInTree, PlacedInStash
<1>6. OnceInStash(newStash)
  BY <1>1 DEF Good, OneCopy, OnceInStash
<1>7. OnceInTree(newTree)
  BY <1>2 DEF Good, OneCopy, OnceInTree
<1>8. NotInBoth(newTree, newStash)
  BY <1>1, <1>2 DEF Good, OneCopy, NotInBoth
<1>9. Lacks(newTree, newStash, b)
  BY <1>1, <1>3 DEF Lacks
<1> QED
  BY <1>4, <1>5, <1>6, <1>7, <1>8, <1>9 DEF Good, OneCopy, newTree, newStash

-----------------------------------------------------------------------------
(* What is stored, whichever the place: the contents an ORAM shows to its   *)
(* client follow from it.                                                   *)
LEMMA StoredOnce ==
  ASSUME NEW t, NEW s, Typed(t, s), OneCopy(t, s), NEW b, NEW c, NEW d,
         Stores(t, s, b, c), Stores(t, s, b, d)
  PROVE  c = d /\ c \in Entry /\ c.id = b
<1>1. c = d
  BY DEF OneCopy, OnceInStash, OnceInTree, NotInBoth, Stores
<1>2. c \in Content
  BY DEF Typed, Stores
<1> QED
  BY <1>1, <1>2, EntryFields DEF Stores

LEMMA LacksStores ==
  ASSUME NEW t, NEW s, NEW b
  PROVE  Lacks(t, s, b) <=> \A c : ~Stores(t, s, b, c)
BY DEF Lacks, Stores

LEMMA ErasureStores ==
  ASSUME NEW t, NEW s, NEW path, NEW b, NEW a, a # b, NEW c
  PROVE  Stores(ErasedTree(t, s, path, b), ErasedStash(s, b), a, c) <=> Stores(t, s, a, c)
<1> DEFINE newTree == ErasedTree(t, s, path, b)
           newStash == ErasedStash(s, b)
<1>1. ASSUME NEW n \in Bucket, NEW u \in Slot
      PROVE  newTree[n][u] = t[n][u] \/ (newTree[n][u] = NoBlock /\ t[n][u].id = b)
  BY DEF ErasedTree, Holds
<1>2. ASSUME NEW i \in StashSlot
      PROVE  newStash[i] = s[i] \/ (newStash[i] = NoBlock /\ s[i].id = b)
  BY DEF ErasedStash, Holds
<1> HIDE DEF newTree, newStash
<1>3. Stores(newTree, newStash, a, c) <=> Stores(t, s, a, c)
  BY <1>1, <1>2 DEF Stores
<1> QED
  BY <1>3 DEF newTree, newStash

LEMMA AdditionStores ==
  ASSUME NEW t, NEW s, NEW i \in StashSlot, s[i] = NoBlock, NEW c, NEW added,
         added[i] = c, \A j \in StashSlot : j # i => added[j] = s[j]
  PROVE  \A a, d : Stores(t, added, a, d)
                     <=> Stores(t, s, a, d) \/ (c # NoBlock /\ c.id = a /\ d = c)
BY DEF Stores

LEMMA EntryAdded ==
  ASSUME NEW pm, NEW t, NEW s, Good(pm, t, s),
         NEW c \in Entry, c.path = pm[c.id], Lacks(t, s, c.id),
         NEW i \in StashSlot, s[i] = NoBlock, NEW added \in [StashSlot -> Content],
         added[i] = c, \A j \in StashSlot : j # i => added[j] = s[j]
  PROVE  /\ Good(pm, t, added)
         /\ Stores(t, added, c.id, c)
         /\ \A a, d : a # c.id => (Stores(t, added, a, d) <=> Stores(t, s, a, d))
<1>1. c \in Content /\ c # NoBlock /\ s \in [StashSlot -> Content]
  BY NoBlockAssumption DEF Content, Good, Typed
<1>2. Good(pm, t, added)
  <2>1. Good(pm, t, [s EXCEPT ![i] = c])
    BY <1>1, AdditionGood
  <2>2. added = [s EXCEPT ![i] = c]
    BY <1>1
  <2> QED BY <2>1, <2>2
<1>3. \A a, d : Stores(t, added, a, d)
                  <=> Stores(t, s, a, d) \/ (c # NoBlock /\ c.id = a /\ d = c)
  BY AdditionStores
<1> QED
  BY <1>1, <1>2, <1>3

(* The payload stored for a block, NoBlock where there is none.             *)
ValueOf(t, s, b) ==
  IF \E c \in Entry : Stores(t, s, b, c)
  THEN (CHOOSE c \in Entry : Stores(t, s, b, c)).data
  ELSE NoBlock

LEMMA StoredValue ==
  ASSUME NEW t, NEW s, Typed(t, s), OneCopy(t, s), NEW b
  PROVE  /\ \A c : Stores(t, s, b, c) => ValueOf(t, s, b) = c.data /\ c.data \in Value
         /\ (\A c : ~Stores(t, s, b, c)) => ValueOf(t, s, b) = NoBlock
         /\ ValueOf(t, s, b) \in Value \cup {NoBlock}
<1> DEFINE d == CHOOSE c \in Entry : Stores(t, s, b, c)
<1>1. ASSUME NEW c, Stores(t, s, b, c)
      PROVE  ValueOf(t, s, b) = c.data /\ c.data \in Value
  <2>1. c \in Entry
    BY <1>1, StoredOnce
  <2>2. d \in Entry /\ Stores(t, s, b, d)
    BY <1>1, <2>1
  <2>3. ValueOf(t, s, b) = d.data
    BY <1>1, <2>1 DEF ValueOf
  <2> HIDE DEF d
  <2>4. c = d
    BY <1>1, <2>2, StoredOnce
  <2> QED BY <2>1, <2>3, <2>4 DEF Entry
<1>2. ASSUME \A c : ~Stores(t, s, b, c) PROVE ValueOf(t, s, b) = NoBlock
  BY <1>2 DEF ValueOf
<1> QED
  BY <1>1, <1>2

(* Two trees and stashes that store the same block have the same payload.   *)
LEMMA SameValue ==
  ASSUME NEW t, NEW s, Typed(t, s), OneCopy(t, s), NEW newTree, NEW newStash,
         Typed(newTree, newStash), OneCopy(newTree, newStash), NEW b,
         \A c : Stores(newTree, newStash, b, c) <=> Stores(t, s, b, c)
  PROVE  ValueOf(newTree, newStash, b) = ValueOf(t, s, b)
<1>1. CASE \E c : Stores(t, s, b, c)
  <2>1. PICK c : Stores(t, s, b, c)
    BY <1>1
  <2> QED BY <2>1, StoredValue
<1>2. CASE \A c : ~Stores(t, s, b, c)
  BY <1>2, StoredValue
<1> QED
  BY <1>1, <1>2

-----------------------------------------------------------------------------
(* The search for block b on a path, and the hit that is copied last when   *)
(* the path is gone through from the root down.                             *)
Hits(t, path, b) == { p \in Level \X Slot : Holds(t[BucketOn(path, p[1])][p[2]], b) }

LastOf(hits) ==
  CHOOSE p \in hits : \A q \in hits : q[1] < p[1] \/ (q[1] = p[1] /\ q[2] <= p[2])

(* Of several hits there is a last one.                                     *)
LEMMA LastHit ==
  ASSUME NEW hits \in SUBSET (Level \X Slot), hits # {}
  PROVE  LastOf(hits) \in hits
<1>1. \A p \in hits : p[1] \in Int /\ p[1] <= Levels - 1 /\ p[2] \in Int /\ p[2] < BlocksPerBucket
  BY LevelsFacts, CapacityAssumption DEF Level, Slot
<1> DEFINE depths == { d \in Nat : \E p \in hits : p[1] = Levels - 1 - d }
<1>2. PICK d \in depths : \A c \in depths : ~(c < d)
  <2>1. depths # {}
    <3>1. PICK p \in hits : TRUE
      OBVIOUS
    <3>2. Levels - 1 - p[1] \in Nat /\ p[1] = Levels - 1 - (Levels - 1 - p[1])
      BY <1>1, LevelsFacts
    <3> QED BY <3>2
  <2>2. depths \subseteq Nat
    OBVIOUS
  <2> HIDE DEF depths
  <2> QED BY <2>1, <2>2, LeastElement
<1> DEFINE l == Levels - 1 - d
           tails == { e \in Nat : \E p \in hits : p[1] = l /\ p[2] = BlocksPerBucket - e }
<1>3. l \in Int /\ \A p \in hits : p[1] <= l
  <2>1. d \in Nat
    BY <1>2
  <2>2. ASSUME NEW p \in hits PROVE p[1] <= l
    <3>1. Levels - 1 - p[1] \in Nat /\ p[1] = Levels - 1 - (Levels - 1 - p[1])
      BY <1>1, LevelsFacts
    <3>2. Levels - 1 - p[1] \in depths
      BY <3>1
    <3>3. ~(Levels - 1 - p[1] < d)
      BY <1>2, <3>2
    <3> HIDE DEF depths
    <3> QED BY <1>1, <2>1, <3>1, <3>3, LevelsFacts
  <2> QED BY <2>1, <2>2, LevelsFacts
<1>4. PICK e \in tails : \A c \in tails : ~(c < e)
  <2>1. tails # {}
    <3>1. PICK p \in hits : p[1] = l
      BY <1>2
    <3>2. BlocksPerBucket - p[2] \in Nat /\ p[2] = BlocksPerBucket - (BlocksPerBucket - p[2])
      BY <1>1, CapacityAssumption
    <3> QED BY <3>1, <3>2
  <2>2. tails \subseteq Nat
    OBVIOUS
  <2> HIDE DEF tails
  <2> QED BY <2>1, <2>2, LeastElement
<1>5. PICK p \in hits : p[1] = l /\ p[2] = BlocksPerBucket - e
  BY <1>4
<1>6. ASSUME NEW q \in hits PROVE q[1] < p[1] \/ (q[1] = p[1] /\ q[2] <= p[2])
  <2>1. CASE q[1] = l
    <3>1. BlocksPerBucket - q[2] \in Nat /\ q[2] = BlocksPerBucket - (BlocksPerBucket - q[2])
      BY <1>1, CapacityAssumption
    <3>2. BlocksPerBucket - q[2] \in tails
      BY <2>1, <3>1
    <3>3. ~(BlocksPerBucket - q[2] < e) /\ e \in Nat
      BY <1>4, <3>2
    <3>4. q[2] <= BlocksPerBucket - e
      BY <1>1, <3>1, <3>3, CapacityAssumption
    <3> QED BY <1>5, <2>1, <3>4
  <2>2. CASE q[1] # l
    <3>1. q[1] <= l /\ q[1] \in Int
      BY <1>1, <1>3
    <3> HIDE DEF l
    <3> QED BY <1>3, <1>5, <2>2, <3>1
  <2> QED BY <2>1, <2>2
<1> QED
  BY <1>5, <1>6 DEF LastOf

(* Where no block is stored twice, a search has one hit at most.            *)
LEMMA PathSearched ==
  ASSUME NEW t, NEW s, Typed(t, s), OneCopy(t, s), NEW path \in Path, NEW b
  PROVE  /\ \A p \in Hits(t, path, b) : Stores(t, s, b, t[BucketOn(path, p[1])][p[2]])
         /\ \A p, q \in Hits(t, path, b) : p = q
         /\ Hits(t, path, b) # {} => LastOf(Hits(t, path, b)) \in Hits(t, path, b)
<1> DEFINE hits == Hits(t, path, b)
           last == LastOf(hits)
<1>1. ASSUME NEW p \in hits
      PROVE  /\ p \in Level \X Slot /\ p[1] \in Level /\ p[2] \in Slot
             /\ BucketOn(path, p[1]) \in Bucket /\ BucketOn(path, p[1])[1] = p[1]
             /\ t[BucketOn(path, p[1])][p[2]] # NoBlock
             /\ t[BucketOn(path, p[1])][p[2]].id = b
  <2>1. p \in Level \X Slot /\ p[1] \in Level /\ p[2] \in Slot
    BY DEF Hits
  <2>2. Holds(t[BucketOn(path, p[1])][p[2]], b)
    BY DEF Hits
  <2> QED BY <2>1, <2>2, BucketOnIsBucket DEF Holds
<1> HIDE DEF hits
<1>2. ASSUME NEW p \in hits PROVE Stores(t, s, b, t[BucketOn(path, p[1])][p[2]])
  BY <1>1 DEF Stores
<1>3. ASSUME NEW p \in hits, NEW q \in hits PROVE p = q
  <2>1. BucketOn(path, p[1]) = BucketOn(path, q[1]) /\ p[2] = q[2]
    BY <1>1 DEF OneCopy, OnceInTree
  <2>2. p[1] = q[1]
    BY <1>1, <2>1
  <2>3. p \in Level \X Slot /\ q \in Level \X Slot
    BY <1>1
  <2> QED BY <2>1, <2>2, <2>3
<1>4. hits # {} => last \in hits
  BY LastHit DEF hits, Hits
<1> QED
  BY <1>2, <1>3, <1>4 DEF hits

(* Where every block is on its path, a search that fails means absence.     *)
LEMMA NothingFound ==
  ASSUME NEW pm, NEW t, NEW s, Good(pm, t, s), NEW b,
         \A i \in StashSlot : ~Holds(s[i], b), Hits(t, pm[b], b) = {}
  PROVE  Lacks(t, s, b)
<1>1. ASSUME NEW n \in Bucket, NEW u \in Slot, t[n][u] # NoBlock, t[n][u].id = b
      PROVE  FALSE
  <2>1. n[1] \in Level /\ n = BucketOn(pm[b], n[1])
    BY <1>1, BucketLevel DEF Good, PlacedInTree
  <2>2. <<n[1], u>> \in Hits(t, pm[b], b)
    BY <1>1, <2>1 DEF Hits, Holds
  <2> QED BY <2>2
<1> QED
  BY <1>1 DEF Lacks, Holds

(* A search of the stash that hits leaves the tree as it is.                *)
LEMMA StashHitSparesTree ==
  ASSUME NEW t, NEW s, Typed(t, s), NEW path, NEW b, NEW i \in StashSlot, Holds(s[i], b)
  PROVE  ErasedTree(t, s, path, b) = t
<1>1. \A n \in Bucket : t[n] = [u \in Slot |-> t[n][u]]
  BY DEF Typed
<1>2. ErasedTree(t, s, path, b) = [n \in Bucket |-> [u \in Slot |-> t[n][u]]]
  BY DEF ErasedTree
<1>3. t = [n \in Bucket |-> t[n]]
  BY DEF Typed
<1> QED
  BY <1>1, <1>2, <1>3

(* One copy, counted.                                                       *)
LEMMA CopiesCounted ==
  ASSUME NEW t, NEW s, OneCopy(t, s), NEW b
  PROVE  Cardinality({ i \in StashSlot : Holds(s[i], b) })
         + Cardinality({ x \in Bucket \X Slot : Holds(t[x[1]][x[2]], b) }) <= 1
<1> DEFINE I == { i \in StashSlot : Holds(s[i], b) }
           X == { x \in Bucket \X Slot : Holds(t[x[1]][x[2]], b) }
<1>1. \A i, j \in I : i = j
  BY DEF OneCopy, OnceInStash, Holds
<1>2. \A x, y \in X : x = y
  BY DEF OneCopy, OnceInTree, Holds
<1>3. I = {} \/ X = {}
  BY DEF OneCopy, NotInBoth, Holds
<1> HIDE DEF I, X
<1>4. ASSUME NEW S, \A x, y \in S : x = y
      PROVE  Cardinality(S) \in 0 .. 1 /\ (S = {} => Cardinality(S) = 0)
  <2>1. CASE S = {}
    BY <2>1, FS_EmptySet
  <2>2. CASE S # {}
    <3>1. PICK x : S = {x}
      BY <1>4, <2>2
    <3> QED BY <2>2, <3>1, FS_Singleton
  <2> QED BY <2>1, <2>2
<1>5. /\ Cardinality(I) \in 0 .. 1 /\ Cardinality(X) \in 0 .. 1
      /\ Cardinality(I) = 0 \/ Cardinality(X) = 0
  BY <1>1, <1>2, <1>3, <1>4
<1>6. Cardinality(I) + Cardinality(X) <= 1
  BY <1>5
<1> QED
  BY <1>6 DEF I, X
=============================================================================
