--------------------------- MODULE TreePathsProofs ---------------------------
(***************************************************************************)
(* Facts about TreePaths: the recursive functions exist, the paths an      *)
(* eviction visits are paths of the tree, every bucket of a path is a      *)
(* bucket of the tree, offsets are divided by powers of two, and evictions *)
(* visit the buckets in reverse lexicographic order.                       *)
(***************************************************************************)
EXTENDS TreePaths, TLAPS, WellFoundedInduction

(* Every set of naturals but the empty one has a least element. *)
LEMMA LeastElement ==
  ASSUME NEW S, S \subseteq Nat, S # {}
  PROVE  \E x \in S : \A y \in S : ~(y < x)
<1>1. IsWellFoundedOn(OpToRel(<, Nat), Nat)
  BY NatLessThanWellFounded
<1>2. \E x \in S : \A y \in S : <<y, x>> \notin OpToRel(<, Nat)
  BY <1>1, WFMin
<1> QED
  BY <1>2 DEF OpToRel

(* Induction over 0 .. n, for a set: the members of S reach n. *)
LEMMA IntervalInduction ==
  ASSUME NEW n \in Nat, NEW S, 0 \in S,
         \A k \in 0 .. n - 1 : k \in S => k + 1 \in S
  PROVE  \A k \in 0 .. n : k \in S
<1> DEFINE Missing == { k \in 0 .. n : k \notin S }
<1>1. SUFFICES ASSUME Missing # {} PROVE FALSE
  OBVIOUS
<1>2. PICK x \in Missing : \A y \in Missing : ~(y < x)
  <2>1. Missing \subseteq Nat
    OBVIOUS
  <2> HIDE DEF Missing
  <2> QED
    BY <1>1, <2>1, LeastElement
<1>3. x - 1 \in 0 .. n - 1 /\ x - 1 \in S
  BY <1>2
<1> QED
  BY <1>2, <1>3

(* f is defined by recursion over 0 .. n, from base by the steps of step. *)
Recursive(f, n, base, step) ==
  \A k \in 0 .. n : f[k] = IF k = 0 THEN base ELSE step[<<k, f[k - 1]>>]

(* Such a function exists and has its type. *)
LEMMA RecursiveFunctionExists ==
  ASSUME NEW n \in Nat, NEW X, NEW base \in X,
         NEW step \in [(1 .. n) \X X -> X]
  PROVE  \E f \in [0 .. n -> X] : Recursive(f, n, base, step)
<1> DEFINE Upto(m) == \E f \in [0 .. m -> X] :
             \A k \in 0 .. m : f[k] = IF k = 0 THEN base ELSE step[<<k, f[k - 1]>>]
           S == { m \in 0 .. n : Upto(m) }
<1>1. 0 \in S
  <2> DEFINE f == [k \in 0 .. 0 |-> base]
  <2>1. f \in [0 .. 0 -> X] /\ f[0] = base
    OBVIOUS
  <2>2. \A k \in 0 .. 0 : f[k] = IF k = 0 THEN base ELSE step[<<k, f[k - 1]>>]
    BY <2>1
  <2> HIDE DEF f
  <2>3. Upto(0)
    BY <2>1, <2>2
  <2> QED
    BY <2>3
<1>2. ASSUME NEW m \in 0 .. n - 1, m \in S PROVE m + 1 \in S
  <2>1. PICK f \in [0 .. m -> X] :
          \A k \in 0 .. m : f[k] = IF k = 0 THEN base ELSE step[<<k, f[k - 1]>>]
    BY <1>2
  <2> DEFINE g == [k \in 0 .. m + 1 |-> IF k = m + 1 THEN step[<<m + 1, f[m]>>] ELSE f[k]]
  <2>2. m + 1 \in 1 .. n /\ f[m] \in X
    OBVIOUS
  <2>3. step[<<m + 1, f[m]>>] \in X
    BY <2>2
  <2>4. g \in [0 .. m + 1 -> X]
    BY <2>3
  <2>5. ASSUME NEW k \in 0 .. m + 1
        PROVE  g[k] = IF k = 0 THEN base ELSE step[<<k, g[k - 1]>>]
    <3>1. CASE k = m + 1
      <4>1. g[m + 1] = step[<<m + 1, f[m]>>] /\ g[m] = f[m] /\ m + 1 # 0 /\ (m + 1) - 1 = m
        OBVIOUS
      <4> HIDE DEF g
      <4> QED
        BY <4>1, <3>1
    <3>2. CASE k \in 0 .. m
      <4>1. g[k] = f[k] /\ (k # 0 => g[k - 1] = f[k - 1])
        BY <3>2
      <4> QED
        BY <4>1, <3>2, <2>1
    <3> QED
      BY <3>1, <3>2
  <2>6. Upto(m + 1)
    BY <2>4, <2>5
  <2> QED
    BY <2>6
<1>3. n \in S
  <2> HIDE DEF S
  <2> QED BY <1>1, <1>2, IntervalInduction
<1> QED
  BY <1>3 DEF Recursive

-----------------------------------------------------------------------------
LEMMA LevelsFacts == Levels \in Nat /\ Levels >= 2 /\ TopLevelOrder \in 1 .. 2
  BY LevelsAssumption, TopLevelOrderAssumption

(* The powers of two are positive and double. *)
LEMMA TwoToTheFacts ==
  /\ TwoToThe \in [0 .. Levels -> Nat \ {0}]
  /\ TwoToThe[0] = 1
  /\ \A n \in 1 .. Levels : TwoToThe[n] = 2 * TwoToThe[n - 1]
<1> DEFINE X == Nat \ {0}
           step == [p \in (1 .. Levels) \X X |-> 2 * p[2]]
<1>1. step \in [(1 .. Levels) \X X -> X]
  OBVIOUS
<1>2. \A k \in 1 .. Levels, x \in X : step[<<k, x>>] = 2 * x
  OBVIOUS
<1>3. PICK f \in [0 .. Levels -> X] : Recursive(f, Levels, 1, step)
  <2>1. 1 \in X /\ Levels \in Nat
    BY LevelsFacts
  <2> HIDE DEF X, step
  <2> QED BY <1>1, <2>1, RecursiveFunctionExists
<1>4. f = [k \in 0 .. Levels |-> IF k = 0 THEN 1 ELSE 2 * f[k - 1]]
  <2>1. \A k \in 0 .. Levels : k # 0 => f[k - 1] \in X /\ k \in 1 .. Levels
    BY LevelsFacts
  <2>2. \A k \in 0 .. Levels : f[k] = IF k = 0 THEN 1 ELSE 2 * f[k - 1]
    <3> HIDE DEF step
    <3> QED BY <1>2, <1>3, <2>1 DEF Recursive
  <2> QED BY <2>2
<1>5. TwoToThe = [k \in 0 .. Levels |-> IF k = 0 THEN 1 ELSE 2 * TwoToThe[k - 1]]
  BY <1>4 DEF TwoToThe
<1>6. \A k \in 0 .. Levels : TwoToThe[k] = IF k = 0 THEN 1 ELSE 2 * TwoToThe[k - 1]
  BY <1>5
<1> DEFINE S == { k \in 0 .. Levels : TwoToThe[k] \in X }
<1>7. 0 \in S
  BY <1>6, LevelsFacts
<1>8. ASSUME NEW k \in 0 .. Levels - 1, k \in S PROVE k + 1 \in S
  <2>1. TwoToThe[k + 1] = 2 * TwoToThe[k]
    BY <1>6, LevelsFacts
  <2>2. TwoToThe[k] \in Nat \ {0}
    BY <1>8
  <2>3. TwoToThe[k + 1] \in Nat \ {0}
    BY <2>1, <2>2
  <2> QED BY <2>3, LevelsFacts
<1>9. \A k \in 0 .. Levels : k \in S
  <2> HIDE DEF S
  <2> QED BY <1>7, <1>8, LevelsFacts, IntervalInduction
<1>10. \A k \in 0 .. Levels : TwoToThe[k] \in X
  BY <1>9
<1>11. TwoToThe \in [0 .. Levels -> X]
  <2> HIDE DEF X
  <2> QED BY <1>5, <1>10
<1>12. TwoToThe[0] = 1
  BY <1>6, LevelsFacts
<1>13. \A n \in 1 .. Levels : TwoToThe[n] = 2 * TwoToThe[n - 1]
  BY <1>6, LevelsFacts
<1> QED
  BY <1>11, <1>12, <1>13

LEMMA BucketOnIsBucket ==
  ASSUME NEW path \in Path, NEW l \in Level
  PROVE  BucketOn(path, l) \in Bucket /\ BucketOn(path, l)[1] = l
BY DEF Bucket, BucketOn

LEMMA BucketLevel ==
  ASSUME NEW n \in Bucket
  PROVE  n[1] \in Level
BY DEF Bucket, BucketOn

(* Advancing the eviction order wraps every digit at its level's size. *)
LEMMA AdvancedType ==
  ASSUME NEW indices \in Indices
  PROVE  Advanced(indices) \in Indices
<1>1. ASSUME NEW i \in Digit
      PROVE  Advanced(indices)[i] \in 0 .. 1 /\ Advanced(indices)[i] < LevelSize(i)
  <2>1. LevelSize(i) \in {1, 2} /\ indices[i] \in 0 .. 1 /\ indices[i] < LevelSize(i)
    BY LevelsFacts DEF Indices, LevelSize
  <2>2. Advanced(indices)[i] \in {(indices[i] + 1) % LevelSize(i), indices[i]}
    BY DEF Advanced
  <2>3. (indices[i] + 1) % LevelSize(i) \in 0 .. LevelSize(i) - 1
    BY <2>1
  <2> QED BY <2>1, <2>2, <2>3
<1>2. Advanced(indices) \in [Digit -> 0 .. 1]
  BY <1>1 DEF Advanced
<1> QED BY <1>1, <1>2 DEF Indices

LEMMA FirstIndicesType == FirstIndices \in Indices
BY LevelsFacts DEF Indices, FirstIndices, Digit, LevelSize

(* The path the eviction order names is a path of the tree. *)
LEMMA PathOfType ==
  ASSUME NEW indices \in Indices
  PROVE  PathOf(indices) \in Path
<1> DEFINE N == Levels - 1
           step == [p \in (1 .. N) \X Nat |-> p[2] * LevelSize(p[1]) + indices[p[1]]]
<1>1. \A i \in 1 .. N : LevelSize(i) \in 1 .. 2 /\ indices[i] \in 0 .. LevelSize(i) - 1
  BY LevelsFacts DEF Indices, LevelSize, Digit
<1>2. step \in [(1 .. N) \X Nat -> Nat]
  <2>1. ASSUME NEW i \in 1 .. N, NEW x \in Nat PROVE x * LevelSize(i) + indices[i] \in Nat
    BY <1>1
  <2> QED BY <2>1
<1>3. \A k \in 1 .. N, x \in Nat : step[<<k, x>>] = x * LevelSize(k) + indices[k]
  OBVIOUS
<1>4. N \in Nat
  BY LevelsFacts
<1>5. PICK f \in [0 .. N -> Nat] : Recursive(f, N, 0, step)
  <2>1. 0 \in Nat
    OBVIOUS
  <2> HIDE DEF step, N
  <2> QED BY <1>2, <1>4, <2>1, RecursiveFunctionExists
<1>6. f = [k \in 0 .. N |-> IF k = 0 THEN 0 ELSE f[k - 1] * LevelSize(k) + indices[k]]
  <2>1. \A k \in 0 .. N : k # 0 => f[k - 1] \in Nat /\ k \in 1 .. N
    BY <1>4
  <2>2. \A k \in 0 .. N :
          f[k] = IF k = 0 THEN 0 ELSE f[k - 1] * LevelSize(k) + indices[k]
    <3> HIDE DEF step
    <3> QED BY <1>3, <1>5, <2>1 DEF Recursive
  <2> QED BY <2>2
<1> DEFINE Prefix(g) ==
      g = [k \in 0 .. Levels - 1 |-> IF k = 0 THEN 0 ELSE g[k - 1] * LevelSize(k) + indices[k]]
    prefix == CHOOSE g : Prefix(g)
<1>7. Prefix(prefix)
  BY <1>6
<1>8. PathOf(indices) = prefix[N]
  BY DEF PathOf
<1>9. \A k \in 0 .. N :
        prefix[k] = IF k = 0 THEN 0 ELSE prefix[k - 1] * LevelSize(k) + indices[k]
  BY <1>7
<1> DEFINE Size(k) == IF k = 0 THEN 1 ELSE TopLevelOrder * TwoToThe[k - 1]
           S == { k \in 0 .. N : prefix[k] \in 0 .. Size(k) - 1 }
<1> HIDE DEF prefix
<1>10. 0 \in S
  BY <1>4, <1>9
<1>11. ASSUME NEW k \in 0 .. N - 1, k \in S PROVE k + 1 \in S
  <2>1. /\ k + 1 \in 1 .. N
        /\ prefix[k + 1] = prefix[k] * LevelSize(k + 1) + indices[k + 1]
        /\ prefix[k] \in 0 .. Size(k) - 1
    BY <1>4, <1>9, <1>11
  <2>2. indices[k + 1] \in 0 .. LevelSize(k + 1) - 1
    BY <1>1, <2>1
  <2>3. CASE k = 0
    <3>1. prefix[k] = 0 /\ LevelSize(k + 1) = TopLevelOrder /\ Size(k + 1) = TopLevelOrder
      BY <2>1, <2>3, TwoToTheFacts, LevelsFacts DEF LevelSize
    <3> QED BY <2>1, <2>2, <3>1, LevelsFacts
  <2>4. CASE k # 0
    <3>1. LevelSize(k + 1) = 2
      BY <2>4 DEF LevelSize
    <3>2. TwoToThe[k] = 2 * TwoToThe[k - 1] /\ TwoToThe[k - 1] \in Nat
      <4>1. k \in 1 .. Levels /\ k - 1 \in 0 .. Levels
        BY <2>4, LevelsFacts
      <4> QED BY <4>1, TwoToTheFacts
    <3>3. Size(k + 1) = 2 * Size(k) /\ Size(k) \in Nat
      <4>1. Size(k) = TopLevelOrder * TwoToThe[k - 1]
            /\ Size(k + 1) = TopLevelOrder * TwoToThe[k]
        BY <2>4
      <4>2. CASE TopLevelOrder = 1
        BY <3>2, <4>1, <4>2
      <4>3. CASE TopLevelOrder = 2
        BY <3>2, <4>1, <4>3
      <4> QED BY <4>2, <4>3, LevelsFacts
    <3>4. prefix[k + 1] = prefix[k] * 2 + indices[k + 1] /\ indices[k + 1] \in 0 .. 1
      BY <2>1, <2>2, <3>1
    <3>5. prefix[k + 1] \in 0 .. Size(k + 1) - 1
      <4> HIDE DEF Size
      <4> QED BY <2>1, <3>3, <3>4
    <3> QED BY <2>1, <3>5
  <2> QED BY <2>3, <2>4
<1>12. \A k \in 0 .. N : k \in S
  <2> HIDE DEF S
  <2> QED BY <1>4, <1>10, <1>11, IntervalInduction
<1>13. prefix[N] \in 0 .. TopLevelOrder * TwoToThe[Levels - 2] - 1
  BY <1>12, LevelsFacts
<1> QED
  BY <1>8, <1>13 DEF Path, NumPaths

-----------------------------------------------------------------------------
(* Division by powers of two: the offsets of nested subtrees.               *)
LEMMA QuotientFacts ==
  ASSUME NEW x \in Nat, NEW m \in Nat \ {0}
  PROVE  x = m * (x \div m) + (x % m) /\ x % m \in 0 .. m - 1 /\ x \div m \in Nat
OBVIOUS

LEMMA QuotientUnique ==
  ASSUME NEW m \in Nat \ {0}, NEW q \in Int, NEW r \in 0 .. m - 1
  PROVE  (m * q + r) \div m = q /\ (m * q + r) % m = r
<1> DEFINE x == m * q + r
           y == x \div m
           z == x % m
<1>1. x \in Int /\ y \in Int /\ z \in 0 .. m - 1 /\ x = m * y + z
  OBVIOUS
<1>2. m * (y - q) = r - z
  <2>1. m * (y - q) = m * y - m * q
    BY <1>1, Z3
  <2>2. m * q + r = m * y + z
    BY <1>1
  <2>3. m * q \in Int /\ m * y \in Int /\ m * (y - q) \in Int
    BY <1>1, Z3
  <2> HIDE DEF x, y, z
  <2> QED BY <1>1, <2>1, <2>2, <2>3
<1>3. y = q
  <2>1. r - z < m /\ r - z > -m
    BY <1>1
  <2>2. CASE y - q >= 1
    <3>1. m * (y - q) >= m
      BY <1>1, <2>2, Z3
    <3> QED BY <1>1, <1>2, <2>1, <3>1
  <2>3. CASE y - q <= -1
    <3>1. m * (y - q) <= -m
      BY <1>1, <2>3, Z3
    <3> QED BY <1>1, <1>2, <2>1, <3>1
  <2> QED BY <1>1, <2>2, <2>3
<1> QED
  BY <1>1, <1>2, <1>3

LEMMA NestedDivision ==
  ASSUME NEW x \in Nat, NEW a \in Nat \ {0}, NEW b \in Nat \ {0}
  PROVE  x \div (a * b) = (x \div a) \div b
<1> DEFINE y == x \div a
           r == x % a
           z == y \div b
           s == y % b
<1>1. /\ y \in Nat /\ r \in 0 .. a - 1 /\ x = a * y + r
      /\ z \in Nat /\ s \in 0 .. b - 1 /\ y = b * z + s
  OBVIOUS
<1>2. a * b \in Nat \ {0}
  BY Z3
<1> HIDE DEF y, r, z, s
<1>3. x = (a * b) * z + (a * s + r)
  BY <1>1, Z3
<1>4. a * s + r \in 0 .. a * b - 1
  <2>1. a * s <= a * (b - 1)
    BY <1>1, Z3
  <2>2. a * (b - 1) = a * b - a /\ a * s \in Nat
    BY <1>1, Z3
  <2> QED BY <1>1, <1>2, <2>1, <2>2
<1>5. x \div (a * b) = z
  BY <1>1, <1>2, <1>3, <1>4, QuotientUnique
<1> QED
  BY <1>5 DEF z, y

LEMMA PowersAdd ==
  ASSUME NEW m \in Nat, NEW n \in Nat, m + n <= Levels
  PROVE  TwoToThe[m + n] = TwoToThe[m] * TwoToThe[n]
<1> DEFINE S == { k \in 0 .. n : TwoToThe[m + k] = TwoToThe[m] * TwoToThe[k] }
<1>1. \A k \in 0 .. Levels : TwoToThe[k] \in Nat
  BY TwoToTheFacts
<1>2. 0 \in S
  <2>1. TwoToThe[m] \in Nat /\ TwoToThe[0] = 1 /\ m + 0 = m
    <3>1. m \in 0 .. Levels
      BY LevelsFacts
    <3> QED BY <1>1, <3>1, TwoToTheFacts
  <2>2. TwoToThe[m + 0] = TwoToThe[m]
    BY <2>1
  <2>3. TwoToThe[m] * TwoToThe[0] = TwoToThe[m]
    BY <2>1
  <2> QED BY <2>2, <2>3
<1>3. ASSUME NEW k \in 0 .. n - 1, k \in S PROVE k + 1 \in S
  <2>1. TwoToThe[m + k] = TwoToThe[m] * TwoToThe[k]
    BY <1>3
  <2>2. TwoToThe[k + 1] = 2 * TwoToThe[k]
    <3>1. k + 1 \in 1 .. Levels /\ (k + 1) - 1 = k
      BY LevelsFacts
    <3> QED BY <3>1, TwoToTheFacts
  <2>3. TwoToThe[m + (k + 1)] = 2 * TwoToThe[m + k]
    <3>1. m + (k + 1) \in 1 .. Levels /\ (m + (k + 1)) - 1 = m + k
      BY LevelsFacts
    <3> QED BY <3>1, TwoToTheFacts
  <2>4. TwoToThe[m] \in Nat /\ TwoToThe[k] \in Nat
    BY <1>1, LevelsFacts
  <2>5. TwoToThe[m + (k + 1)] = TwoToThe[m] * TwoToThe[k + 1]
    BY <2>1, <2>2, <2>3, <2>4, Z3
  <2> QED BY <2>5
<1>4. n \in S
  <2>1. \A k \in 0 .. n : k \in S
    <3> HIDE DEF S
    <3> QED BY <1>2, <1>3, IntervalInduction
  <2> HIDE DEF S
  <2> QED BY <2>1
<1> QED
  BY <1>4

(* A path is a number of Levels - 1 bits, or of fewer under a unary root.  *)
LEMMA PathBound == \A path \in Path : path \in 0 .. TwoToThe[Levels - 1] - 1
<1>1. Levels - 1 \in 1 .. Levels /\ (Levels - 1) - 1 = Levels - 2 /\ Levels - 2 \in 0 .. Levels
  BY LevelsFacts
<1>2. TwoToThe[Levels - 1] = 2 * TwoToThe[Levels - 2]
  BY <1>1, TwoToTheFacts
<1>3. TwoToThe[Levels - 2] \in Nat \ {0} /\ TopLevelOrder \in {1, 2}
  BY <1>1, TwoToTheFacts, TopLevelOrderAssumption
<1> QED
  BY <1>2, <1>3 DEF Path, NumPaths

(* An offset of a + b bits without its last a bits has b bits.             *)
LEMMA ShiftedBound ==
  ASSUME NEW a \in Nat, NEW b \in Nat, a + b <= Levels, NEW x \in 0 .. TwoToThe[a + b] - 1
  PROVE  x \div TwoToThe[a] \in 0 .. TwoToThe[b] - 1
<1> DEFINE u == TwoToThe[a]
           v == TwoToThe[b]
           q == x \div u
           r == x % u
<1>1. a \in 0 .. Levels /\ b \in 0 .. Levels
  BY LevelsFacts
<1>2. u \in Nat \ {0} /\ v \in Nat \ {0} /\ TwoToThe[a + b] = u * v
  BY <1>1, TwoToTheFacts, PowersAdd
<1>3. x \in Nat /\ x < u * v
  <2>1. u * v \in Nat
    <3> HIDE DEF u, v
    <3> QED BY <1>2, Z3
  <2> DEFINE m == u * v
  <2>2. m \in Nat /\ x \in 0 .. m - 1
    BY <1>2, <2>1
  <2> HIDE DEF m
  <2>3. x \in Nat /\ x < m
    BY <2>2
  <2> QED BY <2>3 DEF m
<1> HIDE DEF u, v
<1>4. x = u * q + r /\ r \in 0 .. u - 1 /\ q \in Nat
  BY <1>2, <1>3, QuotientFacts
<1> HIDE DEF q, r
<1>5. q < v
  <2> SUFFICES ASSUME q >= v PROVE FALSE
    BY <1>2, <1>4
  <2>1. u * q >= u * v
    BY <1>2, <1>4, Z3
  <2>2. r >= 0
    BY <1>4
  <2> QED BY <1>2, <1>3, <1>4, <2>1, <2>2, Z3
<1>6. q \in 0 .. v - 1
  BY <1>2, <1>4, <1>5
<1> QED
  BY <1>6 DEF q, u, v

(* A bucket is a level and an offset of as many bits.                      *)
LEMMA BucketIs ==
  ASSUME NEW n \in Bucket
  PROVE  n = <<n[1], n[2]>> /\ n[1] \in Level /\ n[2] \in 0 .. TwoToThe[n[1]] - 1
<1>1. PICK path \in Path, l \in Level : n = <<l, path \div TwoToThe[Levels - 1 - l]>>
  BY DEF Bucket, BucketOn
<1> DEFINE a == Levels - 1 - l
<1>2. a \in Nat /\ l \in Nat /\ a + l = Levels - 1 /\ a + l <= Levels
  BY LevelsFacts DEF Level
<1>3. path \in 0 .. TwoToThe[a + l] - 1
  BY <1>2, PathBound
<1> HIDE DEF a
<1>4. path \div TwoToThe[a] \in 0 .. TwoToThe[l] - 1
  BY <1>2, <1>3, ShiftedBound
<1> QED
  BY <1>1, <1>4 DEF a

-----------------------------------------------------------------------------
(* The order of evictions in a binary tree.  After x evictions the digits  *)
(* of EvictionPathGenerator are the bits of x, the lowest at the root; the *)
(* next path is the bits of x reversed, so that eviction x visits bucket   *)
(* <<l, o>> if and only if o with its l bits reversed is x modulo 2^l.     *)
(* The counter read_path derives for a page from x is therefore the number *)
(* of evictions that have visited it.  Under a unary root the same order   *)
(* leaves the first digit alone; the first two evictions are described.    *)
Bit(x, i) == (x \div TwoToThe[i]) % 2

OrderOf(x) == [i \in Digit |-> Bit(x, i - 1)]

LEMMA ModTwo ==
  ASSUME NEW q \in Nat
  PROVE  q % 2 \in 0 .. 1 /\ (q + 1) % 2 = ((q % 2) + 1) % 2 /\ (q % 2 = 1 \/ q % 2 = 0)
OBVIOUS

LEMMA PowerStep ==
  ASSUME NEW i \in 0 .. Levels - 1
  PROVE  /\ i \in Nat /\ i \in 0 .. Levels /\ i + 1 \in 1 .. Levels /\ i + 1 \in 0 .. Levels
         /\ TwoToThe[i] \in Nat \ {0} /\ TwoToThe[i + 1] \in Nat \ {0}
         /\ TwoToThe[i + 1] = 2 * TwoToThe[i]
<1>1. /\ i \in Nat /\ i \in 0 .. Levels /\ i + 1 \in 1 .. Levels /\ i + 1 \in 0 .. Levels
      /\ (i + 1) - 1 = i
  BY LevelsFacts
<1> QED
  BY <1>1, TwoToTheFacts

(* A number modulo a power of two, bit by bit.                              *)
LEMMA BitSplit ==
  ASSUME NEW x \in Nat, NEW i \in 0 .. Levels - 1
  PROVE  /\ Bit(x, i) \in 0 .. 1
         /\ x % TwoToThe[i + 1] = TwoToThe[i] * Bit(x, i) + (x % TwoToThe[i])
         /\ x % TwoToThe[i] \in 0 .. TwoToThe[i] - 1
<1> DEFINE m == TwoToThe[i]
           q == x \div m
           r == x % m
           h == q \div 2
           b == q % 2
<1>1. m \in Nat \ {0} /\ TwoToThe[i + 1] = 2 * m
  BY PowerStep
<1> HIDE DEF m
<1>2. x = m * q + r /\ r \in 0 .. m - 1 /\ q \in Nat
  BY <1>1, QuotientFacts
<1> HIDE DEF q, r
<1>3. q = 2 * h + b /\ b \in 0 .. 1 /\ h \in Nat
  BY <1>2
<1> HIDE DEF h, b
<1> DEFINE s == m * b + r
<1>4. s \in 0 .. 2 * m - 1
  <2>1. b = 0 \/ b = 1
    BY <1>3
  <2>2. CASE b = 0
    BY <1>1, <1>2, <2>2
  <2>3. CASE b = 1
    BY <1>1, <1>2, <2>3
  <2> QED BY <2>1, <2>2, <2>3
<1>5. x = (2 * m) * h + s
  BY <1>1, <1>2, <1>3, Z3
<1> HIDE DEF s
<1>6. 2 * m \in Nat \ {0} /\ h \in Int
  BY <1>1, <1>3
<1>7. x % (2 * m) = s
  BY <1>4, <1>5, <1>6, QuotientUnique
<1>8. Bit(x, i) = b
  BY DEF Bit, b, q, m
<1> QED
  BY <1>1, <1>2, <1>3, <1>7, <1>8 DEF s, r, m

(* The bits of x + 1: a bit changes if all lower ones are set.              *)
LEMMA NextQuotient ==
  ASSUME NEW x \in Nat, NEW m \in Nat \ {0}
  PROVE  /\ (x + 1) \div m = (x \div m) + (IF x % m = m - 1 THEN 1 ELSE 0)
         /\ (x + 1) % m = IF x % m = m - 1 THEN 0 ELSE (x % m) + 1
<1> DEFINE q == x \div m
           r == x % m
<1>1. x = m * q + r /\ r \in 0 .. m - 1 /\ q \in Nat
  BY QuotientFacts
<1> HIDE DEF q, r
<1>2. CASE r = m - 1
  <2>1. x + 1 = m * (q + 1) + 0
    BY <1>1, <1>2, Z3
  <2>2. q + 1 \in Int /\ 0 \in 0 .. m - 1
    BY <1>1
  <2>3. (x + 1) \div m = q + 1 /\ (x + 1) % m = 0
    BY <2>1, <2>2, QuotientUnique
  <2> QED BY <1>2, <2>3 DEF q, r
<1>3. CASE r # m - 1
  <2>1. x + 1 = m * q + (r + 1)
    <3> DEFINE p == m * q
    <3>1. p \in Nat
      BY <1>1, Z3
    <3>2. x = p + r
      BY <1>1
    <3> HIDE DEF p
    <3>3. x + 1 = p + (r + 1)
      BY <1>1, <3>1, <3>2
    <3> QED BY <3>3 DEF p
  <2>2. q \in Int /\ r + 1 \in 0 .. m - 1
    BY <1>1, <1>3
  <2>3. (x + 1) \div m = q /\ (x + 1) % m = r + 1
    BY <2>1, <2>2, QuotientUnique
  <2>4. q + 0 = q
    BY <1>1
  <2> QED BY <1>3, <2>3, <2>4 DEF q, r
<1> QED
  BY <1>2, <1>3

LEMMA OnesBelow ==
  ASSUME NEW x \in Nat, NEW n \in 0 .. Levels - 1
  PROVE  (\A j \in 1 .. n : Bit(x, j - 1) = 1) <=> x % TwoToThe[n] = TwoToThe[n] - 1
<1> DEFINE Ones(i) == \A j \in 1 .. i : Bit(x, j - 1) = 1
           S == { i \in 0 .. n : Ones(i) <=> x % TwoToThe[i] = TwoToThe[i] - 1 }
<1>1. n \in Nat
  BY LevelsFacts
<1>2. 0 \in S
  <2>1. TwoToThe[0] = 1 /\ Ones(0)
    BY TwoToTheFacts
  <2>2. x % 1 = 0
    BY QuotientFacts
  <2> QED BY <1>1, <2>1, <2>2
<1>3. ASSUME NEW i \in 0 .. n - 1, i \in S PROVE i + 1 \in S
  <2>1. i \in 0 .. Levels - 1 /\ i + 1 \in 0 .. n /\ i \in Nat /\ (i + 1) - 1 = i
    BY LevelsFacts
  <2>2. Ones(i + 1) <=> Ones(i) /\ Bit(x, i) = 1
    <3>1. 1 .. i + 1 = (1 .. i) \cup {i + 1}
      BY <2>1
    <3> QED BY <2>1, <3>1
  <2> DEFINE m == TwoToThe[i]
             b == Bit(x, i)
             r == x % m
  <2>3. m \in Nat \ {0} /\ TwoToThe[i + 1] = 2 * m
    BY <2>1, PowerStep
  <2>4. b \in 0 .. 1 /\ x % TwoToThe[i + 1] = m * b + r /\ r \in 0 .. m - 1
    BY <2>1, BitSplit
  <2>5. Ones(i) <=> r = m - 1
    BY <1>3
  <2> HIDE DEF Ones, m, b, r
  <2>6. x % TwoToThe[i + 1] = TwoToThe[i + 1] - 1 <=> b = 1 /\ r = m - 1
    <3>1. CASE b = 0
      BY <2>3, <2>4, <3>1
    <3>2. CASE b = 1
      BY <2>3, <2>4, <3>2
    <3> QED BY <2>4, <3>1, <3>2
  <2> QED BY <2>1, <2>2, <2>5, <2>6 DEF b
<1>4. n \in S
  <2> HIDE DEF S
  <2>1. n \in 0 .. n
    BY <1>1
  <2> QED BY <1>1, <1>2, <1>3, <2>1, IntervalInduction
<1> QED
  BY <1>4

LEMMA FirstOrder == OrderOf(0) = FirstIndices
<1>1. ASSUME NEW i \in Digit PROVE Bit(0, i - 1) = 0
  <2>1. i - 1 \in 0 .. Levels
    BY LevelsFacts DEF Digit
  <2>2. TwoToThe[i - 1] \in Nat \ {0}
    BY <2>1, TwoToTheFacts
  <2> DEFINE m == TwoToThe[i - 1]
  <2> HIDE DEF m
  <2>3. 0 \div m = 0
    <3>1. m * 0 + 0 = 0 /\ 0 \in 0 .. m - 1 /\ m \in Nat \ {0} /\ 0 \in Int
      BY <2>2 DEF m
    <3> QED BY <3>1, QuotientUnique
  <2> QED BY <2>3 DEF Bit, m
<1> QED
  BY <1>1 DEF OrderOf, FirstIndices

LEMMA NextOrder ==
  ASSUME TopLevelOrder = 2, NEW x \in Nat
  PROVE  Advanced(OrderOf(x)) = OrderOf(x + 1)
<1>1. ASSUME NEW i \in Digit
      PROVE  (IF \A j \in Digit : j < i => OrderOf(x)[j] = LevelSize(j) - 1
              THEN (OrderOf(x)[i] + 1) % LevelSize(i)
              ELSE OrderOf(x)[i]) = Bit(x + 1, i - 1)
  <2>1. i - 1 \in 0 .. Levels - 1 /\ i \in Nat
    BY LevelsFacts DEF Digit
  <2>2. \A j \in Digit : j \in Nat /\ LevelSize(j) = 2
    BY LevelsFacts DEF LevelSize, Digit
  <2>3. (\A j \in Digit : j < i => OrderOf(x)[j] = LevelSize(j) - 1)
          <=> (\A j \in 1 .. i - 1 : Bit(x, j - 1) = 1)
    <3>1. 1 .. i - 1 = { j \in Digit : j < i }
      BY <2>1, LevelsFacts DEF Digit
    <3>2. \A j \in Digit : OrderOf(x)[j] = Bit(x, j - 1) /\ LevelSize(j) - 1 = 1
      BY <2>2 DEF OrderOf
    <3> QED BY <3>1, <3>2
  <2> DEFINE m == TwoToThe[i - 1]
             q == x \div m
  <2>4. (\A j \in 1 .. i - 1 : Bit(x, j - 1) = 1) <=> x % m = m - 1
    BY <2>1, OnesBelow
  <2>5. m \in Nat \ {0}
    BY <2>1, PowerStep
  <2>6. (x + 1) \div m = q + (IF x % m = m - 1 THEN 1 ELSE 0) /\ q \in Nat
    BY <2>5, NextQuotient, QuotientFacts
  <2>7. OrderOf(x)[i] = q % 2 /\ LevelSize(i) = 2 /\ Bit(x + 1, i - 1) = ((x + 1) \div m) % 2
    BY <2>2 DEF OrderOf, Bit
  <2> HIDE DEF q, m
  <2>8. ((x + 1) \div m) % 2 = IF x % m = m - 1 THEN ((q % 2) + 1) % 2 ELSE q % 2
    <3>1. CASE x % m = m - 1
      BY <2>6, <3>1, ModTwo
    <3>2. CASE x % m # m - 1
      <4>1. (x + 1) \div m = q
        BY <2>6, <3>2
      <4> QED BY <3>2, <4>1
    <3> QED BY <3>1, <3>2
  <2> QED BY <2>3, <2>4, <2>7, <2>8
<1> QED
  BY <1>1 DEF Advanced, OrderOf

LEMMA OrderIsIndices ==
  ASSUME TopLevelOrder = 2, NEW x \in Nat
  PROVE  OrderOf(x) \in Indices
<1>1. ASSUME NEW i \in Digit PROVE Bit(x, i - 1) \in 0 .. 1 /\ LevelSize(i) = 2
  <2>1. i - 1 \in 0 .. Levels - 1
    BY LevelsFacts DEF Digit
  <2> QED BY <2>1, BitSplit DEF LevelSize
<1>2. \A b \in 0 .. 1 : b < 2
  OBVIOUS
<1> QED
  BY <1>1, <1>2 DEF OrderOf, Indices

-----------------------------------------------------------------------------
(* ReverseBits turns its recursion around: the lowest bit becomes the       *)
(* highest of the result.                                                   *)
Reversing(f, value, bits) ==
  /\ f \in [0 .. bits -> Nat]
  /\ f[0] = 0
  /\ \A k \in 1 .. bits : f[k] = 2 * f[k - 1] + Bit(value, k - 1)

LEMMA ReverseBitsIs ==
  ASSUME NEW value \in Nat, NEW bits \in 0 .. Levels
  PROVE  \E f : Reversing(f, value, bits) /\ ReverseBits(value, bits) = f[bits]
<1> DEFINE step == [p \in (1 .. bits) \X Nat |-> 2 * p[2] + Bit(value, p[1] - 1)]
<1>1. bits \in Nat
  BY LevelsFacts
<1>2. \A k \in 1 .. bits : Bit(value, k - 1) \in Nat
  <2>1. \A k \in 1 .. bits : k - 1 \in 0 .. Levels - 1
    BY LevelsFacts
  <2>2. \A i \in 0 .. Levels - 1 : Bit(value, i) \in 0 .. 1
    BY BitSplit
  <2> QED BY <2>1, <2>2
<1>3. step \in [(1 .. bits) \X Nat -> Nat]
  <2>1. ASSUME NEW k \in 1 .. bits, NEW x \in Nat PROVE 2 * x + Bit(value, k - 1) \in Nat
    BY <1>2
  <2> QED BY <2>1
<1>4. \A k \in 1 .. bits, x \in Nat : step[<<k, x>>] = 2 * x + Bit(value, k - 1)
  OBVIOUS
<1>5. PICK g \in [0 .. bits -> Nat] : Recursive(g, bits, 0, step)
  <2>1. 0 \in Nat
    OBVIOUS
  <2> HIDE DEF step
  <2> QED BY <1>1, <1>3, <2>1, RecursiveFunctionExists
<1>6. \A k \in 0 .. bits : g[k] = IF k = 0 THEN 0 ELSE 2 * g[k - 1] + Bit(value, k - 1)
  <2>1. \A k \in 0 .. bits : k # 0 => g[k - 1] \in Nat /\ k \in 1 .. bits
    BY <1>1
  <2> HIDE DEF step
  <2> QED BY <1>4, <1>5, <2>1 DEF Recursive
<1> DEFINE Is(h) == h = [k \in 0 .. bits |->
                           IF k = 0 THEN 0
                           ELSE 2 * h[k - 1] + ((value \div TwoToThe[k - 1]) % 2)]
           f == CHOOSE h : Is(h)
<1>7. Is(g)
  <2> DEFINE F(k) == IF k = 0 THEN 0 ELSE 2 * g[k - 1] + Bit(value, k - 1)
  <2>1. g = [k \in 0 .. bits |-> g[k]] /\ \A k \in 0 .. bits : g[k] = F(k)
    BY <1>6
  <2> HIDE DEF F
  <2>2. g = [k \in 0 .. bits |-> F(k)]
    BY <2>1
  <2> QED BY <2>2 DEF F, Bit
<1>8. Is(f)
  <2> HIDE DEF Is
  <2> QED BY <1>7
<1>9. \A k \in 0 .. bits : f[k] = IF k = 0 THEN 0 ELSE 2 * f[k - 1] + Bit(value, k - 1)
  <2> DEFINE F(k) == IF k = 0 THEN 0 ELSE 2 * f[k - 1] + Bit(value, k - 1)
  <2>1. f = [k \in 0 .. bits |-> F(k)]
    BY <1>8 DEF Bit
  <2> HIDE DEF F, f
  <2>2. \A k \in 0 .. bits : f[k] = F(k)
    BY <2>1
  <2> QED BY <2>2 DEF F
<1>10. f = [k \in 0 .. bits |-> f[k]]
  <2> DEFINE F(k) == IF k = 0 THEN 0 ELSE 2 * f[k - 1] + ((value \div TwoToThe[k - 1]) % 2)
  <2>1. f = [k \in 0 .. bits |-> F(k)]
    BY <1>8
  <2> HIDE DEF F, f
  <2> QED BY <2>1
<1>11. ReverseBits(value, bits) = f[bits]
  BY DEF ReverseBits
<1> HIDE DEF f
<1> DEFINE S == { k \in 0 .. bits : f[k] \in Nat }
<1>12. 0 \in S
  BY <1>1, <1>9
<1>13. ASSUME NEW k \in 0 .. bits - 1, k \in S PROVE k + 1 \in S
  <2>1. k + 1 \in 0 .. bits /\ k + 1 # 0 /\ (k + 1) - 1 = k /\ k + 1 \in 1 .. bits
    BY <1>1
  <2>2. f[k + 1] = 2 * f[k] + Bit(value, k) /\ Bit(value, k) \in Nat /\ f[k] \in Nat
    BY <1>2, <1>9, <1>13, <2>1
  <2> QED BY <2>1, <2>2
<1>14. \A k \in 0 .. bits : k \in S
  <2> HIDE DEF S
  <2> QED BY <1>1, <1>12, <1>13, IntervalInduction
<1>15. Reversing(f, value, bits)
  <2>1. \A k \in 1 .. bits : k \in 0 .. bits /\ k # 0
    BY <1>1
  <2>2. 0 \in 0 .. bits
    BY <1>1
  <2>3. f \in [0 .. bits -> Nat]
    BY <1>10, <1>14
  <2> QED BY <1>9, <2>1, <2>2, <2>3 DEF Reversing
<1> QED
  BY <1>11, <1>15

LEMMA ReverseBound ==
  ASSUME NEW value \in Nat, NEW bits \in 0 .. Levels
  PROVE  ReverseBits(value, bits) \in 0 .. TwoToThe[bits] - 1
<1>1. PICK f : Reversing(f, value, bits) /\ ReverseBits(value, bits) = f[bits]
  BY ReverseBitsIs
<1> DEFINE S == { k \in 0 .. bits : f[k] \in 0 .. TwoToThe[k] - 1 }
<1>2. bits \in Nat
  BY LevelsFacts
<1>3. 0 \in S
  BY <1>1, <1>2, TwoToTheFacts DEF Reversing
<1>4. ASSUME NEW k \in 0 .. bits - 1, k \in S PROVE k + 1 \in S
  <2>1. k \in 0 .. Levels - 1 /\ k + 1 \in 0 .. bits /\ k + 1 \in 1 .. bits /\ (k + 1) - 1 = k
    BY <1>2, LevelsFacts
  <2>2. f[k + 1] = 2 * f[k] + Bit(value, k) /\ Bit(value, k) \in 0 .. 1
    BY <1>1, <2>1, BitSplit DEF Reversing
  <2>3. TwoToThe[k + 1] = 2 * TwoToThe[k] /\ TwoToThe[k] \in Nat \ {0}
    BY <2>1, PowerStep
  <2>4. f[k] \in 0 .. TwoToThe[k] - 1
    BY <1>4
  <2>5. f[k + 1] \in 0 .. TwoToThe[k + 1] - 1
    BY <2>2, <2>3, <2>4
  <2> QED BY <2>1, <2>5
<1>5. bits \in S
  <2> HIDE DEF S
  <2>1. bits \in 0 .. bits
    BY <1>2
  <2> QED BY <1>2, <1>3, <1>4, <2>1, IntervalInduction
<1> QED
  BY <1>1, <1>5

LEMMA HalfBit ==
  ASSUME NEW o \in Nat, NEW k \in 1 .. Levels
  PROVE  Bit(o, k) = Bit(o \div 2, k - 1)
<1> DEFINE m == TwoToThe[k - 1]
<1>1. m \in Nat \ {0} /\ TwoToThe[k] = 2 * m
  <2>1. k - 1 \in 0 .. Levels
    BY LevelsFacts
  <2> QED BY <2>1, TwoToTheFacts
<1> HIDE DEF m
<1>2. o \div (2 * m) = (o \div 2) \div m
  <2>1. 2 \in Nat \ {0}
    OBVIOUS
  <2> QED BY <1>1, <2>1, NestedDivision
<1> QED
  BY <1>1, <1>2 DEF Bit, m

LEMMA ReverseShift ==
  ASSUME NEW o \in Nat, NEW l \in 0 .. Levels - 1
  PROVE  ReverseBits(o, l + 1) = TwoToThe[l] * (o % 2) + ReverseBits(o \div 2, l)
<1> DEFINE h == o \div 2
           b == o % 2
<1>1. /\ h \in Nat /\ b \in 0 .. 1 /\ l \in Nat /\ l \in 0 .. Levels /\ l + 1 \in 0 .. Levels
  BY LevelsFacts, ModTwo
<1> HIDE DEF h
<1>2. PICK f : Reversing(f, o, l + 1) /\ ReverseBits(o, l + 1) = f[l + 1]
  BY <1>1, ReverseBitsIs
<1>3. PICK g : Reversing(g, h, l) /\ ReverseBits(h, l) = g[l]
  BY <1>1, ReverseBitsIs
<1> DEFINE S == { i \in 0 .. l : f[i + 1] = TwoToThe[i] * b + g[i] }
<1>4. 0 \in S
  <2>1. f[0] = 0 /\ g[0] = 0 /\ 1 \in 1 .. l + 1 /\ 1 - 1 = 0 /\ 0 + 1 = 1 /\ TwoToThe[0] = 1
    BY <1>1, <1>2, <1>3, TwoToTheFacts DEF Reversing
  <2>2. f[1] = 2 * f[0] + Bit(o, 0)
    BY <1>2, <2>1 DEF Reversing
  <2>3. Bit(o, 0) = b
    <3>1. o \div 1 = o
      OBVIOUS
    <3> QED BY <2>1, <3>1 DEF Bit
  <2> QED BY <1>1, <2>1, <2>2, <2>3
<1>5. ASSUME NEW i \in 0 .. l - 1, i \in S PROVE i + 1 \in S
  <2>1. /\ i \in Nat /\ i + 1 \in 0 .. l /\ i + 1 \in 1 .. l /\ (i + 1) + 1 \in 1 .. l + 1
        /\ (i + 1) - 1 = i /\ ((i + 1) + 1) - 1 = i + 1 /\ i + 1 \in 1 .. Levels
        /\ i \in 0 .. Levels - 1
    BY <1>1, LevelsFacts
  <2>2. f[(i + 1) + 1] = 2 * f[i + 1] + Bit(o, i + 1)
    BY <1>2, <2>1 DEF Reversing
  <2>3. g[i + 1] = 2 * g[i] + Bit(h, i)
    BY <1>3, <2>1 DEF Reversing
  <2>4. Bit(o, i + 1) = Bit(h, i) /\ Bit(h, i) \in 0 .. 1
    BY <1>1, <2>1, HalfBit, BitSplit DEF h
  <2>5. TwoToThe[i + 1] = 2 * TwoToThe[i] /\ TwoToThe[i] \in Nat
    BY <2>1, PowerStep
  <2>6. f[i + 1] = TwoToThe[i] * b + g[i]
    BY <1>5
  <2>7. g[i] \in Nat
    BY <1>3, <2>1 DEF Reversing
  <2>8. f[(i + 1) + 1] = TwoToThe[i + 1] * b + g[i + 1]
    <3>1. CASE b = 0
      BY <2>2, <2>3, <2>4, <2>5, <2>6, <2>7, <3>1
    <3>2. CASE b = 1
      BY <2>2, <2>3, <2>4, <2>5, <2>6, <2>7, <3>2
    <3> QED BY <1>1, <3>1, <3>2
  <2> QED BY <2>1, <2>8
<1>6. l \in S
  <2> HIDE DEF S
  <2>1. l \in 0 .. l
    BY <1>1
  <2> QED BY <1>1, <1>4, <1>5, <2>1, IntervalInduction
<1> QED
  BY <1>2, <1>3, <1>6 DEF h

-----------------------------------------------------------------------------
(* The path the digits name, level by level from the root.                  *)
Prefixes(f, indices) ==
  /\ f \in [0 .. Levels - 1 -> Nat]
  /\ f[0] = 0
  /\ \A k \in Digit : f[k] = f[k - 1] * LevelSize(k) + indices[k]

LEMMA PathOfIs ==
  ASSUME NEW indices \in Indices
  PROVE  \E f : Prefixes(f, indices) /\ PathOf(indices) = f[Levels - 1]
<1> DEFINE N == Levels - 1
           step == [p \in (1 .. N) \X Nat |-> p[2] * LevelSize(p[1]) + indices[p[1]]]
<1>1. \A k \in 1 .. N : LevelSize(k) \in Nat /\ indices[k] \in Nat
  BY LevelsFacts DEF Indices, LevelSize, Digit
<1>2. step \in [(1 .. N) \X Nat -> Nat]
  <2>1. ASSUME NEW k \in 1 .. N, NEW x \in Nat PROVE x * LevelSize(k) + indices[k] \in Nat
    BY <1>1
  <2> QED BY <2>1
<1>3. \A k \in 1 .. N, x \in Nat : step[<<k, x>>] = x * LevelSize(k) + indices[k]
  OBVIOUS
<1>4. N \in Nat
  BY LevelsFacts
<1>5. PICK g \in [0 .. N -> Nat] : Recursive(g, N, 0, step)
  <2>1. 0 \in Nat
    OBVIOUS
  <2> HIDE DEF step, N
  <2> QED BY <1>2, <1>4, <2>1, RecursiveFunctionExists
<1>6. \A k \in 0 .. N : g[k] = IF k = 0 THEN 0 ELSE g[k - 1] * LevelSize(k) + indices[k]
  <2>1. \A k \in 0 .. N : k # 0 => g[k - 1] \in Nat /\ k \in 1 .. N
    BY <1>4
  <2> HIDE DEF step
  <2> QED BY <1>3, <1>5, <2>1 DEF Recursive
<1> DEFINE Is(h) == h = [k \in 0 .. Levels - 1 |->
                           IF k = 0 THEN 0 ELSE h[k - 1] * LevelSize(k) + indices[k]]
           f == CHOOSE h : Is(h)
           F(h, k) == IF k = 0 THEN 0 ELSE h[k - 1] * LevelSize(k) + indices[k]
<1>7. Is(g)
  <2>1. g = [k \in 0 .. N |-> g[k]] /\ \A k \in 0 .. N : g[k] = F(g, k)
    BY <1>6
  <2> HIDE DEF F
  <2>2. g = [k \in 0 .. N |-> F(g, k)]
    BY <2>1
  <2> QED BY <2>2 DEF F
<1>8. Is(f)
  <2> HIDE DEF Is
  <2> QED BY <1>7
<1>9. f = [k \in 0 .. N |-> F(f, k)]
  BY <1>8
<1>10. f = [k \in 0 .. N |-> f[k]] /\ \A k \in 0 .. N : f[k] = F(f, k)
  <2> HIDE DEF F, f
  <2> QED BY <1>9
<1>11. PathOf(indices) = f[N]
  BY DEF PathOf
<1> HIDE DEF f
<1> DEFINE S == { k \in 0 .. N : f[k] \in Nat }
<1>12. 0 \in S
  <2>1. 0 \in 0 .. N
    BY <1>4
  <2>2. f[0] = 0
    BY <1>10, <2>1
  <2> QED BY <2>1, <2>2
<1>13. ASSUME NEW k \in 0 .. N - 1, k \in S PROVE k + 1 \in S
  <2>1. k + 1 \in 0 .. N /\ k + 1 # 0 /\ (k + 1) - 1 = k /\ k + 1 \in 1 .. N
    BY <1>4
  <2>2. f[k + 1] = f[k] * LevelSize(k + 1) + indices[k + 1] /\ f[k] \in Nat
    BY <1>10, <1>13, <2>1
  <2>3. LevelSize(k + 1) \in 1 .. 2
    BY LevelsFacts DEF LevelSize
  <2>4. indices[k + 1] \in Nat
    BY <1>1, <2>1
  <2>5. f[k + 1] \in Nat
    <3>1. CASE LevelSize(k + 1) = 1
      BY <2>2, <2>4, <3>1
    <3>2. CASE LevelSize(k + 1) = 2
      BY <2>2, <2>4, <3>2
    <3> QED BY <2>3, <3>1, <3>2
  <2> QED BY <2>1, <2>5
<1>14. \A k \in 0 .. N : k \in S
  <2> HIDE DEF S
  <2> QED BY <1>4, <1>12, <1>13, IntervalInduction
<1>15. Prefixes(f, indices)
  <2>1. Digit = 1 .. N /\ 0 \in 0 .. N /\ \A k \in 1 .. N : k \in 0 .. N /\ k # 0
    BY <1>4 DEF Digit
  <2>2. f \in [0 .. N -> Nat]
    BY <1>10, <1>14
  <2> QED BY <1>10, <2>1, <2>2 DEF Prefixes
<1> QED
  BY <1>11, <1>15

(* The bucket of the path at a level has the digits down to that level.     *)
LEMMA PrefixOfPath ==
  ASSUME NEW indices \in Indices, NEW f, Prefixes(f, indices), NEW l \in Level,
         TopLevelOrder = 2 \/ l # 0
  PROVE  f[Levels - 1] \div TwoToThe[Levels - 1 - l] = f[l]
<1> DEFINE n == Levels - 1 - l
           S == { m \in 0 .. n : f[l + m] \div TwoToThe[m] = f[l] }
<1>1. l \in Nat /\ n \in Nat /\ l + n = Levels - 1 /\ n <= Levels - 1 /\ Levels \in Nat
  BY LevelsFacts DEF Level
<1>2. 0 \in S
  <2>1. f[l] \in Nat /\ l + 0 = l /\ TwoToThe[0] = 1
    BY <1>1, TwoToTheFacts DEF Prefixes, Level
  <2>2. f[l] \div 1 = f[l]
    BY <2>1
  <2> QED BY <1>1, <2>1, <2>2
<1>3. ASSUME NEW m \in 0 .. n - 1, m \in S PROVE m + 1 \in S
  <2>1. /\ m \in Nat /\ m + 1 \in 0 .. n /\ l + (m + 1) = (l + m) + 1 /\ m \in 0 .. Levels - 1
        /\ (l + m) + 1 \in Digit /\ l + m \in 0 .. Levels - 1 /\ (l + m) + 1 \in 0 .. Levels - 1
        /\ ((l + m) + 1) - 1 = l + m
    BY <1>1 DEF Digit
  <2> DEFINE k == (l + m) + 1
             b == indices[k]
             p == f[l + m]
             u == TwoToThe[m]
  <2>2. f[k] = p * 2 + b /\ b \in 0 .. 1 /\ p \in Nat /\ f[k] \in Nat
    <3>1. k # 1 \/ TopLevelOrder = 2
      BY <1>1, <2>1
    <3>2. LevelSize(k) = 2
      BY <3>1 DEF LevelSize
    <3> QED BY <2>1, <3>2 DEF Prefixes, Indices
  <2>3. u \in Nat \ {0} /\ TwoToThe[m + 1] = 2 * u
    BY <2>1, PowerStep
  <2>4. p \div u = f[l]
    BY <1>3
  <2> HIDE DEF b, p, u, k
  <2>5. f[k] \div (2 * u) = (f[k] \div 2) \div u
    <3>1. 2 \in Nat \ {0}
      OBVIOUS
    <3> QED BY <2>2, <2>3, <3>1, NestedDivision
  <2>6. f[k] \div 2 = p
    BY <2>2
  <2> QED BY <2>1, <2>3, <2>4, <2>5, <2>6 DEF k
<1>4. n \in S
  <2> HIDE DEF S, n
  <2>1. n \in 0 .. n
    BY <1>1
  <2> QED BY <1>1, <1>2, <1>3, <2>1, IntervalInduction
<1> QED
  BY <1>1, <1>4

(* Eviction x goes to the offset whose bits are those of x reversed.        *)
LEMMA ReversedPrefix ==
  ASSUME TopLevelOrder = 2, NEW x \in Nat, NEW f, Prefixes(f, OrderOf(x)), NEW l \in Level
  PROVE  \A o \in 0 .. TwoToThe[l] - 1 : o = f[l] <=> ReverseBits(o, l) = x % TwoToThe[l]
<1> DEFINE Same(k) == \A o \in 0 .. TwoToThe[k] - 1 :
                        o = f[k] <=> ReverseBits(o, k) = x % TwoToThe[k]
           S == { k \in 0 .. l : Same(k) }
<1>1. l \in Nat /\ l <= Levels - 1 /\ Levels \in Nat
  BY LevelsFacts DEF Level
<1>2. 0 \in S
  <2>1. TwoToThe[0] = 1 /\ f[0] = 0 /\ 0 \in 0 .. Levels
    BY <1>1, TwoToTheFacts DEF Prefixes
  <2>2. ReverseBits(0, 0) \in 0 .. 0
    BY <2>1, ReverseBound
  <2>3. x % 1 = 0 /\ 0 .. 1 - 1 = {0}
    OBVIOUS
  <2>4. Same(0)
    BY <2>1, <2>2, <2>3
  <2> QED BY <1>1, <2>4
<1>3. ASSUME NEW k \in 0 .. l - 1, k \in S PROVE k + 1 \in S
  <2>1. /\ k \in Nat /\ k + 1 \in 0 .. l /\ k \in 0 .. Levels - 1 /\ k \in 0 .. Levels
        /\ k + 1 \in Digit /\ (k + 1) - 1 = k
    BY <1>1 DEF Digit
  <2> DEFINE u == TwoToThe[k]
             c == Bit(x, k)
             r == x % u
             p == f[k]
  <2>2. u \in Nat \ {0} /\ TwoToThe[k + 1] = 2 * u
    BY <2>1, PowerStep
  <2>3. c \in 0 .. 1 /\ x % TwoToThe[k + 1] = u * c + r /\ r \in 0 .. u - 1
    BY <2>1, BitSplit
  <2>4. f[k + 1] = p * 2 + c /\ p \in Nat
    BY <2>1 DEF Prefixes, OrderOf, LevelSize
  <2>5. ASSUME NEW h \in 0 .. u - 1 PROVE h = p <=> ReverseBits(h, k) = r
    BY <1>3
  <2> HIDE DEF u, c, r, p
  <2>6. ASSUME NEW o \in 0 .. TwoToThe[k + 1] - 1
        PROVE  o = f[k + 1] <=> ReverseBits(o, k + 1) = x % TwoToThe[k + 1]
    <3> DEFINE h == o \div 2
               b == o % 2
               w == ReverseBits(h, k)
    <3>1. o \in Nat /\ o = 2 * h + b /\ b \in 0 .. 1 /\ h \in 0 .. u - 1 /\ h \in Nat
      BY <2>2, <2>6
    <3>2. ReverseBits(o, k + 1) = u * b + w
      BY <2>1, <3>1, ReverseShift DEF u
    <3>3. w \in 0 .. u - 1
      BY <2>1, <3>1, ReverseBound DEF u
    <3>4. h = p <=> w = r
      BY <2>5, <3>1
    <3> HIDE DEF h, b, w
    <3>5. o = f[k + 1] <=> h = p /\ b = c
      BY <2>3, <2>4, <3>1
    <3>6. u * b + w = u * c + r <=> b = c /\ w = r
      <4>1. CASE b = c
        <5> DEFINE y == u * c
        <5>1. y \in Nat
          BY <2>2, <2>3, Z3
        <5>2. u * b + w = y + w /\ u * c + r = y + r
          BY <4>1
        <5> HIDE DEF y
        <5> QED BY <2>3, <3>3, <4>1, <5>1, <5>2
      <4>2. CASE b = 0 /\ c = 1
        BY <2>2, <2>3, <3>3, <4>2
      <4>3. CASE b = 1 /\ c = 0
        BY <2>2, <2>3, <3>3, <4>3
      <4> QED BY <2>3, <3>1, <4>1, <4>2, <4>3
    <3> QED BY <2>3, <3>2, <3>4, <3>5, <3>6
  <2> QED BY <2>1, <2>6
<1>4. l \in S
  <2> HIDE DEF S
  <2>1. l \in 0 .. l
    BY <1>1
  <2> QED BY <1>1, <1>2, <1>3, <2>1, IntervalInduction
<1> QED
  BY <1>4

LEMMA EvictedBuckets ==
  ASSUME TopLevelOrder = 2, NEW x \in Nat, NEW n \in Bucket
  PROVE  n = BucketOn(PathOf(OrderOf(x)), n[1])
           <=> ReverseBits(n[2], n[1]) = x % TwoToThe[n[1]]
<1>1. n = <<n[1], n[2]>> /\ n[1] \in Level /\ n[2] \in 0 .. TwoToThe[n[1]] - 1
  BY BucketIs
<1>2. PICK f : Prefixes(f, OrderOf(x)) /\ PathOf(OrderOf(x)) = f[Levels - 1]
  BY OrderIsIndices, PathOfIs
<1>3. BucketOn(PathOf(OrderOf(x)), n[1]) = <<n[1], f[n[1]]>>
  BY <1>1, <1>2, OrderIsIndices, PrefixOfPath DEF BucketOn
<1>4. n = <<n[1], f[n[1]]>> <=> n[2] = f[n[1]]
  BY <1>1
<1> QED
  BY <1>1, <1>2, <1>3, <1>4, ReversedPrefix

(* The derived counter of a bucket goes up when an eviction visits it.      *)
LEMMA DerivedCounterAdvances ==
  ASSUME TopLevelOrder = 2, NEW x \in Nat, NEW n \in Bucket
  PROVE  /\ DerivedCounter(x, n) \in Nat
         /\ DerivedCounter(x + 1, n) =
              IF n = BucketOn(PathOf(OrderOf(x)), n[1])
              THEN DerivedCounter(x, n) + 1 ELSE DerivedCounter(x, n)
<1> DEFINE l == n[1]
           m == TwoToThe[l]
           q == x \div m
           r == x % m
           R == ReverseBits(n[2], l)
<1>1. l \in Level /\ l \in 0 .. Levels /\ n[2] \in 0 .. TwoToThe[l] - 1 /\ n[2] \in Nat
  BY BucketIs, LevelsFacts, TwoToTheFacts DEF Level
<1>2. m \in Nat \ {0}
  BY <1>1, TwoToTheFacts
<1>3. R \in 0 .. m - 1
  BY <1>1, ReverseBound
<1>4. n = BucketOn(PathOf(OrderOf(x)), n[1]) <=> R = r
  BY EvictedBuckets
<1>5. /\ DerivedCounter(x, n) = q + (IF R < r THEN 1 ELSE 0)
      /\ DerivedCounter(x + 1, n) = ((x + 1) \div m) + (IF R < (x + 1) % m THEN 1 ELSE 0)
  BY DEF DerivedCounter
<1> HIDE DEF l, m, R
<1>6. q \in Nat /\ r \in 0 .. m - 1
  BY <1>2, QuotientFacts
<1>7. /\ (x + 1) \div m = q + (IF r = m - 1 THEN 1 ELSE 0)
      /\ (x + 1) % m = IF r = m - 1 THEN 0 ELSE r + 1
  BY <1>2, NextQuotient
<1> HIDE DEF q, r
<1>8. CASE r = m - 1
  BY <1>2, <1>3, <1>4, <1>5, <1>6, <1>7, <1>8
<1>9. CASE r # m - 1
  BY <1>2, <1>3, <1>4, <1>5, <1>6, <1>7, <1>9
<1> QED
  BY <1>8, <1>9

(* No bucket is visited twice before another one of its level.              *)
LEMMA DerivedCounterBalanced ==
  ASSUME NEW x \in Nat, NEW n \in Bucket, NEW m \in Bucket, n[1] = m[1]
  PROVE  DerivedCounter(x, n) <= DerivedCounter(x, m) + 1
<1> DEFINE q == x \div TwoToThe[n[1]]
<1>1. TwoToThe[n[1]] \in Nat \ {0}
  <2>1. n[1] \in 0 .. Levels
    BY BucketIs, LevelsFacts DEF Level
  <2> QED BY <2>1, TwoToTheFacts
<1>2. q \in Nat
  BY <1>1, QuotientFacts
<1>3. /\ DerivedCounter(x, n) = q \/ DerivedCounter(x, n) = q + 1
      /\ DerivedCounter(x, m) = q \/ DerivedCounter(x, m) = q + 1
  <2>1. q + 0 = q
    BY <1>2
  <2> QED BY <2>1 DEF DerivedCounter
<1> QED
  BY <1>2, <1>3

-----------------------------------------------------------------------------
(* Under a unary root every path has the two uppermost buckets in common... *)
LEMMA TopBuckets ==
  ASSUME TopLevelOrder = 1, NEW n \in Bucket, n[1] \in 0 .. 1, NEW path \in Path
  PROVE  n = BucketOn(path, n[1])
<1>1. PICK p \in Path, l \in Level : n = BucketOn(p, l)
  BY DEF Bucket
<1>2. l = n[1] /\ l \in 0 .. 1
  BY <1>1 DEF BucketOn
<1>3. /\ Levels - 2 \in 0 .. Levels /\ Levels - 1 \in 1 .. Levels
      /\ (Levels - 1) - 1 = Levels - 2 /\ Levels - 1 \in 0 .. Levels
      /\ Levels - 1 - 0 = Levels - 1 /\ Levels - 1 - 1 = Levels - 2
  BY LevelsFacts
<1> DEFINE u == TwoToThe[Levels - 2]
           m == TwoToThe[Levels - 1 - l]
<1>4. u \in Nat \ {0} /\ (m = u \/ m = 2 * u)
  BY <1>2, <1>3, TwoToTheFacts
<1>5. Path = 0 .. u - 1
  <2>1. u \in Nat /\ 1 * u = u
    BY <1>4
  <2> HIDE DEF u
  <2>2. NumPaths = TopLevelOrder * u
    BY DEF NumPaths, u
  <2> QED BY <2>1, <2>2 DEF Path
<1> HIDE DEF u, m
<1>6. ASSUME NEW q \in Path PROVE q \div m = 0
  <2>1. q \in 0 .. m - 1 /\ q \in Nat /\ m \in Nat \ {0}
    BY <1>4, <1>5
  <2>2. m * 0 + q = q /\ 0 \in Int
    BY <2>1
  <2> QED BY <2>1, <2>2, QuotientUnique
<1> QED
  BY <1>1, <1>2, <1>6 DEF BucketOn, m

(* ... and the first two evictions no other.                                *)
LEMMA FirstTwoEvictions ==
  ASSUME TopLevelOrder = 1, NEW n \in Bucket, n[1] \notin 0 .. 1,
         n = BucketOn(PathOf(FirstIndices), n[1])
  PROVE  n # BucketOn(PathOf(Advanced(FirstIndices)), n[1])
<1> DEFINE l == n[1]
           second == Advanced(FirstIndices)
<1>1. /\ l \in Level /\ l \in Nat /\ l >= 2 /\ l <= Levels - 1 /\ Levels \in Nat
      /\ l # 0 /\ l - 2 \in Nat
  BY BucketLevel, LevelsFacts DEF Level
<1>2. FirstIndices \in Indices /\ second \in Indices
  BY FirstIndicesType, AdvancedType
<1>3. PICK f : Prefixes(f, FirstIndices) /\ PathOf(FirstIndices) = f[Levels - 1]
  BY <1>2, PathOfIs
<1>4. PICK g : Prefixes(g, second) /\ PathOf(second) = g[Levels - 1]
  BY <1>2, PathOfIs
<1>5. second[2] = 1
  <2>1. 1 \in Digit /\ 2 \in Digit /\ \A j \in Digit : j < 2 => j = 1
    BY <1>1 DEF Digit
  <2>2. FirstIndices[1] = 0 /\ FirstIndices[2] = 0 /\ LevelSize(1) = 1 /\ LevelSize(2) = 2
    BY <2>1 DEF FirstIndices, LevelSize
  <2>3. second[2] = IF \A j \in Digit : j < 2 => FirstIndices[j] = LevelSize(j) - 1
                    THEN (FirstIndices[2] + 1) % LevelSize(2) ELSE FirstIndices[2]
    BY <2>1 DEF Advanced
  <2>4. \A j \in Digit : j < 2 => FirstIndices[j] = LevelSize(j) - 1
    BY <2>1, <2>2
  <2> QED BY <2>2, <2>3, <2>4
<1> DEFINE S == { k \in 0 .. l : f[k] = 0 }
           T == { k \in 0 .. l - 2 : g[2 + k] >= 1 }
<1>6. l \in S
  <2>1. 0 \in S
    BY <1>1, <1>3 DEF Prefixes
  <2>2. ASSUME NEW k \in 0 .. l - 1, k \in S PROVE k + 1 \in S
    <3>1. k + 1 \in Digit /\ (k + 1) - 1 = k /\ k + 1 \in 0 .. l
      BY <1>1 DEF Digit
    <3>2. f[k + 1] = f[k] * LevelSize(k + 1) + FirstIndices[k + 1]
      BY <1>3, <3>1 DEF Prefixes
    <3>3. FirstIndices[k + 1] = 0 /\ f[k] = 0
      BY <2>2, <3>1 DEF FirstIndices
    <3>4. LevelSize(k + 1) \in 1 .. 2
      BY LevelsFacts DEF LevelSize
    <3>5. f[k + 1] = 0
      BY <3>2, <3>3, <3>4
    <3> QED BY <3>1, <3>5
  <2>3. l \in 0 .. l
    BY <1>1
  <2> HIDE DEF S, l
  <2> QED BY <1>1, <2>1, <2>2, <2>3, IntervalInduction
<1>7. l - 2 \in T
  <2>1. 0 \in T
    <3>1. /\ 2 \in Digit /\ 2 - 1 = 1 /\ 2 + 0 = 2 /\ 1 \in 0 .. Levels - 1
          /\ 2 \in 0 .. Levels - 1 /\ LevelSize(2) = 2
      BY <1>1 DEF Digit, LevelSize
    <3>2. g[2] = g[1] * 2 + 1 /\ g[1] \in Nat
      BY <1>4, <1>5, <3>1 DEF Prefixes
    <3> QED BY <1>1, <3>1, <3>2
  <2>2. ASSUME NEW k \in 0 .. (l - 2) - 1, k \in T PROVE k + 1 \in T
    <3>1. /\ 2 + (k + 1) = (2 + k) + 1 /\ (2 + k) + 1 \in Digit /\ ((2 + k) + 1) - 1 = 2 + k
          /\ 2 + k \in 0 .. Levels - 1 /\ (2 + k) + 1 \in 0 .. Levels - 1
          /\ k + 1 \in 0 .. l - 2 /\ (2 + k) + 1 # 1
      BY <1>1 DEF Digit
    <3>2. LevelSize((2 + k) + 1) = 2
      BY <3>1 DEF LevelSize
    <3>3. g[(2 + k) + 1] = g[2 + k] * 2 + second[(2 + k) + 1] /\ g[2 + k] \in Nat
      BY <1>4, <3>1, <3>2 DEF Prefixes
    <3>4. second[(2 + k) + 1] \in 0 .. 1 /\ g[2 + k] >= 1
      BY <1>2, <2>2, <3>1 DEF Indices
    <3>5. g[(2 + k) + 1] >= 1
      <4> DEFINE d == second[(2 + k) + 1]
                 h == g[2 + k]
      <4> HIDE DEF d, h
      <4> QED BY <3>3, <3>4 DEF d, h
    <3> QED BY <3>1, <3>5
  <2>3. l - 2 \in 0 .. l - 2
    BY <1>1
  <2> HIDE DEF T, l
  <2> QED BY <1>1, <2>1, <2>2, <2>3, IntervalInduction
<1>8. f[l] = 0 /\ g[l] >= 1
  <2>1. 2 + (l - 2) = l
    BY <1>1
  <2> QED BY <1>6, <1>7, <2>1
<1>9. /\ BucketOn(PathOf(FirstIndices), l) = <<l, f[l]>>
      /\ BucketOn(PathOf(second), l) = <<l, g[l]>>
  <2> HIDE DEF second, l
  <2> QED BY <1>1, <1>2, <1>3, <1>4, PrefixOfPath DEF BucketOn
<1>10. <<l, f[l]>> # <<l, g[l]>>
  BY <1>8
<1> QED
  BY <1>9, <1>10
=============================================================================
