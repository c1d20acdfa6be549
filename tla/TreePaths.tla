------------------------------ MODULE TreePaths ------------------------------
(***************************************************************************)
(* The bucket tree of PageOptimizedRAWOram: buckets, paths, the order in   *)
(* which eviction visits the paths, and the counter every page is          *)
(* encrypted under.  The tree is binary except at the root, whose number   *)
(* of children compute_parameters calls top_level_order.                   *)
(***************************************************************************)
EXTENDS Integers

CONSTANTS
  Levels,         \* levels: the number of buckets on a path
  TopLevelOrder   \* top_level_order: the children of the root bucket

ASSUME LevelsAssumption == Levels \in Nat /\ Levels >= 2
ASSUME TopLevelOrderAssumption == TopLevelOrder \in {1, 2}

Level == 0 .. Levels - 1

(* 1 << n.  A recursive function, for its values to be provable. *)
TwoToThe[n \in 0 .. Levels] == IF n = 0 THEN 1 ELSE 2 * TwoToThe[n - 1]

NumPaths == TopLevelOrder * TwoToThe[Levels - 2]

Path == 0 .. NumPaths - 1

(* The bucket of a path at a level: the level and the offset in the level. *)
BucketOn(path, l) == <<l, path \div TwoToThe[Levels - 1 - l]>>

Bucket == { BucketOn(path, l) : path \in Path, l \in Level }

-----------------------------------------------------------------------------
(* EvictionPathGenerator: a mixed-radix counter over the levels below the  *)
(* root.  Digit 1 is the child of the root and changes fastest.            *)
LevelSize(i) == IF i = 1 THEN TopLevelOrder ELSE 2

Digit == 1 .. Levels - 1

Indices == { f \in [Digit -> 0 .. 1] : \A i \in Digit : f[i] < LevelSize(i) }

FirstIndices == [i \in Digit |-> 0]

PathOf(indices) ==
  LET prefix[i \in 0 .. Levels - 1] ==
        IF i = 0 THEN 0 ELSE prefix[i - 1] * LevelSize(i) + indices[i]
  IN  prefix[Levels - 1]

(* Faulty variant: no digit ever wraps. *)
AdvancedWithoutWrap(indices) ==
  [i \in Digit |->
     IF \A j \in Digit : j < i => indices[j] = LevelSize(j) - 1
     THEN indices[i] + 1
     ELSE indices[i]]

(* Faulty variant: the last digit changes fastest. *)
AdvancedFromLeaf(indices) ==
  [i \in Digit |->
     IF \A j \in Digit : j > i => indices[j] = LevelSize(j) - 1
     THEN (indices[i] + 1) % LevelSize(i)
     ELSE indices[i]]

Advanced(indices) ==
  [i \in Digit |->
     IF \A j \in Digit : j < i => indices[j] = LevelSize(j) - 1
     THEN (indices[i] + 1) % LevelSize(i)
     ELSE indices[i]]

-----------------------------------------------------------------------------
ReverseBits(value, bits) ==
  LET reversed[i \in 0 .. bits] ==
        IF i = 0 THEN 0 ELSE 2 * reversed[i - 1] + ((value \div TwoToThe[i - 1]) % 2)
  IN  reversed[bits]

(* Faulty variant: the page is counted one eviction early. *)
DerivedCounterEarly(root, bucket) ==
  LET l == bucket[1]
  IN  root \div TwoToThe[l]
      + (IF ReverseBits(bucket[2], l) <= root % TwoToThe[l] THEN 1 ELSE 0)

(* The counter read_path and write_path derive for a page from the number  *)
(* of evictions done so far: no page counter is stored anywhere.           *)
DerivedCounter(root, bucket) ==
  LET l == bucket[1]
  IN  root \div TwoToThe[l]
      + (IF ReverseBits(bucket[2], l) < root % TwoToThe[l] THEN 1 ELSE 0)
=============================================================================
