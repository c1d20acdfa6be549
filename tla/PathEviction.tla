---------------------------- MODULE PathEviction ----------------------------
(***************************************************************************)
(* What the path ORAMs share: blocks in the slots of buckets and of the    *)
(* Stash, and the scans by which eviction fills the buckets of a path.     *)
(* PageOptimizedRAWOram::eviction_access and BinaryPathOram2::             *)
(* evict_and_write_path go through the same rounds.                        *)
(***************************************************************************)
EXTENDS TreePaths, FiniteSets

CONSTANTS
  Block,            \* logical block addresses 0 .. num_blocks - 1
  Value,            \* payloads; fast_init writes b itself in block b
  NoBlock,          \* the content of a free slot
  BlocksPerBucket,  \* blocks_per_bucket
  StashCapacity     \* Stash::capacity()

Slot == 0 .. BlocksPerBucket - 1
StashSlot == 0 .. StashCapacity - 1
Entry == [id : Block, path : Path, data : Value]
Content == Entry \cup {NoBlock}

ASSUME NoBlockAssumption == NoBlock \notin Entry \cup Value
ASSUME CapacityAssumption ==
  BlocksPerBucket \in Nat \ {0} /\ StashCapacity \in Nat \ {0}

Holds(content, b) == content # NoBlock /\ content.id = b

(* What a lookup of block b leaves of stash s and tree t.  The path is      *)
(* searched only when the stash did not hold the block.                     *)
ErasedStash(s, b) == [i \in StashSlot |-> IF Holds(s[i], b) THEN NoBlock ELSE s[i]]

ErasedTree(t, s, path, b) ==
  LET searched == \A i \in StashSlot : ~Holds(s[i], b)
  IN  [n \in Bucket |-> [u \in Slot |->
         IF searched /\ n = BucketOn(path, n[1]) /\ Holds(t[n][u], b)
         THEN NoBlock ELSE t[n][u]]]

-----------------------------------------------------------------------------
(* Eviction works on the path buffer and the stash together: held[p] is the *)
(* content of place p, <<level, slot>> with the stash as level -1.  A round *)
(* scans the buffer from its level up to the root and then the stash.       *)
StashLevel == -1
Place == (Level \X Slot) \cup ({StashLevel} \X StashSlot)

Gathered(t, s, path) ==
  [p \in Place |-> IF p[1] = StashLevel THEN s[p[2]] ELSE t[BucketOn(path, p[1])][p[2]]]

(* Faulty variant: the scan goes from the root down. *)
PrecedesFromRoot(p, q) == p[1] < q[1] \/ (p[1] = q[1] /\ p[2] < q[2])

Precedes(p, q) == p[1] > q[1] \/ (p[1] = q[1] /\ p[2] < q[2])

(* Faulty variant: ignored_bits is one too many, but for the root. *)
CandidatesOneLevelUp(held, path, l) ==
  { p \in Place : /\ p[1] <= l
                  /\ held[p] # NoBlock
                  /\ l > 0 => BucketOn(held[p].path, l - 1) = BucketOn(path, l - 1) }

(* Faulty variant: only the bucket itself and the stash are scanned. *)
CandidatesBesideTheLevel(held, path, l) ==
  { p \in Place : /\ p[1] \in {l, StashLevel}
                  /\ held[p] # NoBlock
                  /\ BucketOn(held[p].path, l) = BucketOn(path, l) }

(* The blocks that may go into the bucket at level l of the path. *)
Candidates(held, path, l) ==
  { p \in Place : /\ p[1] <= l
                  /\ held[p] # NoBlock
                  /\ BucketOn(held[p].path, l) = BucketOn(path, l) }

Rank(places, p) == Cardinality({ q \in places : Precedes(q, p) })

(* Faulty variant: num_blocks_evicted is compared with <= max_count. *)
ChosenOneTooMany(places) == { p \in places : Rank(places, p) <= BlocksPerBucket }

(* The first blocks_per_bucket places of a scan. *)
Chosen(places) == { p \in places : Rank(places, p) < BlocksPerBucket }

(* Faulty variant: a round leaves the valid bits of the blocks it takes set. *)
TakenKeepingValid(held, path) ==
  [k \in 0 .. Levels |->
     IF k = 0 THEN {} ELSE Chosen(Candidates(held, path, Levels - k))]

(* The rounds of eviction_access run from the leaf to the root: each fills  *)
(* the bucket of its level with the first candidates no earlier round has   *)
(* taken, and clears their valid bits.  Taken(held, path)[k] is what the    *)
(* first k rounds take.                                                     *)
Taken(held, path) ==
  LET taken[k \in 0 .. Levels] ==
        IF k = 0 THEN {}
        ELSE LET earlier == taken[k - 1]
             IN  earlier \cup Chosen(Candidates(held, path, Levels - k) \ earlier)
  IN  taken

(* The bucket at level l after its round: the chosen blocks in scan order.  *)
(* What it held before and no round has taken is overwritten.               *)
Refilled(held, path, taken, l) ==
  LET left == Candidates(held, path, l) \ taken[Levels - 1 - l]
  IN  [s \in Slot |-> IF \E p \in left : Rank(left, p) = s
                      THEN held[CHOOSE p \in left : Rank(left, p) = s]
                      ELSE NoBlock]

(* The tree and the stash an eviction on a path leaves of t and s. *)
EvictedTree(t, s, path) ==
  LET held == Gathered(t, s, path)
  IN  [n \in Bucket |-> IF n = BucketOn(path, n[1])
                        THEN Refilled(held, path, Taken(held, path), n[1])
                        ELSE t[n]]

EvictedStash(t, s, path) ==
  LET taken == Taken(Gathered(t, s, path), path)
  IN  [i \in StashSlot |-> IF <<StashLevel, i>> \in taken[Levels] THEN NoBlock ELSE s[i]]
=============================================================================
