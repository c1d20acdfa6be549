------------------------------- MODULE RawOram -------------------------------
(***************************************************************************)
(* PageOptimizedRAWOram with its Stash: a tree of buckets, a bounded stash *)
(* and a position map that assigns every block a path.  An access looks    *)
(* the block up in the stash and on its path, moves it to the stash under  *)
(* a fresh random path, and every num_accesses_per_eviction placements one *)
(* path is rewritten with as many blocks as fit.                           *)
(*                                                                         *)
(* tree[n][s] is the block in slot s of bucket n whose valid bit is set,   *)
(* NoBlock where the bit is clear: an access clears bits and never         *)
(* rewrites a page, so a bucket's stale copies are invisible to the code.  *)
(* Stash slots are kept in order, as is the order in which they are        *)
(* scanned.  A payload is one value; offset and length are left out.       *)
(***************************************************************************)
EXTENDS PathEviction

CONSTANTS
  NoReply,                  \* the reply of a request that returns no data
  NumAccessesPerEviction,   \* num_accesses_per_eviction
  BypassPathReadOnStashHit, \* bypass_path_read_on_stash_hit
  MaxEvictions              \* bound of the model on root_counter

ASSUME RawOramAssumption ==
  /\ Block \subseteq Value /\ Block # {}
  /\ NumAccessesPerEviction \in Nat \ {0}
  /\ BypassPathReadOnStashHit \in BOOLEAN
  /\ MaxEvictions \in Nat
  /\ NoReply \notin Value

VARIABLES
  posmap,         \* position_map: the path of every block address
  tree,           \* untrusted_memory seen through the valid bits
  stash,          \* Stash::metadata and Stash::data_blocks
  accessCounter,  \* access_counter: placements since the last eviction
  rootCounter,    \* root_counter: evictions done
  indices,        \* EvictionPathGenerator::level_indices
  pageCounter,    \* the counter each page was last encrypted under
  status,         \* "ok", or the exception that ended the program
  reply           \* what the last request returned

counters == <<rootCounter, indices, pageCounter>>
vars == <<posmap, tree, stash, accessCounter, counters, status, reply>>

Failure == {"StashOverflow", "AuthTagVerificationFailed", "BlockDoesNotExist",
            "DuplicateBlocks"}

TypeOK ==
  /\ posmap \in [Block -> Path]
  /\ tree \in [Bucket -> [Slot -> Content]]
  /\ stash \in [StashSlot -> Content]
  /\ accessCounter \in 0 .. NumAccessesPerEviction
  /\ rootCounter \in Nat
  /\ indices \in Indices
  /\ pageCounter \in [Bucket -> Nat]
  /\ status \in {"ok"} \cup Failure
  /\ reply \in Value \cup {NoReply}

-----------------------------------------------------------------------------
(* init(): no block exists yet; every address is given a random path. *)
EmptyTree ==
  /\ posmap \in [Block -> Path]
  /\ tree = [n \in Bucket |-> [s \in Slot |-> NoBlock]]

(* fast_init(): every block in a slot of its own, on a random path through *)
(* its bucket, holding its own number.  Under a unary root it draws paths  *)
(* of a tree twice as wide, outside Path, and is not modelled.             *)
FilledTree ==
  /\ TopLevelOrder = 2
  /\ \E at \in [Block -> Bucket \X Slot] :
       /\ \A a, b \in Block : at[a] = at[b] => a = b
       /\ posmap \in [Block -> Path]
       /\ \A b \in Block : BucketOn(posmap[b], at[b][1][1]) = at[b][1]
       /\ tree = [n \in Bucket |-> [s \in Slot |->
                    IF \E b \in Block : at[b] = <<n, s>>
                    THEN LET b == CHOOSE a \in Block : at[a] = <<n, s>>
                         IN  [id |-> b, path |-> posmap[b], data |-> b]
                    ELSE NoBlock]]

Init ==
  /\ EmptyTree \/ FilledTree
  /\ stash = [i \in StashSlot |-> NoBlock]
  /\ accessCounter = 0
  /\ rootCounter = 0
  /\ indices = FirstIndices
  /\ pageCounter = [n \in Bucket |-> 0]
  /\ status = "ok"
  /\ reply = NoReply

-----------------------------------------------------------------------------
(* Looking a block up: Stash::find_and_remove_block, then the path buffer. *)
StashHits(b) == { i \in StashSlot : Holds(stash[i], b) }

PathHits(b, path) ==
  { p \in Level \X Slot : Holds(tree[BucketOn(path, p[1])][p[2]], b) }

Found(b) == StashHits(b) # {} \/ PathHits(b, posmap[b]) # {}

(* Path hits are copied over one another from the root down: the last wins. *)
FoundEntry(b) ==
  IF StashHits(b) # {}
  THEN stash[CHOOSE i \in StashHits(b) : TRUE]
  ELSE LET last == CHOOSE p \in PathHits(b, posmap[b]) :
                     \A q \in PathHits(b, posmap[b]) :
                       q[1] < p[1] \/ (q[1] = p[1] /\ q[2] <= p[2])
       IN  tree[BucketOn(posmap[b], last[1])][last[2]]

StashWithout(b) == ErasedStash(stash, b)

(* What a scan that throws at the second copy leaves. *)
StashWithoutFirst(b) ==
  [i \in StashSlot |->
     IF i \in StashHits(b) /\ \A j \in StashHits(b) : i <= j THEN NoBlock ELSE stash[i]]

(* Faulty variant: a block found on the path keeps its valid bit. *)
TreeWithoutInvalidation(b) == tree

(* Every copy on the path loses its valid bit; the bits are written back. *)
TreeWithout(b) == ErasedTree(tree, stash, posmap[b], b)

ReadsPath(b) == ~BypassPathReadOnStashHit \/ StashHits(b) = {}

(* read_path decrypts every page of the path under its derived counter. *)
Decryptable(path) ==
  \A l \in Level :
    pageCounter[BucketOn(path, l)] = DerivedCounter(rootCounter, BucketOn(path, l))

-----------------------------------------------------------------------------
(* eviction_access() on tree t and stash s. *)
EvictionAccess(t, s) ==
  LET path == PathOf(indices)
  IN  /\ indices' = Advanced(indices)
      /\ IF Decryptable(path)
         THEN /\ tree' = EvictedTree(t, s, path)
              /\ stash' = EvictedStash(t, s, path)
              /\ pageCounter' = [n \in Bucket |-> IF n = BucketOn(path, n[1])
                                                  THEN DerivedCounter(rootCounter, n) + 1
                                                  ELSE pageCounter[n]]
              /\ rootCounter' = rootCounter + 1
              /\ accessCounter' = 0
              /\ UNCHANGED status
         ELSE /\ tree' = t /\ stash' = s
              /\ accessCounter' = accessCounter + 1
              /\ status' = "AuthTagVerificationFailed"
              /\ UNCHANGED <<pageCounter, rootCounter>>

-----------------------------------------------------------------------------
(* place_block_on_path(): Stash::add_block, then an eviction when enough   *)
(* placements have gone by.  A dummy is placed as NoBlock: it needs a free *)
(* slot and counts as a placement, but leaves the slot free.               *)
PlaceBlockOnPath(t, s, content, r) ==
  LET free == { i \in StashSlot : s[i] = NoBlock }
      added == [s EXCEPT ![CHOOSE i \in free : \A j \in free : i <= j] = content]
  IN  \/ /\ free = {}
         /\ status' = "StashOverflow"
         /\ tree' = t /\ stash' = s /\ reply' = NoReply
         /\ UNCHANGED <<accessCounter, counters>>
      \/ /\ free # {}
         /\ accessCounter + 1 < NumAccessesPerEviction
         /\ accessCounter' = accessCounter + 1
         /\ tree' = t /\ stash' = added /\ reply' = r
         /\ UNCHANGED <<counters, status>>
      \/ /\ free # {}
         /\ accessCounter + 1 >= NumAccessesPerEviction
         /\ rootCounter < MaxEvictions
         /\ EvictionAccess(t, added)
         /\ reply' = IF Decryptable(PathOf(indices)) THEN r ELSE NoReply

(* read_and_update_position_map() *)
Remap(b, newPath) == posmap' = [posmap EXCEPT ![b] = newPath]

LookupFailure(b) ==
  IF Cardinality(StashHits(b)) > 1 THEN "DuplicateBlocks"
  ELSE IF ReadsPath(b) /\ ~Decryptable(posmap[b]) THEN "AuthTagVerificationFailed"
  ELSE "ok"

LookupSucceeds(b) == status = "ok" /\ LookupFailure(b) = "ok"

(* Faulty variant: the metadata keeps the path the block was found on. *)
MoveToStashUnderOldPath(b, newPath, data, r) ==
  /\ Remap(b, newPath)
  /\ PlaceBlockOnPath(TreeWithout(b), StashWithout(b),
                      [id |-> b, path |-> posmap[b], data |-> data], r)

MoveToStash(b, newPath, data, r) ==
  /\ Remap(b, newPath)
  /\ PlaceBlockOnPath(TreeWithout(b), StashWithout(b),
                      [id |-> b, path |-> newPath, data |-> data], r)

-----------------------------------------------------------------------------
(* access_block(), one action per request type. *)
Read(b, newPath) ==
  /\ LookupSucceeds(b) /\ Found(b)
  /\ MoveToStash(b, newPath, FoundEntry(b).data, FoundEntry(b).data)

(* A block that does not exist is created by its first write. *)
Write(b, newPath, v) ==
  /\ LookupSucceeds(b)
  /\ MoveToStash(b, newPath, v, NoReply)

ReadWrite(b, newPath, v) ==
  /\ LookupSucceeds(b) /\ Found(b)
  /\ MoveToStash(b, newPath, v, FoundEntry(b).data)

(* The popped block is handed to the client and not placed again. *)
Pop(b, newPath) ==
  /\ LookupSucceeds(b) /\ Found(b)
  /\ Remap(b, newPath)
  /\ tree' = TreeWithout(b) /\ stash' = StashWithout(b)
  /\ reply' = FoundEntry(b).data
  /\ UNCHANGED <<accessCounter, counters, status>>

(* Clients push only blocks they have popped; the ORAM does not look. *)
Push(b, newPath, v) ==
  /\ status = "ok" /\ ~Found(b)
  /\ Remap(b, newPath)
  /\ PlaceBlockOnPath(tree, stash, [id |-> b, path |-> newPath, data |-> v], NoReply)

(* Reads the path of a random address, removes nothing. *)
DummyPop(b) ==
  /\ status = "ok"
  /\ status' = IF Decryptable(posmap[b]) THEN "ok" ELSE "AuthTagVerificationFailed"
  /\ reply' = NoReply
  /\ UNCHANGED <<posmap, tree, stash, accessCounter, counters>>

DummyPush ==
  /\ status = "ok"
  /\ PlaceBlockOnPath(tree, stash, NoBlock, NoReply)
  /\ UNCHANGED posmap

(* The lookup of any request throws, or a READ, READ_WRITE or POP does not  *)
(* find its block, after the position map has been updated and a copy has  *)
(* left the stash.                                                         *)
LookupThrows(b, newPath) ==
  /\ status = "ok" /\ (LookupFailure(b) # "ok" \/ ~Found(b))
  /\ Remap(b, newPath)
  /\ status' = IF LookupFailure(b) # "ok" THEN LookupFailure(b) ELSE "BlockDoesNotExist"
  /\ reply' = NoReply
  /\ stash' = StashWithoutFirst(b)
  /\ UNCHANGED <<tree, accessCounter, counters>>

(* save_to_disk() and load_from_disk() in a new process: everything is     *)
(* saved but access_counter, which the constructor then takes as 0.        *)
SaveAndLoad ==
  /\ status = "ok"
  /\ accessCounter' = 0
  /\ UNCHANGED <<posmap, tree, stash, counters, status, reply>>

Next ==
  \/ DummyPush
  \/ SaveAndLoad
  \/ \E b \in Block : DummyPop(b)
  \/ \E b \in Block, newPath \in Path :
       \/ Read(b, newPath)
       \/ Pop(b, newPath)
       \/ LookupThrows(b, newPath)
       \/ \E v \in Value :
            Write(b, newPath, v) \/ ReadWrite(b, newPath, v) \/ Push(b, newPath, v)

Spec == Init /\ [][Next]_vars

-----------------------------------------------------------------------------
(* Path ORAM's invariant: every block of the tree lies on the path the     *)
(* position map gives it, and carries that path in its metadata; so does   *)
(* every block of the stash.  A lookup reads one path and would miss it    *)
(* otherwise.                                                              *)
BlocksOnTheirPaths ==
  status = "ok" =>
    /\ \A n \in Bucket, s \in Slot : tree[n][s] # NoBlock =>
         /\ tree[n][s].path = posmap[tree[n][s].id]
         /\ n = BucketOn(tree[n][s].path, n[1])
    /\ \A i \in StashSlot : stash[i] # NoBlock => stash[i].path = posmap[stash[i].id]

(* A block is in one slot of the tree or the stash at most: eviction and   *)
(* lookup never leave a second, stale, copy whose valid bit is set.        *)
AtMostOneCopy ==
  /\ \A i, j \in StashSlot :
       stash[i] # NoBlock /\ stash[j] # NoBlock /\ stash[i].id = stash[j].id => i = j
  /\ \A n, m \in Bucket : \A s, u \in Slot :
       tree[n][s] # NoBlock /\ tree[m][u] # NoBlock /\ tree[n][s].id = tree[m][u].id
         => n = m /\ s = u
  /\ \A n \in Bucket, s \in Slot, i \in StashSlot :
       tree[n][s] # NoBlock /\ stash[i] # NoBlock => tree[n][s].id # stash[i].id

(* The counter read_path derives from root_counter alone is the one the    *)
(* page was written under, for every page of the tree at every moment: no  *)
(* page ever fails its authentication tag.                                 *)
PagesDecryptable == \A path \in Path : Decryptable(path)

(* Eviction is greedy from the leaf up: a bucket of the evicted path is    *)
(* left with room only if no block of the stash, and no block higher on    *)
(* the path, could have gone there.                                        *)
EvictionPacksPath ==
  [][rootCounter' # rootCounter =>
       LET path == PathOf(indices)
           fits(c, l) == c # NoBlock /\ BucketOn(c.path, l) = BucketOn(path, l)
       IN  \A l \in Level :
             (\E s \in Slot : tree'[BucketOn(path, l)][s] = NoBlock) =>
               /\ \A i \in StashSlot : ~fits(stash'[i], l)
               /\ \A k \in 0 .. l - 1, s \in Slot : ~fits(tree'[BucketOn(path, k)][s], l)]_vars

(* Reverse lexicographic order spreads the evictions: two buckets of one    *)
(* level have been rewritten equally often, give or take one, so a block    *)
(* waits for a bucket on its path no longer than for any other.             *)
EvictionsBalanced ==
  \A n, m \in Bucket : n[1] = m[1] => pageCounter[n] <= pageCounter[m] + 1

(* An eviction is due every num_accesses_per_eviction placements: the      *)
(* counter goes back only when an eviction has run.                        *)
CounterResetOnlyByEviction ==
  [][accessCounter' < accessCounter => rootCounter' # rootCounter]_vars

(* The ORAM implements a plain store of blocks: whatever eviction moves,   *)
(* a request sees the last value written, and an exception costs at most   *)
(* the block it was about.                                                 *)
Contents == [b \in Block |-> IF Found(b) THEN FoundEntry(b).data ELSE NoBlock]

Store == INSTANCE BlockStore
  WITH Absent <- NoBlock, store <- Contents, running <- (status = "ok")

ImplementsBlockStore == Store!StoreSpec
=============================================================================
