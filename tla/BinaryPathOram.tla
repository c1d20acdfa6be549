--------------------------- MODULE BinaryPathOram ---------------------------
(***************************************************************************)
(* BinaryPathOram: the Path ORAM without encryption.  An access takes the  *)
(* block out of the stash or off its path, gives it a new path, puts it in *)
(* the stash and evicts onto the path it read; a stash hit may do without  *)
(* the path.  The buckets are reached through UntrustedMemoryController,   *)
(* see BucketTree for what lies below them.                                *)
(***************************************************************************)
EXTENDS PathEviction

CONSTANTS
  NoReply,                 \* the reply of a request that returns no data
  BypassPathReadOnStashHit \* bypass_path_read_on_stash_hit

Parameters ==
  /\ TopLevelOrder = 2
  /\ NoReply \notin Value
  /\ BypassPathReadOnStashHit \in BOOLEAN
  /\ StashCapacity = Levels    \* stash(block_size, levels)

ASSUME BinaryPathOramAssumption == Parameters

VARIABLES
  posmap,  \* position_map
  tree,    \* untrusted_memory
  stash,
  status,  \* "ok", or the exception that ended the program
  reply    \* what the last request returned

vars == <<posmap, tree, stash, status, reply>>

TypeOK ==
  /\ posmap \in [Block -> Path]
  /\ tree \in [Bucket -> [Slot -> Content]]
  /\ stash \in [StashSlot -> Content]
  /\ status \in {"ok", "StashOverflow", "BlockDoesNotExist"}
  /\ reply \in Value \cup {NoReply}

Init ==
  /\ posmap \in [Block -> Path]
  /\ tree = [n \in Bucket |-> [s \in Slot |-> NoBlock]]
  /\ stash = [i \in StashSlot |-> NoBlock]
  /\ status = "ok" /\ reply = NoReply

-----------------------------------------------------------------------------
StashHits(b) == { i \in StashSlot : Holds(stash[i], b) }

PathHits(b) == { p \in Level \X Slot : Holds(tree[BucketOn(posmap[b], p[1])][p[2]], b) }

(* The block an access is about: the path is searched after the stash. *)
Target(b) ==
  CASE StashHits(b) # {} -> stash[CHOOSE i \in StashHits(b) : TRUE]
    [] StashHits(b) = {} /\ PathHits(b) # {} ->
         LET p == CHOOSE p \in PathHits(b) : TRUE IN tree[BucketOn(posmap[b], p[1])][p[2]]
    [] OTHER -> NoBlock

Bypasses(b) == BypassPathReadOnStashHit /\ StashHits(b) # {}

(* Both searches throw at a second hit. *)
Running(b) ==
  /\ status = "ok"
  /\ Cardinality(StashHits(b)) <= 1
  /\ StashHits(b) = {} => Cardinality(PathHits(b)) <= 1

(* Faulty variant: the block is copied out of the path buffer and stays valid. *)
TreeAsItIs(b) == tree

TreeWithout(b) == ErasedTree(tree, stash, posmap[b], b)

StashWithout(b) == ErasedStash(stash, b)

(* The rounds of PathEviction over the path that was read. *)
Evict(t, s, path) ==
  /\ tree' = EvictedTree(t, s, path)
  /\ stash' = EvictedStash(t, s, path)

(* Faulty variant: the block in the stash keeps the path it had. *)
OldPath(b, newPath) == posmap[b]

(* set_path(): the path in the metadata is the one in the position map. *)
PathInMetadata(b, newPath) == newPath

(* Faulty variant: the interval paths are drawn from is closed. *)
ClosedInterval == 0 .. NumPaths

(* absl::Uniform(0, 1 << (levels - 1)) *)
DrawnPath == Path

(* access_block() from the update of the position map on.  A full stash     *)
(* throws with the path buffer not written back.                            *)
Access(b, v) ==
  LET free == { i \in StashSlot : StashWithout(b)[i] = NoBlock }
      first == CHOOSE i \in free : \A j \in free : i <= j
  IN  \E newPath \in DrawnPath :
        /\ posmap' = [posmap EXCEPT ![b] = newPath]
        /\ IF free = {}
           THEN stash' = StashWithout(b) /\ status' = "StashOverflow" /\ UNCHANGED tree
           ELSE LET added == [StashWithout(b) EXCEPT
                                ![first] = [id |-> b, path |-> PathInMetadata(b, newPath), data |-> v]]
                IN  /\ IF Bypasses(b) THEN stash' = added /\ UNCHANGED tree
                                      ELSE Evict(TreeWithout(b), added, posmap[b])
                    /\ UNCHANGED status

Read(b) ==
  /\ Running(b) /\ Target(b) # NoBlock
  /\ Access(b, Target(b).data)
  /\ reply' = IF status' = "ok" THEN Target(b).data ELSE NoReply

(* A WRITE of a block that is not there creates it. *)
Write(b, v) ==
  /\ Running(b)
  /\ Access(b, v)
  /\ reply' = NoReply

ReadWrite(b, v) ==
  /\ Running(b) /\ Target(b) # NoBlock
  /\ Access(b, v)
  /\ reply' = IF status' = "ok" THEN Target(b).data ELSE NoReply

MissingBlock(b) ==
  /\ Running(b) /\ Target(b) = NoBlock
  /\ \E newPath \in DrawnPath : posmap' = [posmap EXCEPT ![b] = newPath]
  /\ status' = "BlockDoesNotExist" /\ reply' = NoReply
  /\ UNCHANGED <<tree, stash>>

(* save_to_disk() and load_from_disk(): everything is kept. *)
SaveAndLoad == status = "ok" /\ UNCHANGED vars

Next ==
  \/ SaveAndLoad
  \/ \E b \in Block :
       \/ Read(b) \/ MissingBlock(b)
       \/ \E v \in Value : Write(b, v) \/ ReadWrite(b, v)

Spec == Init /\ [][Next]_vars

-----------------------------------------------------------------------------
(* Every block is in the stash, with its path, or in a bucket of the path   *)
(* the position map gives it, where the next access will look for it.       *)
BlocksOnTheirPaths ==
  status = "ok" =>
    /\ \A n \in Bucket, s \in Slot :
         LET c == tree[n][s] IN c # NoBlock => c.path = posmap[c.id] /\ n = BucketOn(c.path, n[1])
    /\ \A i \in StashSlot : LET c == stash[i] IN c # NoBlock => c.path = posmap[c.id]

(* A block is in one place of the tree and the stash: a stash hit leaves    *)
(* the path unsearched, so a second copy would go unnoticed.                *)
AtMostOneCopy ==
  \A b \in Block :
    Cardinality(StashHits(b))
    + Cardinality({ x \in Bucket \X Slot : Holds(tree[x[1]][x[2]], b) }) <= 1

(* An access that reads a path leaves room in a bucket of it only if no     *)
(* block of the stash, and none higher on the path, could have gone there.  *)
PacksPath ==
  \A b \in Block :
    (Read(b) \/ \E v \in Value : Write(b, v)) /\ status' = "ok" /\ ~Bypasses(b) =>
      LET path == posmap[b]
          fits(c, l) == c # NoBlock /\ BucketOn(c.path, l) = BucketOn(path, l)
      IN  \A l \in Level :
            (\E s \in Slot : tree'[BucketOn(path, l)][s] = NoBlock) =>
              /\ \A i \in StashSlot : ~fits(stash'[i], l)
              /\ \A k \in 0 .. l - 1, s \in Slot : ~fits(tree'[BucketOn(path, k)][s], l)

EvictionPacksPath == [][PacksPath]_vars

(* The ORAM is a plain store of blocks. *)
Contents == [b \in Block |-> IF Target(b) = NoBlock THEN NoBlock ELSE Target(b).data]

Store == INSTANCE BlockStore
  WITH Absent <- NoBlock, store <- Contents, running <- (status = "ok")

ImplementsBlockStore == Store!StoreSpec
=============================================================================
