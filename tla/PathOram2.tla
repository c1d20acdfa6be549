------------------------------ MODULE PathOram2 ------------------------------
(***************************************************************************)
(* BinaryPathOram2: a Path ORAM that keeps the path it has read in a       *)
(* buffer.  A lookup leaves its path loaded; placing a block evicts onto   *)
(* the loaded path, whichever it is, and writes it back.  After a POP the  *)
(* block is missing from the buffer alone until a later access writes the  *)
(* path back.  The valid flag of a slot is stored with the slot, and a     *)
(* page holds the counters its child pages are encrypted under.            *)
(*                                                                         *)
(* The whole ORAM but for its position map is one record: an access is a   *)
(* composition of the code's functions on it.                              *)
(***************************************************************************)
EXTENDS PathEviction

CONSTANTS
  NoReply,                  \* the reply of a request that returns no data
  NoPath,                   \* currently_loaded_path without a value
  LevelsPerPage,            \* levels_per_page
  BypassPathReadOnStashHit, \* bypass_path_read_on_stash_hit as created
  SavesMidPath,             \* whether a save may come while a path is loaded
  CounterModulus            \* the 64-bit counters of the model wrap here

Parameters ==
  /\ TopLevelOrder = 2 /\ Block # {}
  /\ Block \subseteq Value \/ \E v \in Value : Value = {v}
  /\ NoReply \notin Value /\ NoPath \notin Path
  /\ LevelsPerPage \in Nat \ {0} /\ CounterModulus \in Nat \ {0}
  /\ BypassPathReadOnStashHit \in BOOLEAN

ASSUME PathOram2Assumption == Parameters

VARIABLES
  posmap,  \* position_map
  oram,    \* the state of the ORAM, a record, see Oram
  status,  \* "ok", or the exception that ended the program
  reply    \* what the last request returned

vars == <<posmap, oram, status, reply>>

-----------------------------------------------------------------------------
(* Pages of LevelsPerPage levels, with a counter for each child page. *)
PageLevels == (Levels + LevelsPerPage - 1) \div LevelsPerPage

PageLevel == 0 .. PageLevels - 1

PageOn(path, k) == <<k, path \div TwoToThe[Levels - 1 - k * LevelsPerPage]>>

Page == { PageOn(path, k) : path \in Path, k \in PageLevel }

Child == 0 .. TwoToThe[LevelsPerPage] - 1

ChildIndex(path, k) == PageOn(path, k)[2] % TwoToThe[LevelsPerPage]

Counter == 0 .. CounterModulus - 1

Oram ==
  [tree : [Bucket -> [Slot -> Content]],      \* untrusted_memory: the slots
   stash : [StashSlot -> Content],
   under : [Page -> Counter],                 \* the counter of a page's nonce
   children : [Page -> [Child -> Counter]],   \* and the counters it holds
   root : Counter,                            \* root_counter
   bypass : BOOLEAN,                          \* bypass_path_read_on_stash_hit
   loaded : Path \cup {NoPath},               \* currently_loaded_path
   buffer : [Level -> [Slot -> Content]]]     \* decrypted_path: the slots

TypeOK ==
  /\ posmap \in [Block -> Path]
  /\ oram \in Oram
  /\ status \in {"ok", "StashOverflow", "BlockDoesNotExist"}
  /\ reply \in Value \cup {NoReply}

NoBuffer == [l \in Level |-> [s \in Slot |-> NoBlock]]

(* The number of a block as a payload, if payloads are told apart at all.  *)
Number(b) == IF b \in Value THEN b ELSE CHOOSE v \in Value : TRUE

(* fast_init() puts every block in a slot of its own, holding its number.  *)
FilledTree(place) ==
  [n \in Bucket |-> [s \in Slot |->
     LET inside == { b \in DOMAIN place : place[b] = <<n, s>> }
     IN  IF inside = {} THEN NoBlock
         ELSE LET b == CHOOSE b \in inside : TRUE IN [id |-> b, path |-> posmap[b], data |-> Number(b)]]]

(* init() leaves the tree empty. *)
Init ==
  /\ posmap \in [Block -> Path]
  /\ \E filled \in {{}, Block} : \E at \in [filled -> Level \X Slot] :
       LET place == [b \in filled |-> <<BucketOn(posmap[b], at[b][1]), at[b][2]>>]
       IN  /\ \A a, b \in filled : place[a] = place[b] => a = b
           /\ oram =
                [tree |-> FilledTree(place),
                 stash |-> [i \in StashSlot |-> NoBlock],
                 under |-> [p \in Page |-> 0],
                 children |-> [p \in Page |-> [c \in Child |-> 0]],
                 root |-> 0, bypass |-> BypassPathReadOnStashHit,
                 loaded |-> NoPath, buffer |-> NoBuffer]
  /\ status = "ok" /\ reply = NoReply

-----------------------------------------------------------------------------
(* read_path() *)
CounterAbove(o, path, k) ==
  IF k = 0 THEN o.root ELSE o.children[PageOn(path, k - 1)][ChildIndex(path, k)]

Readable(o, path) ==
  \A k \in PageLevel : o.under[PageOn(path, k)] = CounterAbove(o, path, k)

ReadPath(o, path) ==
  [o EXCEPT !.loaded = path, !.buffer = [l \in Level |-> o.tree[BucketOn(path, l)]]]

(* The tree with the buckets of the loaded path as they are in the buffer. *)
View(o) ==
  IF o.loaded = NoPath THEN o.tree
  ELSE [n \in Bucket |-> IF n = BucketOn(o.loaded, n[1]) THEN o.buffer[n[1]] ELSE o.tree[n]]

(* Faulty variant: the root page is encrypted before its children's        *)
(* counters are advanced.                                                  *)
PagesWrittenFromRoot(o) ==
  LET on(p) == p = PageOn(o.loaded, p[1])
  IN  [o EXCEPT
         !.under = [p \in Page |->
            IF on(p) THEN (CounterAbove(o, o.loaded, p[1]) + 1) % CounterModulus ELSE @[p]],
         !.children = [p \in Page |-> [c \in Child |->
            IF on(p) /\ 0 < p[1] /\ p[1] < PageLevels - 1 /\ c = ChildIndex(o.loaded, p[1] + 1)
            THEN (@[p][c] + 1) % CounterModulus ELSE @[p][c]]],
         !.root = (@ + 1) % CounterModulus]

(* The pages of the loaded path encrypted again, from the leaf up: a page's *)
(* counter is advanced in the page above, and root_counter last.            *)
PagesWritten(o) ==
  LET on(p) == p = PageOn(o.loaded, p[1])
  IN  [o EXCEPT
         !.under = [p \in Page |->
            IF on(p) THEN (CounterAbove(o, o.loaded, p[1]) + 1) % CounterModulus ELSE @[p]],
         !.children = [p \in Page |-> [c \in Child |->
            IF on(p) /\ p[1] < PageLevels - 1 /\ c = ChildIndex(o.loaded, p[1] + 1)
            THEN (@[p][c] + 1) % CounterModulus ELSE @[p][c]]],
         !.root = (@ + 1) % CounterModulus]

(* evict_and_write_path(): the rounds of PathEviction on buffer and stash. *)
EvictAndWritePath(o) ==
  [PagesWritten(o) EXCEPT
     !.tree = EvictedTree(View(o), o.stash, o.loaded),
     !.stash = EvictedStash(View(o), o.stash, o.loaded),
     !.loaded = NoPath, !.buffer = NoBuffer]

(* Faulty variant: a path still loaded is given up without a write-back. *)
Dropped(o) == [o EXCEPT !.loaded = NoPath, !.buffer = NoBuffer]

(* A path still loaded is written back before the next lookup. *)
Flushed(o) == IF o.loaded = NoPath THEN o ELSE EvictAndWritePath(o)

(* What find_and_remove_block_from_path finds: in the stash, else on the   *)
(* path, where the last of several copies wins.                            *)
StashHits(o, b) == { i \in StashSlot : Holds(o.stash[i], b) }

PathHits(o, b, path) == { p \in Level \X Slot : Holds(o.tree[BucketOn(path, p[1])][p[2]], b) }

Located(o, b, path) ==
  LET hits == PathHits(o, b, path)
      last == CHOOSE p \in hits : \A q \in hits : q[1] < p[1] \/ (q[1] = p[1] /\ q[2] <= p[2])
  IN  CASE StashHits(o, b) # {} -> o.stash[CHOOSE i \in StashHits(o, b) : TRUE]
        [] StashHits(o, b) = {} /\ hits # {} -> o.tree[BucketOn(path, last[1])][last[2]]
        [] OTHER -> NoBlock

(* Faulty variant: the copy in the path buffer keeps its valid flag. *)
RemovedFromStashOnly(o, b, path) ==
  LET read == IF o.bypass /\ StashHits(o, b) # {} THEN o ELSE ReadPath(o, path)
  IN  [read EXCEPT !.stash = ErasedStash(o.stash, b)]

Removed(o, b, path) ==
  LET read == IF o.bypass /\ StashHits(o, b) # {} THEN o ELSE ReadPath(o, path)
  IN  [read EXCEPT
         !.stash = ErasedStash(o.stash, b),
         !.buffer = [l \in Level |-> [s \in Slot |->
            IF StashHits(o, b) = {} /\ Holds(read.buffer[l][s], b) THEN NoBlock
            ELSE read.buffer[l][s]]]]

Lookup(b) == Removed(Flushed(oram), b, posmap[b])

Target(b) == Located(Flushed(oram), b, posmap[b])

-----------------------------------------------------------------------------
(* place_block_on_path(): without a path loaded a random one is read.  A   *)
(* dummy is added as NoBlock: it needs a free slot and leaves it free.     *)
PlaceBlockOnPath(o, content) ==
  LET free == { i \in StashSlot : o.stash[i] = NoBlock }
      first == CHOOSE i \in free : \A j \in free : i <= j
  IN  \E path \in IF o.loaded = NoPath THEN Path ELSE {o.loaded} :
        LET ready == IF o.loaded = NoPath THEN ReadPath(o, path) ELSE o
        IN  IF free = {}
            THEN oram' = ready /\ status' = "StashOverflow"
            ELSE /\ oram' = EvictAndWritePath([ready EXCEPT !.stash[first] = content])
                 /\ UNCHANGED status

Running(b) ==
  LET o == Flushed(oram)
  IN  /\ status = "ok"
      /\ Cardinality(StashHits(o, b)) <= 1    \* else: Duplicate blocks in stash
      /\ Readable(o, posmap[b])               \* else: Auth tag verification failed

(* Faulty variant: the interval paths are drawn from is closed. *)
ClosedInterval == 0 .. NumPaths

(* The new path of an accessed block: absl::Uniform(0, num_paths()). *)
DrawnPath == Path

(* The block goes back with payload v and a path drawn for it.             *)
Put(b, o, v) ==
  \E newPath \in DrawnPath :
    /\ posmap' = [posmap EXCEPT ![b] = newPath]   \* read_and_update_position_map()
    /\ PlaceBlockOnPath(o, [id |-> b, path |-> newPath, data |-> v])

(* access_block(), one action per request type. *)
Read(b) ==
  /\ Running(b) /\ Target(b) # NoBlock
  /\ Put(b, Lookup(b), Target(b).data)
  /\ reply' = IF status' = "ok" THEN Target(b).data ELSE NoReply

Write(b, v) ==
  /\ Running(b)
  /\ Put(b, Lookup(b), v)
  /\ reply' = NoReply

ReadWrite(b, v) ==
  /\ Running(b) /\ Target(b) # NoBlock
  /\ Put(b, Lookup(b), v)
  /\ reply' = IF status' = "ok" THEN Target(b).data ELSE NoReply

(* The client's update function gives the block any other payload. *)
Update(b, v) ==
  /\ Running(b) /\ Target(b) # NoBlock
  /\ Put(b, Lookup(b), v)
  /\ reply' = NoReply

(* The block is taken out of the buffer; its path stays loaded. *)
Pop(b) ==
  /\ Running(b) /\ Target(b) # NoBlock
  /\ \E newPath \in DrawnPath : posmap' = [posmap EXCEPT ![b] = newPath]
  /\ oram' = Lookup(b) /\ reply' = Target(b).data
  /\ UNCHANGED status

(* A POP of a block that is not there is marked in the request's address. *)
PopMissing(b) ==
  /\ Running(b) /\ Target(b) = NoBlock
  /\ \E newPath \in DrawnPath : posmap' = [posmap EXCEPT ![b] = newPath]
  /\ oram' = Lookup(b) /\ reply' = NoReply
  /\ UNCHANGED status

(* Clients push only what they popped.  The loaded path is another block's. *)
Push(b, v) ==
  /\ status = "ok" /\ Target(b) = NoBlock
  /\ Put(b, oram, v)
  /\ reply' = NoReply

(* The path of the caller's own block is read, and nothing is removed. *)
DummyPop(b) ==
  /\ Running(b)
  /\ oram' = ReadPath(Flushed(oram), posmap[b]) /\ reply' = NoReply
  /\ UNCHANGED <<posmap, status>>

DummyPush ==
  /\ status = "ok"
  /\ PlaceBlockOnPath(oram, NoBlock)
  /\ reply' = NoReply
  /\ UNCHANGED posmap

(* READ, READ_WRITE or UPDATE of a block that is not there. *)
MissingBlock(b) ==
  /\ Running(b) /\ Target(b) = NoBlock
  /\ \E newPath \in DrawnPath : posmap' = [posmap EXCEPT ![b] = newPath]
  /\ oram' = Lookup(b)
  /\ status' = "BlockDoesNotExist" /\ reply' = NoReply

(* value_or("false"): a string, and not of the type of the table's value. *)
LoadedBypass(saved) == TRUE

(* save_to_disk() and load_from_disk(): the path buffer is not kept. *)
SaveAndLoad ==
  /\ status = "ok" /\ (SavesMidPath \/ oram.loaded = NoPath)
  /\ oram' = [Dropped(oram) EXCEPT !.bypass = LoadedBypass(@)]
  /\ UNCHANGED <<posmap, status, reply>>

Next ==
  \/ SaveAndLoad
  \/ DummyPush
  \/ \E b \in Block :
       \/ Read(b) \/ Pop(b) \/ PopMissing(b) \/ MissingBlock(b) \/ DummyPop(b)
       \/ \E v \in Value : Write(b, v) \/ ReadWrite(b, v) \/ Update(b, v) \/ Push(b, v)

Spec == Init /\ [][Next]_vars

-----------------------------------------------------------------------------
(* Every block lies on the path the position map gives it, in the tree as  *)
(* a write-back would leave it; a block of the stash carries its path.     *)
BlocksOnTheirPaths ==
  status = "ok" =>
    /\ \A n \in Bucket, s \in Slot :
         LET c == View(oram)[n][s]
         IN  c # NoBlock => c.path = posmap[c.id] /\ n = BucketOn(c.path, n[1])
    /\ \A i \in StashSlot :
         LET c == oram.stash[i] IN c # NoBlock => c.path = posmap[c.id]

(* No block is twice in the stash, the buffer and the buckets off the      *)
(* loaded path: a popped block is not brought back by a write-back.        *)
AtMostOneCopy ==
  \A b \in Block :
    Cardinality(StashHits(oram, b))
    + Cardinality({ x \in Bucket \X Slot : Holds(View(oram)[x[1]][x[2]], b) }) <= 1

(* Every path can be read: the counters in the pages follow the writes.    *)
EveryPathReadable == \A path \in Path : Readable(oram, path)

(* While a path is loaded, what is stored of it differs from the buffer at  *)
(* most by the one block the last POP took: nothing else waits for the      *)
(* write-back.                                                              *)
OnlyPopAwaitsWriteBack ==
  oram.loaded # NoPath =>
    LET differing == { x \in Level \X Slot :
                         oram.buffer[x[1]][x[2]] # oram.tree[BucketOn(oram.loaded, x[1])][x[2]] }
    IN  /\ Cardinality(differing) <= 1
        /\ \A x \in differing : oram.buffer[x[1]][x[2]] = NoBlock

(* The ORAM is a plain store of blocks, with a path loaded or without.     *)
Contents ==
  [b \in Block |->
     LET c == Located([oram EXCEPT !.tree = View(oram)], b, posmap[b])
     IN  IF c = NoBlock THEN NoBlock ELSE c.data]

Store == INSTANCE BlockStore
  WITH Absent <- NoBlock, store <- Contents, running <- (status = "ok")

ImplementsBlockStore == Store!StoreSpec

(* POP "removes blocks from memory" (MemoryRequestType): saving and loading *)
(* the memory does not bring a popped block back.                           *)
RestartKeepsContents == [][SaveAndLoad => Contents' = Contents]_vars
=============================================================================
