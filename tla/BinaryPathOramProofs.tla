------------------------ MODULE BinaryPathOramProofs ------------------------
(***************************************************************************)
(* Type correctness, block placement, block uniqueness, the packing of     *)
(* evictions and the refinement of BlockStore for BinaryPathOram, for      *)
(* every size of the tree and every set of blocks and payloads.            *)
(***************************************************************************)
EXTENDS BinaryPathOram, PathEvictionProofs

(* The inductive invariant.  Its two halves need each other: placement is   *)
(* kept only because a lookup finds the one copy there is, and uniqueness   *)
(* only because a copy in the tree is on the path that is searched.         *)
IInv ==
  /\ TypeOK
  /\ OneCopy(tree, stash)
  /\ BlocksOnTheirPaths

(* IInv, regrouped: the tree and the stash, the rest.                       *)
Parts ==
  /\ posmap \in [Block -> Path]
  /\ Typed(tree, stash)
  /\ OneCopy(tree, stash)
  /\ status = "ok" => PlacedInTree(posmap, tree) /\ PlacedInStash(posmap, stash)
  /\ status \in {"ok", "StashOverflow", "BlockDoesNotExist"}
  /\ reply \in Value \cup {NoReply}

LEMMA InvariantParts == IInv <=> Parts
<1>1. BlocksOnTheirPaths <=>
        (status = "ok" => PlacedInTree(posmap, tree) /\ PlacedInStash(posmap, stash))
  BY DEF BlocksOnTheirPaths, PlacedInTree, PlacedInStash
<1> QED
  BY <1>1 DEF IInv, Parts, TypeOK, Typed

WellPlaced == posmap \in [Block -> Path] /\ Good(posmap, tree, stash)

LEMMA OkWellPlaced == Parts /\ status = "ok" => WellPlaced
BY DEF Parts, WellPlaced, Good

-----------------------------------------------------------------------------
(* A search returns the stored copy of its block, if there is one.          *)
LEMMA TargetStored ==
  ASSUME Parts, NEW b \in Block, Target(b) # NoBlock
  PROVE  Stores(tree, stash, b, Target(b)) /\ Target(b).data \in Value
<1>1. posmap[b] \in Path /\ Typed(tree, stash) /\ OneCopy(tree, stash)
  BY DEF Parts
<1>2. Stores(tree, stash, b, Target(b))
  <2>1. CASE StashHits(b) # {}
    <3>1. PICK i \in StashHits(b) : Target(b) = stash[i]
      BY <2>1 DEF Target
    <3> QED BY <3>1 DEF StashHits, Holds, Stores
  <2>2. CASE StashHits(b) = {} /\ PathHits(b) # {}
    <3>1. PICK p \in PathHits(b) : Target(b) = tree[BucketOn(posmap[b], p[1])][p[2]]
      BY <2>2 DEF Target
    <3>2. p \in Hits(tree, posmap[b], b)
      BY <3>1 DEF PathHits, Hits
    <3> QED BY <1>1, <3>1, <3>2, PathSearched
  <2>3. CASE StashHits(b) = {} /\ PathHits(b) = {}
    BY <2>3 DEF Target
  <2> QED BY <2>1, <2>2, <2>3
<1> QED
  BY <1>1, <1>2, StoredOnce DEF Entry

LEMMA NoTargetLacks ==
  ASSUME WellPlaced, NEW b \in Block, Target(b) = NoBlock
  PROVE  Lacks(tree, stash, b)
<1>1. Typed(tree, stash) /\ OneCopy(tree, stash) /\ posmap[b] \in Path
  BY DEF WellPlaced, Good
<1>2. StashHits(b) = {}
  <2> SUFFICES ASSUME StashHits(b) # {} PROVE FALSE
    OBVIOUS
  <2>1. PICK i \in StashHits(b) : Target(b) = stash[i]
    BY DEF Target
  <2> QED BY <2>1 DEF StashHits, Holds
<1>3. PathHits(b) = {}
  <2> SUFFICES ASSUME PathHits(b) # {} PROVE FALSE
    OBVIOUS
  <2>1. PICK p \in PathHits(b) : Target(b) = tree[BucketOn(posmap[b], p[1])][p[2]]
    BY <1>2 DEF Target
  <2> QED BY <2>1 DEF PathHits, Holds
<1> QED
  BY <1>2, <1>3, NothingFound DEF StashHits, PathHits, Hits, WellPlaced

-----------------------------------------------------------------------------
(* What is left of an access after the block was taken out: its entry, the  *)
(* stash it goes to, the overflow, the bypass and the eviction.             *)
NewEntry(b, path, v) == [id |-> b, path |-> path, data |-> v]

Overflows(b) ==
  status' = "StashOverflow" /\ tree' = tree /\ stash' = StashWithout(b)

Places(b, c) ==
  \E i \in StashSlot, added \in [StashSlot -> Content] :
    /\ StashWithout(b)[i] = NoBlock
    /\ added[i] = c /\ \A j \in StashSlot : j # i => added[j] = StashWithout(b)[j]
    /\ status' = status
    /\ \/ Bypasses(b) /\ tree' = TreeWithout(b) /\ stash' = added
       \/ /\ ~Bypasses(b)
          /\ tree' = EvictedTree(TreeWithout(b), added, posmap[b])
          /\ stash' = EvictedStash(TreeWithout(b), added, posmap[b])

LEMMA AccessSteps ==
  ASSUME Parts, NEW b \in Block, NEW v \in Value, Access(b, v)
  PROVE  \E newPath \in Path :
           /\ posmap' = [posmap EXCEPT ![b] = newPath]
           /\ Overflows(b) \/ Places(b, NewEntry(b, newPath, v))
<1> DEFINE free == { i \in StashSlot : StashWithout(b)[i] = NoBlock }
           first == CHOOSE i \in free : \A j \in free : i <= j
<1>1. PICK newPath \in Path :
        /\ posmap' = [posmap EXCEPT ![b] = newPath]
        /\ IF free = {}
           THEN stash' = StashWithout(b) /\ status' = "StashOverflow" /\ UNCHANGED tree
           ELSE LET added == [StashWithout(b) EXCEPT ![first] = NewEntry(b, newPath, v)]
                IN  /\ IF Bypasses(b) THEN stash' = added /\ UNCHANGED tree
                                      ELSE Evict(TreeWithout(b), added, posmap[b])
                    /\ UNCHANGED status
  BY DEF Access, DrawnPath, PathInMetadata, NewEntry
<1>2. CASE free = {}
  BY <1>1, <1>2 DEF Overflows
<1>3. CASE free # {}
  <2>1. \E i \in free : \A j \in free : i <= j
    <3>1. free \subseteq Nat
      BY CapacityAssumption DEF StashSlot
    <3>2. PICK i \in free : \A j \in free : ~(j < i)
      <4> HIDE DEF free
      <4> QED BY <1>3, <3>1, LeastElement
    <3> QED BY <3>1, <3>2
  <2>2. first \in StashSlot /\ StashWithout(b)[first] = NoBlock
    BY <2>1
  <2> DEFINE added == [StashWithout(b) EXCEPT ![first] = NewEntry(b, newPath, v)]
  <2>3. /\ IF Bypasses(b) THEN stash' = added /\ UNCHANGED tree
                          ELSE Evict(TreeWithout(b), added, posmap[b])
        /\ UNCHANGED status
    BY <1>1, <1>3
  <2>6. /\ added \in [StashSlot -> Content] /\ added[first] = NewEntry(b, newPath, v)
        /\ \A j \in StashSlot : j # first => added[j] = StashWithout(b)[j]
    <3>1. StashWithout(b) \in [StashSlot -> Content]
      BY DEF StashWithout, ErasedStash, Parts, Typed, Content
    <3>2. NewEntry(b, newPath, v) \in Content
      BY DEF NewEntry, Content, Entry
    <3> HIDE DEF first
    <3> QED BY <2>2, <3>1, <3>2
  <2>4. CASE Bypasses(b)
    <3>1. PICK i \in StashSlot : Holds(stash[i], b)
      BY <2>4 DEF Bypasses, StashHits
    <3>2. TreeWithout(b) = tree
      BY <3>1, StashHitSparesTree DEF TreeWithout, Parts
    <3>3. Places(b, NewEntry(b, newPath, v))
      <4> HIDE DEF added, first
      <4> QED BY <2>2, <2>3, <2>4, <2>6, <3>2 DEF Places
    <3> QED BY <1>1, <3>3
  <2>5. CASE ~Bypasses(b)
    <3>1. Places(b, NewEntry(b, newPath, v))
      <4> HIDE DEF added, first
      <4> QED BY <2>2, <2>3, <2>5, <2>6 DEF Places, Evict
    <3> QED BY <1>1, <3>1
  <2> QED BY <2>4, <2>5
<1> QED
  BY <1>2, <1>3

(* The stash an access adds its block to, and the tree beside it.           *)
LEMMA AddedGood ==
  ASSUME WellPlaced, NEW b \in Block, NEW newPath \in Path, NEW v \in Value,
         NEW i \in StashSlot, StashWithout(b)[i] = NoBlock,
         NEW added \in [StashSlot -> Content], added[i] = NewEntry(b, newPath, v),
         \A j \in StashSlot : j # i => added[j] = StashWithout(b)[j]
  PROVE  /\ Good([posmap EXCEPT ![b] = newPath], TreeWithout(b), added)
         /\ Stores(TreeWithout(b), added, b, NewEntry(b, newPath, v))
         /\ \A a \in Block : \A d : a # b =>
              (Stores(TreeWithout(b), added, a, d) <=> Stores(tree, stash, a, d))
<1> DEFINE t == TreeWithout(b)
           s == StashWithout(b)
           pm == [posmap EXCEPT ![b] = newPath]
           c == NewEntry(b, newPath, v)
<1>1. Good(posmap, t, s) /\ Lacks(t, s, b)
  BY ErasureGood DEF WellPlaced, TreeWithout, StashWithout
<1>2. Good(pm, t, s)
  BY <1>1, RemapGood DEF WellPlaced
<1>3. c \in Entry /\ c.id = b /\ c.path = pm[c.id]
  BY DEF Entry, NewEntry, WellPlaced
<1>4. \A a \in Block : \A d : a # b => (Stores(t, s, a, d) <=> Stores(tree, stash, a, d))
  BY ErasureStores DEF TreeWithout, StashWithout
<1>5. s[i] = NoBlock /\ added[i] = c /\ \A j \in StashSlot : j # i => added[j] = s[j]
  OBVIOUS
<1> HIDE DEF t, s, pm, c
<1>6. /\ Good(pm, t, added) /\ Stores(t, added, b, c)
      /\ \A a, d : a # b => (Stores(t, added, a, d) <=> Stores(t, s, a, d))
  BY <1>1, <1>2, <1>3, <1>5, EntryAdded
<1> QED
  BY <1>4, <1>6 DEF t, pm, c

(* Whether or not the access evicts, its block is stored with its payload   *)
(* and every other block as it was.                                         *)
LEMMA PlacesGood ==
  ASSUME WellPlaced, NEW b \in Block, NEW newPath \in Path, NEW v \in Value,
         posmap' = [posmap EXCEPT ![b] = newPath], Places(b, NewEntry(b, newPath, v))
  PROVE  /\ WellPlaced' /\ status' = status
         /\ Stores(tree', stash', b, NewEntry(b, newPath, v))
         /\ \A a \in Block : \A d : a # b =>
              (Stores(tree', stash', a, d) <=> Stores(tree, stash, a, d))
         /\ ~Bypasses(b) => PacksWell(posmap[b], tree', stash')
<1> DEFINE pm == [posmap EXCEPT ![b] = newPath]
           t == TreeWithout(b)
           c == NewEntry(b, newPath, v)
<1>1. PICK i \in StashSlot, added \in [StashSlot -> Content] :
        /\ StashWithout(b)[i] = NoBlock
        /\ added[i] = c /\ \A j \in StashSlot : j # i => added[j] = StashWithout(b)[j]
        /\ status' = status
        /\ \/ Bypasses(b) /\ tree' = t /\ stash' = added
           \/ /\ ~Bypasses(b)
              /\ tree' = EvictedTree(t, added, posmap[b])
              /\ stash' = EvictedStash(t, added, posmap[b])
  BY DEF Places
<1>2. /\ Good(pm, t, added) /\ Stores(t, added, b, c)
      /\ \A a \in Block : \A d : a # b => (Stores(t, added, a, d) <=> Stores(tree, stash, a, d))
  BY <1>1, AddedGood
<1>3. posmap' = pm /\ pm \in [Block -> Path] /\ posmap[b] \in Path
  BY DEF WellPlaced
<1> HIDE DEF pm, t, c
<1>4. CASE Bypasses(b) /\ tree' = t /\ stash' = added
  BY <1>1, <1>2, <1>3, <1>4 DEF WellPlaced, c
<1>5. CASE /\ ~Bypasses(b)
           /\ tree' = EvictedTree(t, added, posmap[b])
           /\ stash' = EvictedStash(t, added, posmap[b])
  <2>1. Good(pm, tree', stash') /\ PacksWell(posmap[b], tree', stash')
    BY <1>2, <1>3, <1>5, EvictionGood, EvictionPacks
  <2>2. \A a, d : Stores(tree', stash', a, d) <=> Stores(t, added, a, d)
    BY <1>2, <1>3, <1>5, EvictionKeeps
  <2> QED BY <1>1, <1>2, <1>3, <2>1, <2>2 DEF WellPlaced, c
<1> QED
  BY <1>1, <1>4, <1>5

-----------------------------------------------------------------------------
LEMMA InitGood == Init => Parts
<1> SUFFICES ASSUME Init PROVE Parts
  OBVIOUS
<1>1. /\ \A i \in StashSlot : stash[i] = NoBlock
      /\ \A n \in Bucket, u \in Slot : tree[n][u] = NoBlock
  BY DEF Init
<1>2. Typed(tree, stash)
  BY DEF Init, Typed, Content
<1> QED
  BY <1>1, <1>2
     DEF Init, Parts, PlacedInTree, PlacedInStash, OneCopy, OnceInStash, OnceInTree, NotInBoth

LEMMA AccessGood ==
  ASSUME Parts, status = "ok", NEW b \in Block, NEW v \in Value, Access(b, v),
         reply' \in Value \cup {NoReply}
  PROVE  Parts'
<1>1. PICK newPath \in Path :
        /\ posmap' = [posmap EXCEPT ![b] = newPath]
        /\ Overflows(b) \/ Places(b, NewEntry(b, newPath, v))
  BY AccessSteps
<1>2. posmap' \in [Block -> Path]
  BY <1>1 DEF Parts
<1>3. CASE Overflows(b)
  <2>1. \A i \in StashSlot : stash'[i] = stash[i] \/ stash'[i] = NoBlock
    BY <1>3 DEF Overflows, StashWithout, ErasedStash
  <2>2. stash' \in [StashSlot -> Content]
    BY <1>3 DEF Overflows, StashWithout, ErasedStash, Parts, Typed, Content
  <2>3. Typed(tree', stash') /\ OneCopy(tree', stash')
    BY <1>3, <2>1, <2>2
       DEF Overflows, Parts, Typed, OneCopy, OnceInStash, OnceInTree, NotInBoth
  <2> QED BY <1>2, <1>3, <2>3 DEF Overflows, Parts
<1>4. CASE Places(b, NewEntry(b, newPath, v))
  <2>1. WellPlaced' /\ status' = status
    BY <1>1, <1>4, OkWellPlaced, PlacesGood
  <2> QED BY <2>1 DEF WellPlaced, Good, Parts
<1> QED
  BY <1>1, <1>3, <1>4

(* A request for a block that is nowhere still draws a path for it.         *)
LEMMA MissingGood ==
  ASSUME Parts, NEW b \in Block, MissingBlock(b)
  PROVE  WellPlaced /\ WellPlaced' /\ Parts'
<1>1. PICK newPath \in Path : posmap' = [posmap EXCEPT ![b] = newPath]
  BY DEF MissingBlock, DrawnPath
<1>2. /\ status = "ok" /\ Target(b) = NoBlock /\ tree' = tree /\ stash' = stash
      /\ status' = "BlockDoesNotExist" /\ reply' = NoReply
  BY DEF MissingBlock, Running
<1>3. WellPlaced /\ posmap \in [Block -> Path] /\ posmap' \in [Block -> Path]
  BY <1>1, <1>2, OkWellPlaced DEF Parts
<1>4. Good(posmap', tree, stash)
  BY <1>1, <1>2, <1>3, NoTargetLacks, RemapGood DEF WellPlaced
<1> QED
  BY <1>2, <1>3, <1>4 DEF WellPlaced, Good, Parts

(* Every request preserves the invariant.                                   *)
LEMMA NextGood == Parts /\ [Next]_vars => Parts'
<1> SUFFICES ASSUME Parts, [Next]_vars PROVE Parts'
  OBVIOUS
<1>1. ASSUME NEW b \in Block, Read(b) PROVE Parts'
  <2>1. status = "ok" /\ Target(b).data \in Value /\ Access(b, Target(b).data)
        /\ reply' = IF status' = "ok" THEN Target(b).data ELSE NoReply
    BY <1>1, TargetStored DEF Read, Running
  <2> QED BY <2>1, AccessGood
<1>2. ASSUME NEW b \in Block, NEW v \in Value, Write(b, v) PROVE Parts'
  BY <1>2, AccessGood DEF Write, Running
<1>3. ASSUME NEW b \in Block, NEW v \in Value, ReadWrite(b, v) PROVE Parts'
  <2>1. status = "ok" /\ Target(b).data \in Value /\ Access(b, v)
        /\ reply' = IF status' = "ok" THEN Target(b).data ELSE NoReply
    BY <1>3, TargetStored DEF ReadWrite, Running
  <2> QED BY <2>1, AccessGood
<1>4. ASSUME NEW b \in Block, MissingBlock(b) PROVE Parts'
  BY <1>4, MissingGood
<1>5. CASE SaveAndLoad \/ UNCHANGED vars
  BY <1>5 DEF SaveAndLoad, vars, Parts
<1> QED
  BY <1>1, <1>2, <1>3, <1>4, <1>5 DEF Next

THEOREM InvariantHolds == Spec => []IInv
<1>1. Init => IInv
  BY InitGood, InvariantParts
<1>2. IInv /\ [Next]_vars => IInv'
  <2>1. IInv <=> Parts
    BY InvariantParts
  <2> QED BY <2>1, NextGood, PTL
<1> QED
  BY <1>1, <1>2, PTL DEF Spec

(* Every variable has its type, whatever the tree, the stash and the draws. *)
THEOREM TypeCorrect == Spec => []TypeOK
<1>1. IInv => TypeOK
  BY DEF IInv
<1> QED
  BY <1>1, InvariantHolds, PTL

(* Until an exception ends the program, every block is on the path the      *)
(* position map gives it or in the stash, whether or not stash hits go      *)
(* without an eviction.                                                     *)
THEOREM Placement == Spec => []BlocksOnTheirPaths
<1>1. IInv => BlocksOnTheirPaths
  BY DEF IInv
<1> QED
  BY <1>1, InvariantHolds, PTL

(* No block is ever stored twice, not even after an exception.              *)
THEOREM Uniqueness == Spec => []AtMostOneCopy
<1>1. IInv => AtMostOneCopy
  BY CopiesCounted DEF IInv, AtMostOneCopy, StashHits
<1> QED
  BY <1>1, InvariantHolds, PTL

-----------------------------------------------------------------------------
(* The eviction of an access is greedy, whatever the tree and the stash: a  *)
(* slot of the path stays free only if no block of the stash or higher on   *)
(* the path could have gone there.                                          *)
THEOREM PackedPaths == Spec => EvictionPacksPath
<1>1. ASSUME IInv, [Next]_vars
      PROVE  [PacksPath]_vars
  <2>1. Parts
    BY <1>1, InvariantParts
  <2>2. ASSUME NEW b \in Block, Read(b) \/ \E v \in Value : Write(b, v),
               status' = "ok", ~Bypasses(b)
        PROVE  PacksWell(posmap[b], tree', stash')
    <3>1. PICK v \in Value : Access(b, v)
      BY <2>1, <2>2, TargetStored DEF Read, Write
    <3>2. status = "ok"
      BY <2>2 DEF Read, Write, Running
    <3>3. PICK newPath \in Path :
            /\ posmap' = [posmap EXCEPT ![b] = newPath]
            /\ Overflows(b) \/ Places(b, NewEntry(b, newPath, v))
      BY <2>1, <3>1, AccessSteps
    <3>4. Places(b, NewEntry(b, newPath, v))
      BY <2>2, <3>3 DEF Overflows
    <3> QED BY <2>1, <2>2, <3>2, <3>3, <3>4, OkWellPlaced, PlacesGood
  <2> QED BY <2>2 DEF PacksPath, PacksWell
<1> QED
  BY <1>1, InvariantHolds, PTL DEF Spec, EvictionPacksPath

-----------------------------------------------------------------------------
(* The ORAM implements BlockStore.  What a client sees of a block is the    *)
(* payload stored for it, wherever it is.                                   *)
ShowsWhatIsStored == Contents = [b \in Block |-> ValueOf(tree, stash, b)]

LEMMA ContentsStored == Parts /\ WellPlaced => ShowsWhatIsStored
<1> SUFFICES ASSUME Parts, WellPlaced, NEW b \in Block
             PROVE  Contents[b] = ValueOf(tree, stash, b)
  BY DEF ShowsWhatIsStored, Contents
<1>1. Typed(tree, stash) /\ OneCopy(tree, stash)
  BY DEF WellPlaced, Good
<1>2. CASE Target(b) # NoBlock
  BY <1>1, <1>2, TargetStored, StoredValue DEF Contents
<1>3. CASE Target(b) = NoBlock
  BY <1>1, <1>3, NoTargetLacks, LacksStores, StoredValue DEF Contents
<1> QED
  BY <1>2, <1>3

(* A step that stores every other block as before changes one payload.      *)
LEMMA ContentsStep ==
  ASSUME Parts, Parts', WellPlaced, WellPlaced', NEW b \in Block,
         \A a \in Block : \A d : a # b => (Stores(tree', stash', a, d) <=> Stores(tree, stash, a, d))
  PROVE  /\ Contents' = [Contents EXCEPT ![b] = ValueOf(tree', stash', b)]
         /\ ValueOf(tree', stash', b) \in Value \cup {NoBlock}
<1>1. Contents = [a \in Block |-> ValueOf(tree, stash, a)]
  BY ContentsStored DEF ShowsWhatIsStored
<1>2. Contents' = [a \in Block |-> ValueOf(tree', stash', a)]
  <2>1. ShowsWhatIsStored'
    BY ContentsStored, PTL
  <2> QED BY <2>1 DEF ShowsWhatIsStored
<1>3. /\ Typed(tree, stash) /\ OneCopy(tree, stash)
      /\ Typed(tree', stash') /\ OneCopy(tree', stash')
  BY DEF WellPlaced, Good
<1>4. \A a \in Block : a # b => ValueOf(tree', stash', a) = ValueOf(tree, stash, a)
  BY <1>3, SameValue
<1>5. ValueOf(tree', stash', b) \in Value \cup {NoBlock}
  BY <1>3, StoredValue
<1> QED
  BY <1>1, <1>2, <1>4, <1>5

AnswersAreValues == \A b \in Block : Target(b) # NoBlock => Target(b).data \in Value

LEMMA AnswersTyped == Parts => AnswersAreValues
BY TargetStored DEF AnswersAreValues

(* A stash without room for the block loses it, and touches no other.       *)
LEMMA OverflowSpoilsOne ==
  ASSUME Parts, Parts', NEW b \in Block, NEW newPath \in Path,
         posmap' = [posmap EXCEPT ![b] = newPath], Overflows(b)
  PROVE  \E x \in Value \cup {NoBlock} : Contents' = [Contents EXCEPT ![b] = x]
<1>1. posmap \in [Block -> Path] /\ tree' = tree /\ stash' = ErasedStash(stash, b)
  BY DEF Overflows, StashWithout, Parts
<1>2. ASSUME NEW i \in StashSlot
      PROVE  stash'[i] = stash[i] \/ (stash'[i] = NoBlock /\ stash[i].id = b)
  BY <1>1 DEF ErasedStash, Holds
<1>3. ASSUME NEW a \in Block, a # b PROVE Contents'[a] = Contents[a]
  <2>1. posmap'[a] = posmap[a]
    BY <1>1, <1>3
  <2>2. StashHits(a)' = StashHits(a)
    BY <1>2, <1>3 DEF StashHits, Holds
  <2>3. PathHits(a)' = PathHits(a)
    BY <1>1, <2>1 DEF PathHits
  <2>4. Target(a)' = Target(a)
    <3>1. CASE StashHits(a) # {}
      <4>1. PICK i \in StashHits(a) : Target(a) = stash[i] /\ Target(a)' = stash'[i]
        BY <2>2, <3>1 DEF Target
      <4> QED BY <1>2, <1>3, <4>1 DEF StashHits, Holds
    <3>2. CASE StashHits(a) = {} /\ PathHits(a) # {}
      <4> DEFINE p == CHOOSE p \in PathHits(a) : TRUE
      <4>1. Target(a) = tree[BucketOn(posmap[a], p[1])][p[2]]
        BY <3>2 DEF Target
      <4>2. Target(a)' = tree'[BucketOn(posmap'[a], p'[1])][p'[2]]
        BY <2>2, <2>3, <3>2 DEF Target
      <4>3. p' = p
        BY <2>3
      <4> HIDE DEF p
      <4> QED BY <1>1, <2>1, <4>1, <4>2, <4>3
    <3>3. CASE StashHits(a) = {} /\ PathHits(a) = {}
      BY <2>2, <2>3, <3>3 DEF Target
    <3> QED BY <3>1, <3>2, <3>3
  <2> QED BY <2>4 DEF Contents
<1>4. Contents'[b] \in Value \cup {NoBlock}
  <2>1. AnswersAreValues'
    BY AnswersTyped, PTL
  <2> QED BY <2>1 DEF AnswersAreValues, Contents
<1>5. Contents' = [Contents EXCEPT ![b] = Contents'[b]]
  BY <1>3 DEF Contents
<1> QED
  BY <1>4, <1>5

(* What a request that stores payload v does to the store.                  *)
LEMMA AccessPuts ==
  ASSUME Parts, Parts', status = "ok", NEW b \in Block, NEW v \in Value, Access(b, v)
  PROVE  \/ status' = "ok" /\ Contents' = [Contents EXCEPT ![b] = v]
         \/ /\ status' # "ok"
            /\ \E x \in Value \cup {NoBlock} : Contents' = [Contents EXCEPT ![b] = x]
<1>1. PICK newPath \in Path :
        /\ posmap' = [posmap EXCEPT ![b] = newPath]
        /\ Overflows(b) \/ Places(b, NewEntry(b, newPath, v))
  BY AccessSteps
<1>2. CASE Overflows(b)
  <2>1. status' # "ok"
    BY <1>2 DEF Overflows
  <2> QED BY <1>1, <1>2, <2>1, OverflowSpoilsOne
<1>3. CASE Places(b, NewEntry(b, newPath, v))
  <2>1. WellPlaced
    BY OkWellPlaced
  <2>2. /\ WellPlaced' /\ status' = status
        /\ Stores(tree', stash', b, NewEntry(b, newPath, v))
        /\ \A a \in Block : \A d : a # b =>
             (Stores(tree', stash', a, d) <=> Stores(tree, stash, a, d))
    BY <1>1, <1>3, <2>1, PlacesGood
  <2>3. Contents' = [Contents EXCEPT ![b] = ValueOf(tree', stash', b)]
    BY <2>1, <2>2, ContentsStep
  <2>4. ValueOf(tree', stash', b) = NewEntry(b, newPath, v).data
    BY <2>2, StoredValue DEF WellPlaced, Good
  <2> QED BY <2>2, <2>3, <2>4 DEF NewEntry
<1> QED
  BY <1>1, <1>2, <1>3

LEMMA InitRefines == Init => Store!StoreInit
<1> SUFFICES ASSUME Init PROVE Store!StoreInit
  OBVIOUS
<1>1. \A b \in Block : StashHits(b) = {} /\ PathHits(b) = {}
  <2> SUFFICES ASSUME NEW b \in Block PROVE StashHits(b) = {} /\ PathHits(b) = {}
    OBVIOUS
  <2>1. posmap[b] \in Path
    BY DEF Init
  <2>2. \A l \in Level : BucketOn(posmap[b], l) \in Bucket
    BY <2>1, BucketOnIsBucket
  <2>3. \A p \in Level \X Slot : tree[BucketOn(posmap[b], p[1])][p[2]] = NoBlock
    BY <2>2 DEF Init
  <2> QED BY <2>3 DEF Init, StashHits, PathHits, Holds
<1>2. Contents = [b \in Block |-> NoBlock]
  BY <1>1 DEF Contents, Target
<1> QED
  BY <1>2 DEF Init, Store!StoreInit

LEMMA NextRefines ==
  ASSUME Parts, Parts', [Next]_vars
  PROVE  [Store!StoreNext]_(Store!storeVars)
<1>1. Contents = [a \in Block |-> Contents[a]]
  BY DEF Contents
<1>2. ASSUME status = "ok", NEW b \in Block,
             status' # "ok" /\ reply' = NoReply
               /\ \E x \in Value \cup {NoBlock} : Contents' = [Contents EXCEPT ![b] = x]
      PROVE  Store!Fail(b)
  BY <1>2 DEF Store!Fail
<1>3. ASSUME NEW b \in Block, Target(b) # NoBlock
      PROVE  Target(b).data = Contents[b] /\ Contents[b] \in Value /\ Contents[b] # NoBlock
  BY <1>3, TargetStored, NoBlockAssumption DEF Contents
<1>4. ASSUME NEW b \in Block, Read(b) PROVE Store!Read(b) \/ Store!Fail(b)
  <2>1. /\ status = "ok" /\ Target(b) # NoBlock /\ Access(b, Contents[b])
        /\ reply' = IF status' = "ok" THEN Contents[b] ELSE NoReply
    BY <1>3, <1>4 DEF Read, Running
  <2>2. \/ status' = "ok" /\ Contents' = [Contents EXCEPT ![b] = Contents[b]]
        \/ /\ status' # "ok"
           /\ \E x \in Value \cup {NoBlock} : Contents' = [Contents EXCEPT ![b] = x]
    BY <1>3, <2>1, AccessPuts
  <2> QED BY <1>1, <1>2, <1>3, <2>1, <2>2 DEF Store!Read, Store!Returns, Store!Present
<1>5. ASSUME NEW b \in Block, NEW v \in Value, Write(b, v)
      PROVE  Store!Write(b, v) \/ Store!Fail(b)
  <2>1. status = "ok" /\ Access(b, v) /\ reply' = NoReply
    BY <1>5 DEF Write, Running
  <2> QED BY <1>2, <2>1, AccessPuts DEF Store!Write, Store!Returns
<1>6. ASSUME NEW b \in Block, NEW v \in Value, ReadWrite(b, v)
      PROVE  Store!ReadWrite(b, v) \/ Store!Fail(b)
  <2>1. /\ status = "ok" /\ Target(b) # NoBlock /\ Access(b, v)
        /\ reply' = IF status' = "ok" THEN Contents[b] ELSE NoReply
    BY <1>3, <1>6 DEF ReadWrite, Running
  <2> QED BY <1>2, <1>3, <2>1, AccessPuts DEF Store!ReadWrite, Store!Returns, Store!Present
<1>7. ASSUME NEW b \in Block, MissingBlock(b) PROVE Store!Fail(b)
  <2>1. /\ status = "ok" /\ status' # "ok" /\ reply' = NoReply
        /\ tree' = tree /\ stash' = stash
    BY <1>7 DEF MissingBlock, Running
  <2>2. WellPlaced /\ WellPlaced'
    BY <1>7, MissingGood
  <2>3. \E x \in Value \cup {NoBlock} : Contents' = [Contents EXCEPT ![b] = x]
    BY <2>1, <2>2, ContentsStep
  <2> QED BY <1>2, <2>1, <2>3
<1>8. CASE SaveAndLoad \/ UNCHANGED vars
  <2>1. posmap' = posmap /\ tree' = tree /\ stash' = stash
        /\ status' = status /\ reply' = reply
    BY <1>8 DEF SaveAndLoad, vars
  <2>2. \A b \in Block : Target(b)' = Target(b)
    BY <2>1 DEF Target, StashHits, PathHits
  <2>3. Contents' = Contents
    BY <2>2 DEF Contents
  <2> QED BY <2>1, <2>3 DEF Store!storeVars
<1> QED
  BY <1>4, <1>5, <1>6, <1>7, <1>8 DEF Next, Store!StoreNext

(* To its client the ORAM is a plain store of blocks, of any size, whether  *)
(* stash hits evict or not: a request returns the payload last written, and *)
(* an exception spoils only the block it was about.                         *)
THEOREM Refinement == Spec => ImplementsBlockStore
<1>1. IInv /\ IInv' /\ [Next]_vars => [Store!StoreNext]_(Store!storeVars)
  <2>1. IInv <=> Parts
    BY InvariantParts
  <2> QED BY <2>1, NextRefines, PTL
<1> QED
  BY <1>1, InitRefines, InvariantHolds, PTL DEF Spec, ImplementsBlockStore, Store!StoreSpec
=============================================================================
