---------------------------- MODULE RawOramProofs ----------------------------
(***************************************************************************)
(* Theorems about RawOram for every size of the tree and of the stash.     *)
(*                                                                         *)
(* Types, placement and uniqueness are proved together: a lookup finds at  *)
(* most one copy only because of uniqueness, and removes every copy only   *)
(* because of placement.  On the invariant rest the packing of an evicted  *)
(* path and the refinement of BlockStore.  For a binary root the page      *)
(* counters are shown to be those derived from root_counter, hence every   *)
(* page to be decryptable and the evictions to be balanced; for a unary    *)
(* root they are followed through the two evictions that succeed.          *)
(***************************************************************************)
EXTENDS RawOram, PathEvictionProofs

(* The inductive invariant.  An eviction falls due before the counter      *)
(* passes num_accesses_per_eviction; it stays there only if that eviction  *)
(* has thrown.                                                             *)
IInv ==
  /\ TypeOK
  /\ BlocksOnTheirPaths
  /\ AtMostOneCopy
  /\ status = "ok" => accessCounter < NumAccessesPerEviction

-----------------------------------------------------------------------------
LEMMA DerivedCounterType ==
  ASSUME NEW root \in Nat, NEW n \in Bucket
  PROVE  DerivedCounter(root, n) \in Nat
<1>1. n[1] \in Level
  BY BucketLevel
<1>2. TwoToThe[n[1]] \in Nat \ {0}
  <2>1. n[1] \in 0 .. Levels
    BY <1>1, LevelsFacts DEF Level
  <2> QED BY <2>1, TwoToTheFacts
<1>3. root \div TwoToThe[n[1]] \in Nat
  BY <1>2
<1> QED
  BY <1>3 DEF DerivedCounter

(* What a request takes out of the stash or off the path is gone.           *)
LEMMA RemovalGood ==
  ASSUME NEW b \in Block, Good(posmap, tree, stash), posmap \in [Block -> Path]
  PROVE  /\ Good(posmap, TreeWithout(b), StashWithout(b))
         /\ Lacks(TreeWithout(b), StashWithout(b), b)
BY ErasureGood DEF TreeWithout, StashWithout

(* A lookup that succeeds returns the stored copy: it is the only one,      *)
(* whatever the order of the scan.                                          *)
LEMMA FoundEntryStored ==
  posmap \in [Block -> Path] /\ Typed(tree, stash) /\ OneCopy(tree, stash) =>
    \A b \in Block : Found(b) =>
      Stores(tree, stash, b, FoundEntry(b)) /\ FoundEntry(b).data \in Value
<1> SUFFICES ASSUME posmap \in [Block -> Path], Typed(tree, stash), OneCopy(tree, stash),
                    NEW b \in Block, Found(b)
             PROVE  Stores(tree, stash, b, FoundEntry(b)) /\ FoundEntry(b).data \in Value
  OBVIOUS
<1>1. posmap[b] \in Path
  OBVIOUS
<1>2. CASE StashHits(b) # {}
  <2> DEFINE i == CHOOSE j \in StashHits(b) : TRUE
  <2>1. i \in StashHits(b) /\ FoundEntry(b) = stash[i]
    BY <1>2 DEF FoundEntry
  <2> HIDE DEF i
  <2>2. Stores(tree, stash, b, FoundEntry(b))
    BY <2>1 DEF StashHits, Holds, Stores
  <2> QED BY <2>2, StoredOnce DEF Entry
<1>3. CASE StashHits(b) = {}
  <2> DEFINE last == LastOf(Hits(tree, posmap[b], b))
  <2>1. PathHits(b, posmap[b]) = Hits(tree, posmap[b], b)
    BY DEF PathHits, Hits
  <2>2. FoundEntry(b) = tree[BucketOn(posmap[b], last[1])][last[2]]
    BY <1>3, <2>1 DEF FoundEntry, LastOf
  <2>3. last \in Hits(tree, posmap[b], b)
    BY <1>1, <1>3, <2>1, PathSearched DEF Found
  <2> HIDE DEF last
  <2>4. Stores(tree, stash, b, FoundEntry(b))
    BY <1>1, <2>2, <2>3, PathSearched
  <2> QED BY <2>4, StoredOnce DEF Entry
<1> QED
  BY <1>2, <1>3

(* Where the placement invariant holds, a failed lookup means absence.      *)
LEMMA NotFoundLacks ==
  ASSUME Good(posmap, tree, stash), NEW b \in Block, ~Found(b)
  PROVE  Lacks(tree, stash, b)
<1>1. \A i \in StashSlot : ~Holds(stash[i], b)
  BY DEF Found, StashHits
<1>2. Hits(tree, posmap[b], b) = {}
  BY DEF Found, PathHits, Hits
<1> QED
  BY <1>1, <1>2, NothingFound

-----------------------------------------------------------------------------
(* The rest of the invariant: the counters, the status and the reply.       *)
CountersOK ==
  /\ accessCounter \in 0 .. NumAccessesPerEviction
  /\ rootCounter \in Nat
  /\ indices \in Indices
  /\ pageCounter \in [Bucket -> Nat]
  /\ status \in {"ok"} \cup Failure
  /\ reply \in Value \cup {NoReply}
  /\ status = "ok" => accessCounter < NumAccessesPerEviction

(* IInv, regrouped: the tree and the stash, the counters.                   *)
Parts ==
  /\ posmap \in [Block -> Path]
  /\ Typed(tree, stash)
  /\ OneCopy(tree, stash)
  /\ status = "ok" => PlacedInTree(posmap, tree) /\ PlacedInStash(posmap, stash)
  /\ CountersOK

LEMMA InvariantParts == IInv <=> Parts
<1>1. AtMostOneCopy <=> OneCopy(tree, stash)
  BY DEF AtMostOneCopy, OneCopy, OnceInStash, OnceInTree, NotInBoth
<1>2. BlocksOnTheirPaths <=>
        (status = "ok" => PlacedInTree(posmap, tree) /\ PlacedInStash(posmap, stash))
  BY DEF BlocksOnTheirPaths, PlacedInTree, PlacedInStash
<1>3. TypeOK /\ (status = "ok" => accessCounter < NumAccessesPerEviction)
        <=> posmap \in [Block -> Path] /\ Typed(tree, stash) /\ CountersOK
  BY DEF TypeOK, Typed, CountersOK
<1> QED
  BY <1>1, <1>2, <1>3 DEF IInv, Parts

LEMMA EvictionAccessGood ==
  ASSUME NEW pm, NEW t, NEW s, Good(pm, t, s), CountersOK, status = "ok",
         EvictionAccess(t, s), reply' \in Value \cup {NoReply}
  PROVE  Good(pm, tree', stash') /\ CountersOK'
<1> DEFINE path == PathOf(indices)
<1>1. path \in Path /\ indices' \in Indices
  BY PathOfType, AdvancedType DEF CountersOK, EvictionAccess
<1>2. NumAccessesPerEviction \in Nat \ {0} /\ accessCounter \in Nat
      /\ accessCounter + 1 \in 0 .. NumAccessesPerEviction
  BY RawOramAssumption DEF CountersOK
<1>3. CASE Decryptable(path)
  <2>1. /\ tree' = EvictedTree(t, s, path) /\ stash' = EvictedStash(t, s, path)
        /\ rootCounter' = rootCounter + 1 /\ accessCounter' = 0 /\ status' = status
        /\ pageCounter' = [n \in Bucket |-> IF n = BucketOn(path, n[1])
                                            THEN DerivedCounter(rootCounter, n) + 1
                                            ELSE pageCounter[n]]
    BY <1>3 DEF EvictionAccess
  <2>2. Good(pm, tree', stash')
    BY <1>1, <2>1, EvictionGood
  <2>3. pageCounter' \in [Bucket -> Nat]
    <3>1. \A n \in Bucket : DerivedCounter(rootCounter, n) + 1 \in Nat
      BY DerivedCounterType DEF CountersOK
    <3> QED BY <2>1, <3>1 DEF CountersOK
  <2>4. rootCounter' \in Nat /\ accessCounter' \in 0 .. NumAccessesPerEviction
        /\ accessCounter' < NumAccessesPerEviction
    BY <1>2, <2>1 DEF CountersOK
  <2> QED BY <1>1, <2>1, <2>2, <2>3, <2>4 DEF CountersOK
<1>4. CASE ~Decryptable(path)
  <2>1. /\ tree' = t /\ stash' = s /\ accessCounter' = accessCounter + 1
        /\ status' = "AuthTagVerificationFailed"
        /\ pageCounter' = pageCounter /\ rootCounter' = rootCounter
    BY <1>4 DEF EvictionAccess
  <2> QED BY <1>1, <1>2, <2>1 DEF CountersOK, Failure
<1> QED
  BY <1>3, <1>4

(* What a placement does: it finds no free slot, or it takes one and an     *)
(* eviction may fall due.                                                   *)
LEMMA PlacementSteps ==
  ASSUME NEW t, NEW s, NEW c, NEW r, PlaceBlockOnPath(t, s, c, r)
  PROVE  \/ /\ status' = "StashOverflow" /\ tree' = t /\ stash' = s /\ reply' = NoReply
            /\ UNCHANGED <<accessCounter, counters>>
         \/ \E i \in StashSlot :
              /\ s[i] = NoBlock
              /\ \/ /\ accessCounter + 1 < NumAccessesPerEviction
                    /\ accessCounter' = accessCounter + 1
                    /\ tree' = t /\ stash' = [s EXCEPT ![i] = c] /\ reply' = r
                    /\ UNCHANGED <<counters, status>>
                 \/ /\ EvictionAccess(t, [s EXCEPT ![i] = c])
                    /\ reply' = IF Decryptable(PathOf(indices)) THEN r ELSE NoReply
<1> DEFINE free == { i \in StashSlot : s[i] = NoBlock }
           first == CHOOSE i \in free : \A j \in free : i <= j
<1>1. CASE free = {}
  BY <1>1 DEF PlaceBlockOnPath
<1>2. CASE free # {}
  <2>1. \E i \in free : \A j \in free : i <= j
    <3>1. free \subseteq Nat
      BY CapacityAssumption DEF StashSlot
    <3>2. PICK i \in free : \A j \in free : ~(j < i)
      <4> HIDE DEF free
      <4> QED BY <1>2, <3>1, LeastElement
    <3> QED BY <3>1, <3>2
  <2>2. first \in StashSlot /\ s[first] = NoBlock
    BY <2>1
  <2>3. \/ /\ accessCounter + 1 < NumAccessesPerEviction
           /\ accessCounter' = accessCounter + 1
           /\ tree' = t /\ stash' = [s EXCEPT ![first] = c] /\ reply' = r
           /\ UNCHANGED <<counters, status>>
        \/ /\ EvictionAccess(t, [s EXCEPT ![first] = c])
           /\ reply' = IF Decryptable(PathOf(indices)) THEN r ELSE NoReply
    BY <1>2 DEF PlaceBlockOnPath
  <2> HIDE DEF first
  <2> QED BY <2>2, <2>3
<1> QED
  BY <1>1, <1>2

LEMMA PlacementGood ==
  ASSUME NEW pm, NEW t, NEW s, Good(pm, t, s), CountersOK, status = "ok",
         NEW c \in Content, NEW r \in Value \cup {NoReply},
         c # NoBlock => c.path = pm[c.id] /\ Lacks(t, s, c.id),
         PlaceBlockOnPath(t, s, c, r)
  PROVE  Good(pm, tree', stash') /\ CountersOK'
<1>1. CASE /\ status' = "StashOverflow" /\ tree' = t /\ stash' = s /\ reply' = NoReply
           /\ UNCHANGED <<accessCounter, counters>>
  BY <1>1 DEF CountersOK, Failure, counters
<1>2. ASSUME NEW i \in StashSlot, s[i] = NoBlock,
             accessCounter + 1 < NumAccessesPerEviction, accessCounter' = accessCounter + 1,
             tree' = t, stash' = [s EXCEPT ![i] = c], reply' = r,
             UNCHANGED <<counters, status>>
      PROVE  Good(pm, tree', stash') /\ CountersOK'
  <2>1. accessCounter' \in 0 .. NumAccessesPerEviction /\ accessCounter' < NumAccessesPerEviction
    BY <1>2, RawOramAssumption DEF CountersOK
  <2>2. Good(pm, t, [s EXCEPT ![i] = c])
    BY <1>2, AdditionGood
  <2> QED BY <1>2, <2>1, <2>2 DEF CountersOK, counters
<1>3. ASSUME NEW i \in StashSlot, s[i] = NoBlock, EvictionAccess(t, [s EXCEPT ![i] = c]),
             reply' = IF Decryptable(PathOf(indices)) THEN r ELSE NoReply
      PROVE  Good(pm, tree', stash') /\ CountersOK'
  <2> DEFINE added == [s EXCEPT ![i] = c]
  <2>1. Good(pm, t, added)
    BY <1>3, AdditionGood
  <2>2. reply' \in Value \cup {NoReply} /\ EvictionAccess(t, added)
    BY <1>3
  <2> HIDE DEF added
  <2> QED BY <2>1, <2>2, EvictionAccessGood
<1> QED
  BY <1>1, <1>2, <1>3, PlacementSteps

-----------------------------------------------------------------------------
LEMMA InitGood == Init => IInv
<1> SUFFICES ASSUME Init PROVE IInv
  OBVIOUS
<1>1. CountersOK
  <2>1. /\ 0 \in 0 .. NumAccessesPerEviction /\ 0 < NumAccessesPerEviction
        /\ [n \in Bucket |-> 0] \in [Bucket -> Nat]
    BY RawOramAssumption
  <2> QED BY <2>1, FirstIndicesType DEF Init, CountersOK
<1>2. stash \in [StashSlot -> Content] /\ \A i \in StashSlot : stash[i] = NoBlock
  BY DEF Init, Content
<1>3. CASE EmptyTree
  <2>1. posmap \in [Block -> Path] /\ tree \in [Bucket -> [Slot -> Content]]
        /\ \A n \in Bucket, u \in Slot : tree[n][u] = NoBlock
    BY <1>3 DEF EmptyTree, Content
  <2> QED BY <1>1, <1>2, <2>1, InvariantParts
          DEF Parts, Typed, PlacedInTree, PlacedInStash, OneCopy, OnceInStash, OnceInTree, NotInBoth
<1>4. CASE FilledTree
  <2>1. PICK at \in [Block -> Bucket \X Slot] :
          /\ \A a, b \in Block : at[a] = at[b] => a = b
          /\ posmap \in [Block -> Path]
          /\ \A b \in Block : BucketOn(posmap[b], at[b][1][1]) = at[b][1]
          /\ tree = [n \in Bucket |-> [s \in Slot |->
                       IF \E b \in Block : at[b] = <<n, s>>
                       THEN LET b == CHOOSE a \in Block : at[a] = <<n, s>>
                            IN  [id |-> b, path |-> posmap[b], data |-> b]
                       ELSE NoBlock]]
    BY <1>4 DEF FilledTree
  <2>2. ASSUME NEW n \in Bucket, NEW u \in Slot
        PROVE  \/ tree[n][u] = NoBlock
               \/ \E b \in Block : at[b] = <<n, u>>
                                   /\ tree[n][u] = [id |-> b, path |-> posmap[b], data |-> b]
    BY <2>1
  <2>3. ASSUME NEW n \in Bucket, NEW u \in Slot, tree[n][u] # NoBlock
        PROVE  /\ tree[n][u] \in Content
               /\ at[tree[n][u].id] = <<n, u>>
               /\ tree[n][u].path = posmap[tree[n][u].id]
               /\ n = BucketOn(tree[n][u].path, n[1])
    <3>1. PICK b \in Block : at[b] = <<n, u>>
                             /\ tree[n][u] = [id |-> b, path |-> posmap[b], data |-> b]
      BY <2>2, <2>3
    <3>2. tree[n][u] \in Content
      BY <2>1, <3>1, RawOramAssumption DEF Content, Entry
    <3>3. BucketOn(posmap[b], n[1]) = n
      BY <2>1, <3>1
    <3> QED BY <3>1, <3>2, <3>3
  <2>4. tree \in [Bucket -> [Slot -> Content]]
    <3>1. \A n \in Bucket, u \in Slot : tree[n][u] \in Content
      BY <2>3 DEF Content
    <3>2. tree = [n \in Bucket |-> [u \in Slot |-> tree[n][u]]]
      BY <2>1
    <3> QED BY <3>1, <3>2
  <2>5. PlacedInTree(posmap, tree)
    BY <2>3 DEF PlacedInTree
  <2>6. OnceInTree(tree)
    BY <2>3 DEF OnceInTree
  <2> QED BY <1>1, <1>2, <2>1, <2>4, <2>5, <2>6, InvariantParts
          DEF Parts, Typed, PlacedInStash, OneCopy, OnceInStash, NotInBoth
<1> QED
  BY <1>3, <1>4 DEF Init

(* A request that moves its block to the stash.                             *)
LEMMA MoveToStashGood ==
  ASSUME IInv, status = "ok", NEW b \in Block, NEW newPath \in Path, NEW v \in Value,
         NEW r \in Value \cup {NoReply}, MoveToStash(b, newPath, v, r)
  PROVE  IInv'
<1> DEFINE t == TreeWithout(b)
           s == StashWithout(b)
           pm == [posmap EXCEPT ![b] = newPath]
           c == [id |-> b, path |-> newPath, data |-> v]
<1>1. Good(posmap, tree, stash) /\ posmap \in [Block -> Path] /\ CountersOK
  BY InvariantParts DEF Good, Parts
<1>2. Good(pm, t, s) /\ Lacks(t, s, b)
  BY <1>1, RemovalGood, RemapGood
<1>3. c \in Content /\ c.id = b /\ c.path = pm[c.id]
  BY <1>1 DEF Content, Entry
<1>4. posmap' = pm /\ PlaceBlockOnPath(t, s, c, r)
  BY DEF MoveToStash, Remap
<1>5. posmap' \in [Block -> Path]
  BY <1>1, <1>4
<1> HIDE DEF t, s, pm, c
<1>6. Good(posmap', tree', stash') /\ CountersOK'
  BY <1>1, <1>2, <1>3, <1>4, PlacementGood
<1>7. Parts'
  BY <1>5, <1>6 DEF Good, Parts
<1> QED
  BY <1>7, InvariantParts, PTL

(* Every step of the ORAM preserves the invariant.                          *)
LEMMA NextGood == IInv /\ [Next]_vars => IInv'
<1> SUFFICES ASSUME IInv, [Next]_vars PROVE Parts'
  BY InvariantParts, PTL
<1>1. Parts
  BY InvariantParts
<1>2. status = "ok" => Good(posmap, tree, stash)
  BY <1>1 DEF Parts, Good
<1> USE DEF counters
<1>3. CASE DummyPush
  <2>1. status = "ok" /\ PlaceBlockOnPath(tree, stash, NoBlock, NoReply) /\ posmap' = posmap
    BY <1>3 DEF DummyPush
  <2>2. Good(posmap, tree', stash') /\ CountersOK'
    BY <1>1, <1>2, <2>1, PlacementGood DEF Parts, Content
  <2> QED BY <1>1, <2>1, <2>2 DEF Parts, Good
<1>4. CASE SaveAndLoad
  <2>1. accessCounter' \in 0 .. NumAccessesPerEviction /\ accessCounter' < NumAccessesPerEviction
    BY <1>4, RawOramAssumption DEF SaveAndLoad
  <2> QED BY <1>1, <1>4, <2>1 DEF SaveAndLoad, Parts, CountersOK
<1>5. ASSUME NEW b \in Block, DummyPop(b) PROVE Parts'
  BY <1>1, <1>5 DEF DummyPop, Parts, CountersOK, Failure
<1>6. ASSUME NEW b \in Block, NEW newPath \in Path, Read(b, newPath) PROVE Parts'
  <2>1. status = "ok" /\ FoundEntry(b).data \in Value
        /\ MoveToStash(b, newPath, FoundEntry(b).data, FoundEntry(b).data)
    BY <1>1, <1>6, FoundEntryStored DEF Read, LookupSucceeds, Parts
  <2>2. IInv'
    BY <2>1, MoveToStashGood
  <2> QED BY <2>2, InvariantParts, PTL
<1>7. ASSUME NEW b \in Block, NEW newPath \in Path, NEW v \in Value,
             Write(b, newPath, v) \/ ReadWrite(b, newPath, v)
      PROVE  Parts'
  <2>1. status = "ok" /\ \E r \in Value \cup {NoReply} : MoveToStash(b, newPath, v, r)
    BY <1>1, <1>7, FoundEntryStored DEF Write, ReadWrite, LookupSucceeds, Parts
  <2>2. IInv'
    BY <2>1, MoveToStashGood
  <2> QED BY <2>2, InvariantParts, PTL
<1>8. ASSUME NEW b \in Block, NEW newPath \in Path, Pop(b, newPath) PROVE Parts'
  <2>1. /\ status = "ok" /\ FoundEntry(b).data \in Value
        /\ posmap' = [posmap EXCEPT ![b] = newPath]
        /\ tree' = TreeWithout(b) /\ stash' = StashWithout(b)
        /\ reply' = FoundEntry(b).data
        /\ UNCHANGED <<accessCounter, counters, status>>
    BY <1>1, <1>8, FoundEntryStored DEF Pop, LookupSucceeds, Remap, Parts
  <2>2. Good(posmap', tree', stash')
    BY <1>1, <1>2, <2>1, RemovalGood, RemapGood DEF Parts
  <2> QED BY <1>1, <2>1, <2>2 DEF Parts, Good, CountersOK
<1>9. ASSUME NEW b \in Block, NEW newPath \in Path, NEW v \in Value, Push(b, newPath, v)
      PROVE  Parts'
  <2> DEFINE pm == [posmap EXCEPT ![b] = newPath]
             c == [id |-> b, path |-> newPath, data |-> v]
  <2>1. /\ status = "ok" /\ ~Found(b) /\ posmap' = pm
        /\ PlaceBlockOnPath(tree, stash, c, NoReply)
    BY <1>9 DEF Push, Remap
  <2>2. Lacks(tree, stash, b)
    BY <1>2, <2>1, NotFoundLacks
  <2>3. Good(pm, tree, stash) /\ pm \in [Block -> Path]
    BY <1>1, <1>2, <2>1, <2>2, RemapGood DEF Parts
  <2>4. c \in Content /\ c.id = b /\ c.path = pm[c.id]
    BY <1>1 DEF Content, Entry, Parts
  <2>5. Good(posmap', tree', stash') /\ CountersOK'
    <3> HIDE DEF pm, c
    <3> QED BY <1>1, <2>1, <2>2, <2>3, <2>4, PlacementGood DEF Parts
  <2> QED BY <2>1, <2>3, <2>5 DEF Parts, Good
<1>10. ASSUME NEW b \in Block, NEW newPath \in Path, LookupThrows(b, newPath) PROVE Parts'
  <2>1. /\ status = "ok" /\ status' \in Failure
        /\ posmap' = [posmap EXCEPT ![b] = newPath]
        /\ stash' = StashWithoutFirst(b) /\ tree' = tree /\ reply' = NoReply
        /\ UNCHANGED <<accessCounter, counters>>
    BY <1>10 DEF LookupThrows, LookupFailure, Failure, Remap
  <2>2. Typed(tree, stash') /\ OneCopy(tree, stash')
    <3>1. \A i \in StashSlot : stash'[i] = stash[i] \/ stash'[i] = NoBlock
      BY <2>1 DEF StashWithoutFirst
    <3>2. stash' \in [StashSlot -> Content]
      BY <1>1, <2>1 DEF StashWithoutFirst, Parts, Typed, Content
    <3> QED BY <1>1, <3>1, <3>2
            DEF Parts, Typed, OneCopy, OnceInStash, OnceInTree, NotInBoth
  <2>3. status' # "ok"
    BY <2>1 DEF Failure
  <2> QED BY <1>1, <2>1, <2>2, <2>3 DEF Parts, CountersOK
<1>11. CASE UNCHANGED vars
  BY <1>1, <1>11 DEF vars, Parts, CountersOK
<1> QED
  BY <1>3, <1>4, <1>5, <1>6, <1>7, <1>8, <1>9, <1>10, <1>11 DEF Next

THEOREM InvariantHolds == Spec => []IInv
<1> QED
  BY InitGood, NextGood, PTL DEF Spec

(* Every variable has its type, and the eviction order never leaves the     *)
(* tree, whatever its size: PathOf(indices) is a path and every page has a  *)
(* counter.                                                                 *)
THEOREM TypeCorrect == Spec => []TypeOK
<1>1. IInv => TypeOK
  BY DEF IInv
<1> QED
  BY <1>1, InvariantHolds, PTL

(* Path ORAM's invariant for the code's eviction and lookup: until an       *)
(* exception ends the program, every block is on the path the position map  *)
(* gives it, or in the stash.                                               *)
THEOREM Placement == Spec => []BlocksOnTheirPaths
<1>1. IInv => BlocksOnTheirPaths
  BY DEF IInv
<1> QED
  BY <1>1, InvariantHolds, PTL

(* No block is ever stored twice, not even after an exception.              *)
THEOREM Uniqueness == Spec => []AtMostOneCopy
<1>1. IInv => AtMostOneCopy
  BY DEF IInv
<1> QED
  BY <1>1, InvariantHolds, PTL

-----------------------------------------------------------------------------
(* The counters of a binary tree: the eviction order is at the path that    *)
(* root_counter names, and every page was last encrypted under the counter  *)
(* root_counter gives it.  (Under a unary root the first digit of the order *)
(* stands still while the derivation takes it to count, see the run         *)
(* unary_root_pages.)                                                       *)
CountersDerived ==
  /\ rootCounter \in Nat
  /\ indices = OrderOf(rootCounter)
  /\ pageCounter = [n \in Bucket |-> pageCounter[n]]
  /\ \A n \in Bucket : pageCounter[n] = DerivedCounter(rootCounter, n)

LEMMA DerivedMeansDecryptable == CountersDerived => PagesDecryptable
<1> SUFFICES ASSUME CountersDerived, NEW path \in Path, NEW l \in Level
             PROVE  pageCounter[BucketOn(path, l)] = DerivedCounter(rootCounter, BucketOn(path, l))
  BY DEF PagesDecryptable, Decryptable
<1> QED
  BY BucketOnIsBucket DEF CountersDerived

LEMMA EvictionAccessDerives ==
  ASSUME TopLevelOrder = 2, CountersDerived, NEW t, NEW s, EvictionAccess(t, s)
  PROVE  CountersDerived'
<1> DEFINE path == PathOf(indices)
<1>1. rootCounter \in Nat /\ indices = OrderOf(rootCounter)
  BY DEF CountersDerived
<1>2. Decryptable(path)
  <2>1. path \in Path
    BY <1>1, OrderIsIndices, PathOfType
  <2> QED BY <2>1, DerivedMeansDecryptable DEF PagesDecryptable
<1>3. /\ indices' = Advanced(indices) /\ rootCounter' = rootCounter + 1
      /\ pageCounter' = [n \in Bucket |-> IF n = BucketOn(path, n[1])
                                          THEN DerivedCounter(rootCounter, n) + 1
                                          ELSE pageCounter[n]]
  BY <1>2 DEF EvictionAccess
<1>4. indices' = OrderOf(rootCounter')
  BY <1>1, <1>3, NextOrder
<1>5. ASSUME NEW n \in Bucket PROVE pageCounter'[n] = DerivedCounter(rootCounter', n)
  <2>1. DerivedCounter(rootCounter + 1, n) =
          IF n = BucketOn(path, n[1])
          THEN DerivedCounter(rootCounter, n) + 1 ELSE DerivedCounter(rootCounter, n)
    BY <1>1, DerivedCounterAdvances
  <2>2. pageCounter[n] = DerivedCounter(rootCounter, n)
    BY DEF CountersDerived
  <2> HIDE DEF path
  <2> QED BY <1>3, <2>1, <2>2
<1>6. pageCounter' = [n \in Bucket |-> pageCounter'[n]]
  <2> HIDE DEF path
  <2> QED BY <1>3
<1>7. rootCounter' \in Nat
  BY <1>1, <1>3
<1> QED
  BY <1>4, <1>5, <1>6, <1>7 DEF CountersDerived

(* Only an eviction touches the counters, and nothing happens after an      *)
(* exception.                                                               *)
LEMMA CountersStep ==
  ASSUME [Next]_vars
  PROVE  \/ UNCHANGED counters /\ (status' = "ok" => status = "ok")
         \/ status = "ok" /\ \E t, s : EvictionAccess(t, s)
<1>1. ASSUME NEW t, NEW s, NEW c, NEW r, PlaceBlockOnPath(t, s, c, r)
      PROVE  UNCHANGED counters \/ \E u, v : EvictionAccess(u, v)
  BY <1>1, PlacementSteps
<1>2. CASE DummyPush
  BY <1>1, <1>2 DEF DummyPush
<1>3. CASE SaveAndLoad
  BY <1>3 DEF SaveAndLoad
<1>4. ASSUME NEW b \in Block, DummyPop(b) PROVE UNCHANGED counters /\ status = "ok"
  BY <1>4 DEF DummyPop
<1>5. ASSUME NEW b \in Block, NEW newPath \in Path,
             \/ Read(b, newPath) \/ Pop(b, newPath) \/ LookupThrows(b, newPath)
             \/ \E v \in Value : Write(b, newPath, v) \/ ReadWrite(b, newPath, v)
                                 \/ Push(b, newPath, v)
      PROVE  status = "ok" /\ (UNCHANGED counters \/ \E t, s : EvictionAccess(t, s))
  BY <1>1, <1>5
     DEF Read, Write, ReadWrite, MoveToStash, Pop, Push, LookupThrows, LookupSucceeds
<1>6. CASE UNCHANGED vars
  BY <1>6 DEF vars
<1> QED
  BY <1>2, <1>3, <1>4, <1>5, <1>6 DEF Next

LEMMA InitDerives == TopLevelOrder = 2 /\ Init => CountersDerived
<1> SUFFICES ASSUME TopLevelOrder = 2, Init PROVE CountersDerived
  OBVIOUS
<1>1. rootCounter = 0 /\ indices = FirstIndices /\ pageCounter = [n \in Bucket |-> 0]
  BY DEF Init
<1>2. ASSUME NEW n \in Bucket PROVE DerivedCounter(0, n) = 0
  <2> DEFINE l == n[1]
             m == TwoToThe[l]
             R == ReverseBits(n[2], l)
  <2>1. l \in 0 .. Levels /\ n[2] \in Nat
    BY BucketIs, LevelsFacts, TwoToTheFacts DEF Level
  <2>2. m \in Nat \ {0} /\ R \in 0 .. m - 1
    BY <2>1, TwoToTheFacts, ReverseBound
  <2>3. DerivedCounter(0, n) = (0 \div m) + (IF R < 0 % m THEN 1 ELSE 0)
    BY DEF DerivedCounter
  <2> HIDE DEF m, R
  <2>4. 0 \div m = 0 /\ 0 % m = 0
    <3>1. m * 0 + 0 = 0 /\ 0 \in 0 .. m - 1 /\ m \in Nat \ {0} /\ 0 \in Int
      BY <2>2
    <3> QED BY <3>1, QuotientUnique
  <2> QED BY <2>2, <2>3, <2>4
<1> QED
  BY <1>1, <1>2, FirstOrder DEF CountersDerived

LEMMA StepDerives == TopLevelOrder = 2 /\ CountersDerived /\ [Next]_vars => CountersDerived'
<1> SUFFICES ASSUME TopLevelOrder = 2, CountersDerived, [Next]_vars PROVE CountersDerived'
  OBVIOUS
<1>1. CASE UNCHANGED counters
  BY <1>1 DEF counters, CountersDerived
<1>2. CASE \E t, s : EvictionAccess(t, s)
  BY <1>2, EvictionAccessDerives
<1> QED
  BY <1>1, <1>2, CountersStep

(* The counter read_path derives from the number of evictions alone is the  *)
(* one the page was written under, for every page of a binary tree of any   *)
(* height, after any number of evictions and restarts.                      *)
THEOREM CountersAgree ==
  ASSUME TopLevelOrder = 2
  PROVE  Spec => []PagesDecryptable
<1>1. Init => CountersDerived
  BY InitDerives
<1>2. CountersDerived /\ [Next]_vars => CountersDerived'
  BY StepDerives
<1> QED
  BY <1>1, <1>2, DerivedMeansDecryptable, PTL DEF Spec

(* Under a unary root the derivation fails after the second eviction, and   *)
(* so does every request that reads a path: there is no third one.          *)
UnaryCounters ==
  /\ rootCounter \in 0 .. 2
  /\ indices \in Indices
  /\ pageCounter = [n \in Bucket |-> pageCounter[n]]
  /\ rootCounter = 0 => \A n \in Bucket : pageCounter[n] = 0
  /\ rootCounter = 1 =>
       \A n \in Bucket :
         pageCounter[n] = IF n = BucketOn(PathOf(FirstIndices), n[1]) THEN 1 ELSE 0
  /\ rootCounter = 2 =>
       \A n \in Bucket :
         IF n[1] \in 0 .. 1 THEN pageCounter[n] = 2 ELSE pageCounter[n] \in 0 .. 1
  /\ status = "ok" /\ rootCounter = 0 => indices = FirstIndices
  /\ status = "ok" /\ rootCounter = 1 => indices = Advanced(FirstIndices)

LEMMA NoThirdEviction ==
  ASSUME TopLevelOrder = 1, UnaryCounters, rootCounter = 2, NEW path \in Path
  PROVE  ~Decryptable(path)
<1> DEFINE n == BucketOn(path, 1)
<1>1. 1 \in Level /\ 1 \in 1 .. Levels /\ 1 \in 0 .. Levels
  BY LevelsFacts DEF Level
<1>2. n \in Bucket /\ n[1] = 1 /\ pageCounter[n] = 2
  BY <1>1, BucketOnIsBucket DEF UnaryCounters
<1>3. TwoToThe[1] = 2
  BY <1>1, TwoToTheFacts
<1>4. ReverseBits(n[2], 1) \in Nat
  <2>1. n[2] \in Nat
    BY <1>2, <1>3, BucketIs
  <2> QED BY <1>1, <1>3, <2>1, ReverseBound
<1> HIDE DEF n
<1>5. DerivedCounter(2, n) = (2 \div 2) + (IF ReverseBits(n[2], 1) < 2 % 2 THEN 1 ELSE 0)
  BY <1>2, <1>3 DEF DerivedCounter
<1>6. DerivedCounter(2, n) = 1
  BY <1>4, <1>5
<1> QED
  BY <1>1, <1>2, <1>6 DEF Decryptable, n

(* Every bucket of the path is rewritten, under a counter one larger.       *)
LEMMA EvictionCounts ==
  ASSUME NEW t, NEW s, EvictionAccess(t, s), Decryptable(PathOf(indices))
  PROVE  /\ indices' = Advanced(indices) /\ rootCounter' = rootCounter + 1
         /\ pageCounter' = [n \in Bucket |-> pageCounter'[n]]
         /\ \A n \in Bucket :
              pageCounter'[n] = IF n = BucketOn(PathOf(indices), n[1])
                                THEN pageCounter[n] + 1 ELSE pageCounter[n]
<1> DEFINE path == PathOf(indices)
           next(n) == IF n = BucketOn(path, n[1])
                      THEN DerivedCounter(rootCounter, n) + 1 ELSE pageCounter[n]
<1>1. /\ indices' = Advanced(indices) /\ rootCounter' = rootCounter + 1
      /\ pageCounter' = [n \in Bucket |-> next(n)]
  BY DEF EvictionAccess
<1>2. ASSUME NEW n \in Bucket, n = BucketOn(path, n[1])
      PROVE  DerivedCounter(rootCounter, n) = pageCounter[n]
  <2>1. n[1] \in Level /\ Decryptable(path)
    BY BucketLevel
  <2>2. pageCounter[BucketOn(path, n[1])] = DerivedCounter(rootCounter, BucketOn(path, n[1]))
    BY <2>1 DEF Decryptable
  <2> QED BY <1>2, <2>2
<1>3. \A n \in Bucket : pageCounter'[n] = next(n)
  <2> HIDE DEF next
  <2> QED BY <1>1
<1>4. pageCounter' = [n \in Bucket |-> pageCounter'[n]]
  <2> HIDE DEF next
  <2> QED BY <1>1
<1> HIDE DEF path
<1> QED
  BY <1>1, <1>2, <1>3, <1>4 DEF path

LEMMA UnaryEviction ==
  ASSUME TopLevelOrder = 1, UnaryCounters, status = "ok", NEW t, NEW s, EvictionAccess(t, s)
  PROVE  UnaryCounters'
<1> DEFINE path == PathOf(indices)
           first == PathOf(FirstIndices)
           second == PathOf(Advanced(FirstIndices))
<1>1. CASE ~Decryptable(path)
  <2>1. /\ UNCHANGED <<rootCounter, pageCounter>> /\ status' = "AuthTagVerificationFailed"
        /\ indices' = Advanced(indices)
    BY <1>1 DEF EvictionAccess
  <2>2. indices' \in Indices
    BY <2>1, AdvancedType DEF UnaryCounters
  <2> QED BY <2>1, <2>2 DEF UnaryCounters
<1>2. CASE Decryptable(path)
  <2>1. /\ indices' = Advanced(indices) /\ rootCounter' = rootCounter + 1
        /\ pageCounter' = [n \in Bucket |-> pageCounter'[n]]
        /\ \A n \in Bucket : pageCounter'[n] = IF n = BucketOn(path, n[1])
                                               THEN pageCounter[n] + 1 ELSE pageCounter[n]
    BY <1>2, EvictionCounts
  <2>2. first \in Path /\ second \in Path /\ indices' \in Indices
    BY <2>1, FirstIndicesType, AdvancedType, PathOfType DEF UnaryCounters
  <2>3. CASE rootCounter = 0
    <3>1. indices = FirstIndices /\ \A n \in Bucket : pageCounter[n] = 0
      BY <2>3 DEF UnaryCounters
    <3>2. rootCounter' = 1 /\ indices' = Advanced(FirstIndices)
      BY <2>1, <2>3, <3>1
    <3>3. \A n \in Bucket : pageCounter'[n] = IF n = BucketOn(first, n[1]) THEN 1 ELSE 0
      <4> HIDE DEF first
      <4> QED BY <2>1, <3>1 DEF first
    <3> QED BY <2>1, <2>2, <3>2, <3>3 DEF UnaryCounters
  <2>4. CASE rootCounter = 1
    <3>1. /\ indices = Advanced(FirstIndices) /\ path = second
          /\ \A n \in Bucket : pageCounter[n] = IF n = BucketOn(first, n[1]) THEN 1 ELSE 0
      BY <2>4 DEF UnaryCounters
    <3>2. rootCounter' = 2
      BY <2>1, <2>4
    <3>3. ASSUME NEW n \in Bucket
          PROVE  IF n[1] \in 0 .. 1 THEN pageCounter'[n] = 2 ELSE pageCounter'[n] \in 0 .. 1
      <4>1. pageCounter'[n] = IF n = BucketOn(second, n[1])
                              THEN pageCounter[n] + 1 ELSE pageCounter[n]
        BY <2>1, <3>1
      <4>2. pageCounter[n] = IF n = BucketOn(first, n[1]) THEN 1 ELSE 0
        BY <3>1
      <4>3. CASE n[1] \in 0 .. 1
        <5>1. n = BucketOn(first, n[1]) /\ n = BucketOn(second, n[1])
          BY <2>2, <4>3, TopBuckets
        <5> HIDE DEF first, second
        <5> QED BY <4>1, <4>2, <4>3, <5>1
      <4>4. CASE n[1] \notin 0 .. 1
        <5>1. n # BucketOn(first, n[1]) \/ n # BucketOn(second, n[1])
          BY <4>4, FirstTwoEvictions
        <5> HIDE DEF first, second
        <5> QED BY <4>1, <4>2, <4>4, <5>1
      <4> QED BY <4>3, <4>4
    <3> QED BY <2>1, <2>2, <3>2, <3>3 DEF UnaryCounters
  <2>5. CASE rootCounter = 2
    <3>1. path \in Path
      BY PathOfType DEF UnaryCounters
    <3> QED BY <1>2, <2>5, <3>1, NoThirdEviction
  <2> QED BY <2>3, <2>4, <2>5 DEF UnaryCounters
<1> QED
  BY <1>1, <1>2

LEMMA InitUnary == Init => UnaryCounters
<1> SUFFICES ASSUME Init PROVE UnaryCounters
  OBVIOUS
<1>1. rootCounter = 0 /\ indices = FirstIndices /\ pageCounter = [n \in Bucket |-> 0]
  BY DEF Init
<1>2. pageCounter = [n \in Bucket |-> pageCounter[n]] /\ \A n \in Bucket : pageCounter[n] = 0
  BY <1>1
<1> QED
  BY <1>1, <1>2, FirstIndicesType DEF UnaryCounters

LEMMA StepUnary == TopLevelOrder = 1 /\ UnaryCounters /\ [Next]_vars => UnaryCounters'
<1> SUFFICES ASSUME TopLevelOrder = 1, UnaryCounters, [Next]_vars PROVE UnaryCounters'
  OBVIOUS
<1>1. CASE UNCHANGED counters /\ (status' = "ok" => status = "ok")
  BY <1>1 DEF counters, UnaryCounters
<1>2. CASE status = "ok" /\ \E t, s : EvictionAccess(t, s)
  BY <1>2, UnaryEviction
<1> QED
  BY <1>1, <1>2, CountersStep

LEMMA UnaryMeansBalanced == TopLevelOrder = 1 /\ UnaryCounters => EvictionsBalanced
<1> SUFFICES ASSUME TopLevelOrder = 1, UnaryCounters,
                    NEW n \in Bucket, NEW m \in Bucket, n[1] = m[1]
             PROVE  pageCounter[n] <= pageCounter[m] + 1
  BY DEF EvictionsBalanced
<1>1. CASE rootCounter = 0
  <2>1. pageCounter[n] = 0 /\ pageCounter[m] = 0
    BY <1>1 DEF UnaryCounters
  <2> QED BY <2>1
<1>2. CASE rootCounter = 1
  <2>1. ASSUME NEW k \in Bucket PROVE pageCounter[k] \in 0 .. 1
    <3>1. pageCounter[k] = IF k = BucketOn(PathOf(FirstIndices), k[1]) THEN 1 ELSE 0
      BY <1>2 DEF UnaryCounters
    <3> QED BY <3>1
  <2>2. pageCounter[n] \in 0 .. 1 /\ pageCounter[m] \in 0 .. 1
    BY <2>1
  <2> QED BY <2>2
<1>3. CASE rootCounter = 2
  <2>1. \A k \in Bucket : IF k[1] \in 0 .. 1 THEN pageCounter[k] = 2 ELSE pageCounter[k] \in 0 .. 1
    BY <1>3 DEF UnaryCounters
  <2>2. CASE n[1] \in 0 .. 1
    <3>1. pageCounter[n] = 2 /\ pageCounter[m] = 2
      BY <2>1, <2>2
    <3> QED BY <3>1
  <2>3. CASE n[1] \notin 0 .. 1
    <3>1. pageCounter[n] \in 0 .. 1 /\ pageCounter[m] \in 0 .. 1
      BY <2>1, <2>3
    <3> QED BY <3>1
  <2> QED BY <2>2, <2>3
<1> QED
  BY <1>1, <1>2, <1>3 DEF UnaryCounters

LEMMA DerivedMeansBalanced == CountersDerived => EvictionsBalanced
<1> SUFFICES ASSUME CountersDerived, NEW n \in Bucket, NEW m \in Bucket, n[1] = m[1]
             PROVE  pageCounter[n] <= pageCounter[m] + 1
  BY DEF EvictionsBalanced
<1> QED
  BY DerivedCounterBalanced DEF CountersDerived

(* Reverse lexicographic order evicts no bucket twice before another one of *)
(* its level, in a binary tree for ever and under a unary root for the two  *)
(* evictions there are.                                                     *)
THEOREM Balance == Spec => []EvictionsBalanced
<1> DEFINE I == IF TopLevelOrder = 2 THEN CountersDerived ELSE UnaryCounters
<1>1. TopLevelOrder = 1 \/ TopLevelOrder = 2
  BY TopLevelOrderAssumption
<1>2. Init => I
  BY <1>1, InitDerives, InitUnary
<1>3. I /\ [Next]_vars => I'
  <2>1. CASE TopLevelOrder = 2
    BY <2>1, StepDerives
  <2>2. CASE TopLevelOrder = 1
    BY <2>2, StepUnary
  <2> QED BY <1>1, <2>1, <2>2
<1>4. I => EvictionsBalanced
  BY <1>1, DerivedMeansBalanced, UnaryMeansBalanced
<1> QED
  BY <1>2, <1>3, <1>4, PTL DEF Spec

-----------------------------------------------------------------------------
(* root_counter moves only when an eviction has run, and what it has left   *)
(* of the path is packed.                                                   *)
LEMMA PlacementPacks ==
  ASSUME NEW pm, NEW t, NEW s, Good(pm, t, s), CountersOK, NEW c \in Content, NEW r,
         c # NoBlock => c.path = pm[c.id] /\ Lacks(t, s, c.id),
         PlaceBlockOnPath(t, s, c, r), rootCounter' # rootCounter
  PROVE  PacksWell(PathOf(indices), tree', stash')
<1>1. PICK i \in StashSlot : s[i] = NoBlock /\ EvictionAccess(t, [s EXCEPT ![i] = c])
  BY PlacementSteps DEF counters
<1> DEFINE added == [s EXCEPT ![i] = c]
<1>2. Good(pm, t, added) /\ EvictionAccess(t, added)
  BY <1>1, AdditionGood
<1> HIDE DEF added
<1>3. tree' = EvictedTree(t, added, PathOf(indices))
      /\ stash' = EvictedStash(t, added, PathOf(indices))
  BY <1>2 DEF EvictionAccess
<1>4. PathOf(indices) \in Path
  BY PathOfType DEF CountersOK
<1> QED
  BY <1>2, <1>3, <1>4, EvictionPacks

LEMMA MoveToStashPacks ==
  ASSUME IInv, status = "ok", NEW b \in Block, NEW newPath \in Path, NEW v \in Value, NEW r,
         MoveToStash(b, newPath, v, r), rootCounter' # rootCounter
  PROVE  PacksWell(PathOf(indices), tree', stash')
<1> DEFINE t == TreeWithout(b)
           s == StashWithout(b)
           pm == [posmap EXCEPT ![b] = newPath]
           c == [id |-> b, path |-> newPath, data |-> v]
<1>1. Good(posmap, tree, stash) /\ posmap \in [Block -> Path] /\ CountersOK
  BY InvariantParts DEF Good, Parts
<1>2. Good(pm, t, s) /\ Lacks(t, s, b)
  BY <1>1, RemovalGood, RemapGood
<1>3. c \in Content /\ c.id = b /\ c.path = pm[c.id]
  BY <1>1 DEF Content, Entry
<1>4. PlaceBlockOnPath(t, s, c, r)
  BY DEF MoveToStash
<1> HIDE DEF t, s, pm, c
<1> QED
  BY <1>1, <1>2, <1>3, <1>4, PlacementPacks

LEMMA NextPacks ==
  ASSUME IInv, [Next]_vars, rootCounter' # rootCounter
  PROVE  PacksWell(PathOf(indices), tree', stash')
<1>1. Parts
  BY InvariantParts
<1>2. status = "ok" => Good(posmap, tree, stash)
  BY <1>1 DEF Parts, Good
<1>3. CASE DummyPush
  BY <1>1, <1>2, <1>3, PlacementPacks DEF DummyPush, Parts, Content
<1>4. ASSUME NEW b \in Block, NEW newPath \in Path, NEW v \in Value,
             Read(b, newPath) \/ Write(b, newPath, v) \/ ReadWrite(b, newPath, v)
      PROVE  PacksWell(PathOf(indices), tree', stash')
  <2>1. status = "ok" /\ \E x \in Value : \E r : MoveToStash(b, newPath, x, r)
    BY <1>1, <1>4, FoundEntryStored DEF Read, Write, ReadWrite, LookupSucceeds, Parts
  <2> QED BY <2>1, MoveToStashPacks
<1>5. ASSUME NEW b \in Block, NEW newPath \in Path, NEW v \in Value, Push(b, newPath, v)
      PROVE  PacksWell(PathOf(indices), tree', stash')
  <2> DEFINE pm == [posmap EXCEPT ![b] = newPath]
             c == [id |-> b, path |-> newPath, data |-> v]
  <2>1. status = "ok" /\ ~Found(b) /\ PlaceBlockOnPath(tree, stash, c, NoReply)
    BY <1>5 DEF Push
  <2>2. Lacks(tree, stash, b)
    BY <1>2, <2>1, NotFoundLacks
  <2>3. Good(pm, tree, stash)
    BY <1>1, <1>2, <2>1, <2>2, RemapGood DEF Parts
  <2>4. c \in Content /\ c.id = b /\ c.path = pm[c.id]
    BY <1>1 DEF Content, Entry, Parts
  <2> HIDE DEF pm, c
  <2> QED BY <1>1, <2>1, <2>2, <2>3, <2>4, PlacementPacks DEF Parts
<1>6. PICK v : v \in Value
  BY RawOramAssumption
<1> QED
  BY <1>3, <1>4, <1>5, <1>6
     DEF Next, SaveAndLoad, DummyPop, Pop, LookupThrows, vars, counters

(* The eviction is greedy, whatever the tree, the stash and their contents: *)
(* a slot of the evicted path stays free only if no block of the stash or   *)
(* higher on the path could have gone there.                                *)
THEOREM PackedPaths == Spec => EvictionPacksPath
<1>1. ASSUME IInv, [Next]_vars
      PROVE  [rootCounter' # rootCounter =>
                LET path == PathOf(indices)
                    fits(c, l) == c # NoBlock /\ BucketOn(c.path, l) = BucketOn(path, l)
                IN  \A l \in Level :
                      (\E s \in Slot : tree'[BucketOn(path, l)][s] = NoBlock) =>
                        /\ \A i \in StashSlot : ~fits(stash'[i], l)
                        /\ \A k \in 0 .. l - 1, s \in Slot :
                             ~fits(tree'[BucketOn(path, k)][s], l)]_vars
  <2>1. rootCounter' # rootCounter => PacksWell(PathOf(indices), tree', stash')
    BY <1>1, NextPacks
  <2> QED BY <2>1 DEF PacksWell
<1> QED
  BY <1>1, InvariantHolds, PTL DEF Spec, EvictionPacksPath

-----------------------------------------------------------------------------
(* The ORAM implements BlockStore.  What a client sees of a block is the    *)
(* payload stored for it, wherever it is.                                   *)
WellPlaced == posmap \in [Block -> Path] /\ Good(posmap, tree, stash)

ShowsWhatIsStored == Contents = [b \in Block |-> ValueOf(tree, stash, b)]

LEMMA ContentsStored == WellPlaced => ShowsWhatIsStored
<1> SUFFICES ASSUME posmap \in [Block -> Path], Good(posmap, tree, stash), NEW b \in Block
             PROVE  Contents[b] = ValueOf(tree, stash, b)
  BY DEF WellPlaced, ShowsWhatIsStored, Contents
<1>1. Typed(tree, stash) /\ OneCopy(tree, stash)
  BY DEF Good
<1>2. CASE Found(b)
  <2>1. Stores(tree, stash, b, FoundEntry(b))
    BY <1>1, <1>2, FoundEntryStored
  <2> QED BY <1>1, <1>2, <2>1, StoredValue DEF Contents
<1>3. CASE ~Found(b)
  <2>1. \A c : ~Stores(tree, stash, b, c)
    BY <1>3, NotFoundLacks, LacksStores
  <2> QED BY <1>1, <1>3, <2>1, StoredValue DEF Contents
<1> QED
  BY <1>2, <1>3

(* A step that stores every other block as before changes one payload.      *)
LEMMA ContentsStep ==
  ASSUME WellPlaced, WellPlaced', NEW b \in Block,
         \A a \in Block : \A d : a # b => (Stores(tree', stash', a, d) <=> Stores(tree, stash, a, d))
  PROVE  /\ Contents' = [Contents EXCEPT ![b] = ValueOf(tree', stash', b)]
         /\ ValueOf(tree', stash', b) \in Value \cup {NoBlock}
<1>1. Contents = [a \in Block |-> ValueOf(tree, stash, a)]
  BY ContentsStored DEF ShowsWhatIsStored
<1>2. Contents' = [a \in Block |-> ValueOf(tree', stash', a)]
  <2>1. ShowsWhatIsStored'
    BY ContentsStored, PTL
  <2> QED BY <2>1 DEF ShowsWhatIsStored
<1>3. /\ Typed(tree, stash) /\ OneCopy(tree, stash)
      /\ Typed(tree', stash') /\ OneCopy(tree', stash')
  BY DEF WellPlaced, Good
<1>4. \A a \in Block : a # b => ValueOf(tree', stash', a) = ValueOf(tree, stash, a)
  BY <1>3, SameValue
<1>5. ValueOf(tree', stash', b) \in Value \cup {NoBlock}
  BY <1>3, StoredValue
<1> QED
  BY <1>1, <1>2, <1>4, <1>5

(* A placement adds its block to what is stored, or throws.                 *)
LEMMA PlacementStores ==
  ASSUME NEW pm, NEW t, NEW s, Good(pm, t, s), CountersOK, status = "ok",
         NEW c \in Content, NEW r,
         c # NoBlock => c.path = pm[c.id] /\ Lacks(t, s, c.id),
         PlaceBlockOnPath(t, s, c, r)
  PROVE  /\ \A a, d : c = NoBlock \/ c.id # a =>
              (Stores(tree', stash', a, d) <=> Stores(t, s, a, d))
         /\ \/ status' = "ok" /\ reply' = r /\ (c # NoBlock => Stores(tree', stash', c.id, c))
            \/ status' # "ok" /\ reply' = NoReply
<1>1. CASE status' = "StashOverflow" /\ tree' = t /\ stash' = s /\ reply' = NoReply
  BY <1>1
<1>2. ASSUME NEW i \in StashSlot, s[i] = NoBlock,
             \/ /\ tree' = t /\ stash' = [s EXCEPT ![i] = c] /\ reply' = r
                /\ UNCHANGED <<counters, status>>
             \/ /\ EvictionAccess(t, [s EXCEPT ![i] = c])
                /\ reply' = IF Decryptable(PathOf(indices)) THEN r ELSE NoReply
      PROVE  /\ \A a, d : c = NoBlock \/ c.id # a =>
                  (Stores(tree', stash', a, d) <=> Stores(t, s, a, d))
             /\ \/ /\ status' = "ok" /\ reply' = r
                   /\ c # NoBlock => Stores(tree', stash', c.id, c)
                \/ status' # "ok" /\ reply' = NoReply
  <2> DEFINE added == [s EXCEPT ![i] = c]
  <2>1. \A a, d : Stores(t, added, a, d)
                    <=> Stores(t, s, a, d) \/ (c # NoBlock /\ c.id = a /\ d = c)
    <3>1. s \in [StashSlot -> Content]
      BY DEF Good, Typed
    <3>2. added[i] = c /\ \A j \in StashSlot : j # i => added[j] = s[j]
      BY <3>1
    <3> HIDE DEF added
    <3> QED BY <1>2, <3>2, AdditionStores
  <2>2. Good(pm, t, added)
    BY <1>2, AdditionGood
  <2>3. \/ tree' = t /\ stash' = added /\ reply' = r /\ status' = "ok"
        \/ EvictionAccess(t, added) /\ reply' = IF Decryptable(PathOf(indices)) THEN r ELSE NoReply
    BY <1>2
  <2> HIDE DEF added
  <2>4. CASE tree' = t /\ stash' = added /\ reply' = r /\ status' = "ok"
    BY <2>1, <2>4
  <2>5. CASE EvictionAccess(t, added)
             /\ reply' = IF Decryptable(PathOf(indices)) THEN r ELSE NoReply
    <3>1. PathOf(indices) \in Path
      BY PathOfType DEF CountersOK
    <3>2. CASE Decryptable(PathOf(indices))
      <4>1. /\ tree' = EvictedTree(t, added, PathOf(indices))
            /\ stash' = EvictedStash(t, added, PathOf(indices))
            /\ status' = "ok" /\ reply' = r
        BY <2>5, <3>2 DEF EvictionAccess
      <4>2. \A a, d : Stores(tree', stash', a, d) <=> Stores(t, added, a, d)
        BY <2>2, <3>1, <4>1, EvictionKeeps
      <4> QED BY <2>1, <4>1, <4>2
    <3>3. CASE ~Decryptable(PathOf(indices))
      <4>1. tree' = t /\ stash' = added /\ status' # "ok" /\ reply' = NoReply
        BY <2>5, <3>3 DEF EvictionAccess
      <4> QED BY <2>1, <4>1
    <3> QED BY <3>2, <3>3
  <2> QED BY <2>3, <2>4, <2>5
<1>3. CASE \E i \in StashSlot :
             /\ s[i] = NoBlock
             /\ \/ /\ tree' = t /\ stash' = [s EXCEPT ![i] = c] /\ reply' = r
                   /\ UNCHANGED <<counters, status>>
                \/ /\ EvictionAccess(t, [s EXCEPT ![i] = c])
                   /\ reply' = IF Decryptable(PathOf(indices)) THEN r ELSE NoReply
  BY <1>2, <1>3
<1> QED
  BY <1>1, <1>3, PlacementSteps

(* What a request that places its block with payload v does to the store.   *)
Puts(b, v, r) ==
  \/ status' = "ok" /\ reply' = r /\ Contents' = [Contents EXCEPT ![b] = v]
  \/ /\ status' # "ok" /\ reply' = NoReply
     /\ \E x \in Value \cup {NoBlock} : Contents' = [Contents EXCEPT ![b] = x]

LEMMA PlacementPuts ==
  ASSUME Parts, status = "ok", NEW b \in Block, NEW newPath \in Path, NEW v \in Value,
         NEW t, NEW s, NEW r \in Value \cup {NoReply},
         Good(posmap, t, s), Lacks(t, s, b),
         \A a \in Block : \A d : a # b => (Stores(t, s, a, d) <=> Stores(tree, stash, a, d)),
         posmap' = [posmap EXCEPT ![b] = newPath],
         PlaceBlockOnPath(t, s, [id |-> b, path |-> newPath, data |-> v], r)
  PROVE  Puts(b, v, r)
<1> DEFINE c == [id |-> b, path |-> newPath, data |-> v]
<1>1. /\ posmap \in [Block -> Path] /\ posmap' \in [Block -> Path]
      /\ CountersOK /\ Good(posmap, tree, stash)
  BY DEF Parts, Good
<1>2. Good(posmap', t, s)
  BY <1>1, RemapGood
<1>3. /\ c \in Content /\ c \in Entry /\ c # NoBlock /\ c.id = b /\ c.data = v
      /\ c.path = posmap'[c.id] /\ PlaceBlockOnPath(t, s, c, r)
  BY <1>1, NoBlockAssumption DEF Content, Entry
<1> HIDE DEF c
<1>4. Good(posmap', tree', stash')
  BY <1>1, <1>2, <1>3, PlacementGood
<1>5. WellPlaced /\ WellPlaced'
  BY <1>1, <1>4 DEF WellPlaced
<1>6. /\ \A a, d : b # a => (Stores(tree', stash', a, d) <=> Stores(t, s, a, d))
      /\ \/ status' = "ok" /\ reply' = r /\ Stores(tree', stash', b, c)
         \/ status' # "ok" /\ reply' = NoReply
  BY <1>1, <1>2, <1>3, PlacementStores
<1>7. /\ Contents' = [Contents EXCEPT ![b] = ValueOf(tree', stash', b)]
      /\ ValueOf(tree', stash', b) \in Value \cup {NoBlock}
  BY <1>5, <1>6, ContentsStep
<1>8. Stores(tree', stash', b, c) => ValueOf(tree', stash', b) = v
  BY <1>3, <1>4, StoredValue DEF Good
<1> QED
  BY <1>6, <1>7, <1>8 DEF Puts

LEMMA MoveToStashPuts ==
  ASSUME Parts, status = "ok", NEW b \in Block, NEW newPath \in Path, NEW v \in Value,
         NEW r \in Value \cup {NoReply}, MoveToStash(b, newPath, v, r)
  PROVE  Puts(b, v, r)
<1> DEFINE t == TreeWithout(b)
           s == StashWithout(b)
<1>1. Good(posmap, t, s) /\ Lacks(t, s, b)
  BY RemovalGood DEF Parts, Good
<1>2. \A a \in Block : \A d : a # b => (Stores(t, s, a, d) <=> Stores(tree, stash, a, d))
  BY ErasureStores DEF TreeWithout, StashWithout
<1>3. posmap' = [posmap EXCEPT ![b] = newPath]
      /\ PlaceBlockOnPath(t, s, [id |-> b, path |-> newPath, data |-> v], r)
  BY DEF MoveToStash, Remap
<1> HIDE DEF t, s
<1> QED
  BY <1>1, <1>2, <1>3, PlacementPuts

(* What the client is given of a block that is found is in the store.       *)
LEMMA FoundPresent ==
  ASSUME Parts, NEW b \in Block, Found(b)
  PROVE  /\ FoundEntry(b).data = Contents[b] /\ FoundEntry(b).data \in Value
         /\ Contents[b] # NoBlock
<1>1. FoundEntry(b).data \in Value
  BY FoundEntryStored DEF Parts
<1> QED
  BY <1>1, NoBlockAssumption DEF Contents

AnswersAreValues == \A b \in Block : Found(b) => FoundEntry(b).data \in Value

LEMMA AnswersTyped == Parts => AnswersAreValues
BY FoundEntryStored DEF Parts, AnswersAreValues

(* A lookup that throws may lose its block, and touches no other.           *)
LEMMA ThrowSpoilsOne ==
  ASSUME Parts, Parts', status = "ok", NEW b \in Block, NEW newPath \in Path,
         LookupThrows(b, newPath)
  PROVE  \E x \in Value \cup {NoBlock} : Contents' = [Contents EXCEPT ![b] = x]
<1>1. /\ posmap' = [posmap EXCEPT ![b] = newPath] /\ posmap \in [Block -> Path]
      /\ tree' = tree /\ stash' = StashWithoutFirst(b)
  BY DEF LookupThrows, Remap, Parts
<1>2. ASSUME NEW i \in StashSlot
      PROVE  stash'[i] = stash[i] \/ (stash'[i] = NoBlock /\ stash[i].id = b)
  BY <1>1 DEF StashWithoutFirst, StashHits, Holds
<1>3. ASSUME NEW a \in Block, a # b PROVE Contents'[a] = Contents[a]
  <2>1. posmap'[a] = posmap[a]
    BY <1>1, <1>3
  <2>2. StashHits(a)' = StashHits(a)
    BY <1>2, <1>3 DEF StashHits, Holds
  <2>3. PathHits(a, posmap[a])' = PathHits(a, posmap[a])
    BY <1>1, <2>1 DEF PathHits
  <2>4. Found(a)' <=> Found(a)
    BY <2>2, <2>3 DEF Found
  <2>5. FoundEntry(a)' = FoundEntry(a)
    <3>1. CASE StashHits(a) # {}
      <4>1. PICK i \in StashHits(a) : FoundEntry(a) = stash[i] /\ FoundEntry(a)' = stash'[i]
        BY <2>2, <3>1 DEF FoundEntry
      <4> QED BY <1>2, <1>3, <4>1 DEF StashHits, Holds
    <3>2. CASE StashHits(a) = {}
      <4> DEFINE last == LastOf(PathHits(a, posmap[a]))
      <4>1. FoundEntry(a) = tree[BucketOn(posmap[a], last[1])][last[2]]
        BY <3>2 DEF FoundEntry, LastOf
      <4>2. FoundEntry(a)' = tree'[BucketOn(posmap'[a], last'[1])][last'[2]]
        BY <2>2, <3>2 DEF FoundEntry, LastOf
      <4>3. last' = last
        BY <2>3
      <4> HIDE DEF last
      <4> QED BY <1>1, <2>1, <4>1, <4>2, <4>3
    <3> QED BY <3>1, <3>2
  <2> QED BY <2>4, <2>5 DEF Contents
<1>4. Contents'[b] \in Value \cup {NoBlock}
  <2>1. AnswersAreValues'
    BY AnswersTyped, PTL
  <2> QED BY <2>1 DEF AnswersAreValues, Contents
<1>5. Contents' = [Contents EXCEPT ![b] = Contents'[b]]
  BY <1>3 DEF Contents
<1> QED
  BY <1>4, <1>5

LEMMA InitRefines == Init => Store!StoreInit
<1> SUFFICES ASSUME Init PROVE Store!StoreInit
  OBVIOUS
<1>1. Parts /\ status = "ok" /\ reply = NoReply
  BY InitGood, InvariantParts DEF Init
<1>2. Contents = [b \in Block |-> ValueOf(tree, stash, b)]
  BY <1>1, ContentsStored DEF Parts, WellPlaced, ShowsWhatIsStored, Good
<1>3. Typed(tree, stash) /\ OneCopy(tree, stash)
  BY <1>1 DEF Parts
<1>4. CASE EmptyTree
  <2>1. \A b, c : ~Stores(tree, stash, b, c)
    BY <1>4 DEF Init, EmptyTree, Stores
  <2>2. \A b \in Block : ValueOf(tree, stash, b) = NoBlock
    BY <1>3, <2>1, StoredValue
  <2> QED BY <1>1, <1>2, <2>2 DEF Store!StoreInit
<1>5. CASE FilledTree
  <2>1. PICK at \in [Block -> Bucket \X Slot] :
          /\ \A a, b \in Block : at[a] = at[b] => a = b
          /\ tree = [n \in Bucket |-> [s \in Slot |->
                       IF \E b \in Block : at[b] = <<n, s>>
                       THEN LET b == CHOOSE a \in Block : at[a] = <<n, s>>
                            IN  [id |-> b, path |-> posmap[b], data |-> b]
                       ELSE NoBlock]]
    BY <1>5 DEF FilledTree
  <2>2. ASSUME NEW b \in Block PROVE ValueOf(tree, stash, b) \in Value
    <3> DEFINE c == [id |-> b, path |-> posmap[b], data |-> b]
    <3>1. PICK n \in Bucket, u \in Slot : at[b] = <<n, u>>
      BY <2>1
    <3>2. \A a \in Block : at[a] = <<n, u>> => a = b
      BY <2>1, <3>1
    <3>3. tree[n][u] = c
      BY <2>1, <3>1, <3>2
    <3>4. c # NoBlock /\ c.id = b
      BY <1>1, NoBlockAssumption, RawOramAssumption DEF Parts, Entry
    <3> HIDE DEF c
    <3>5. Stores(tree, stash, b, c)
      BY <3>1, <3>3, <3>4 DEF Stores
    <3> QED BY <1>3, <3>5, StoredValue
  <2> QED BY <1>1, <1>2, <2>2 DEF Store!StoreInit
<1> QED
  BY <1>4, <1>5 DEF Init

LEMMA NextRefines ==
  ASSUME IInv, IInv', [Next]_vars
  PROVE  [Store!StoreNext]_(Store!storeVars)
<1>1. Parts /\ Parts'
  BY InvariantParts, PTL
<1>2. Contents = [a \in Block |-> Contents[a]]
  BY DEF Contents
<1>3. ASSUME status = "ok", NEW b \in Block,
             status' # "ok" /\ reply' = NoReply
               /\ \E x \in Value \cup {NoBlock} : Contents' = [Contents EXCEPT ![b] = x]
      PROVE  Store!Fail(b)
  BY <1>3 DEF Store!Fail
<1>4. ASSUME NEW b \in Block, NEW newPath \in Path, Read(b, newPath)
      PROVE  Store!Read(b) \/ Store!Fail(b)
  <2>1. /\ status = "ok" /\ Found(b)
        /\ MoveToStash(b, newPath, FoundEntry(b).data, FoundEntry(b).data)
    BY <1>4 DEF Read, LookupSucceeds
  <2>2. Puts(b, Contents[b], Contents[b]) /\ Contents[b] # NoBlock
    BY <1>1, <2>1, FoundPresent, MoveToStashPuts
  <2> QED BY <1>2, <1>3, <2>1, <2>2
          DEF Puts, Store!Read, Store!Returns, Store!Present
<1>5. ASSUME NEW b \in Block, NEW newPath \in Path, NEW v \in Value, Write(b, newPath, v)
      PROVE  Store!Write(b, v) \/ Store!Fail(b)
  <2>1. status = "ok" /\ MoveToStash(b, newPath, v, NoReply)
    BY <1>5 DEF Write, LookupSucceeds
  <2>2. Puts(b, v, NoReply)
    BY <1>1, <2>1, MoveToStashPuts
  <2> QED BY <1>3, <2>1, <2>2 DEF Puts, Store!Write, Store!Returns
<1>6. ASSUME NEW b \in Block, NEW newPath \in Path, NEW v \in Value, ReadWrite(b, newPath, v)
      PROVE  Store!ReadWrite(b, v) \/ Store!Fail(b)
  <2>1. status = "ok" /\ Found(b) /\ MoveToStash(b, newPath, v, FoundEntry(b).data)
    BY <1>6 DEF ReadWrite, LookupSucceeds
  <2>2. Puts(b, v, Contents[b]) /\ Contents[b] # NoBlock
    BY <1>1, <2>1, FoundPresent, MoveToStashPuts
  <2> QED BY <1>3, <2>1, <2>2
          DEF Puts, Store!ReadWrite, Store!Returns, Store!Present
<1>7. ASSUME NEW b \in Block, NEW newPath \in Path, Pop(b, newPath)
      PROVE  Store!Pop(b)
  <2>1. /\ status = "ok" /\ status' = "ok" /\ Found(b) /\ reply' = FoundEntry(b).data
        /\ posmap' = [posmap EXCEPT ![b] = newPath]
        /\ tree' = TreeWithout(b) /\ stash' = StashWithout(b)
    BY <1>7 DEF Pop, LookupSucceeds, Remap
  <2>2. WellPlaced /\ WellPlaced'
    BY <1>1, <2>1 DEF WellPlaced, Parts, Good
  <2>3. \A a \in Block : \A d : a # b => (Stores(tree', stash', a, d) <=> Stores(tree, stash, a, d))
    BY <2>1, ErasureStores DEF TreeWithout, StashWithout
  <2>4. Lacks(tree', stash', b)
    BY <2>1, <2>2, RemovalGood DEF WellPlaced
  <2>5. ValueOf(tree', stash', b) = NoBlock
    BY <2>2, <2>4, LacksStores, StoredValue DEF WellPlaced, Good
  <2>6. Contents' = [Contents EXCEPT ![b] = NoBlock]
    BY <2>2, <2>3, <2>5, ContentsStep
  <2> QED BY <1>1, <2>1, <2>6, FoundPresent DEF Store!Pop, Store!Returns, Store!Present
<1>8. ASSUME NEW b \in Block, NEW newPath \in Path, NEW v \in Value, Push(b, newPath, v)
      PROVE  Store!Push(b, v) \/ Store!Fail(b)
  <2>1. /\ status = "ok" /\ ~Found(b) /\ posmap' = [posmap EXCEPT ![b] = newPath]
        /\ PlaceBlockOnPath(tree, stash, [id |-> b, path |-> newPath, data |-> v], NoReply)
    BY <1>8 DEF Push, Remap
  <2>2. Good(posmap, tree, stash) /\ Lacks(tree, stash, b)
    BY <1>1, <2>1, NotFoundLacks DEF Parts, Good
  <2>3. Puts(b, v, NoReply)
    BY <1>1, <2>1, <2>2, PlacementPuts
  <2>4. Contents[b] = NoBlock
    BY <2>1 DEF Contents
  <2> QED BY <1>3, <2>1, <2>3, <2>4 DEF Puts, Store!Push, Store!Returns, Store!Present
<1>9. ASSUME NEW b \in Block, NEW newPath \in Path, LookupThrows(b, newPath)
      PROVE  Store!Fail(b)
  <2>1. status = "ok" /\ status' # "ok" /\ reply' = NoReply
    BY <1>9 DEF LookupThrows
  <2> QED BY <1>1, <1>3, <1>9, <2>1, ThrowSpoilsOne
<1>10. ASSUME NEW b \in Block, Contents' = Contents, status = "ok", reply' = NoReply,
              status' = "ok" \/ status' # "ok"
       PROVE  Store!Dummy \/ Store!Fail(b)
  <2>1. Contents[b] \in Value \cup {NoBlock}
    BY <1>1, FoundPresent DEF Contents
  <2>2. Contents = [Contents EXCEPT ![b] = Contents[b]]
    BY <1>2
  <2> QED BY <1>10, <2>1, <2>2 DEF Store!Fail, Store!Dummy, Store!Returns
<1>11. PICK someBlock : someBlock \in Block
  BY RawOramAssumption
<1>12. ASSUME NEW b \in Block, DummyPop(b) PROVE Store!Dummy \/ Store!Fail(b)
  <2>1. Contents' = Contents /\ status = "ok" /\ reply' = NoReply
    BY <1>12 DEF DummyPop, Contents, Found, FoundEntry, StashHits, PathHits
  <2> QED BY <1>10, <2>1
<1>13. CASE DummyPush
  <2>1. status = "ok" /\ PlaceBlockOnPath(tree, stash, NoBlock, NoReply) /\ posmap' = posmap
    BY <1>13 DEF DummyPush
  <2>2. Good(posmap, tree, stash) /\ CountersOK /\ NoBlock \in Content
    BY <1>1, <2>1 DEF Parts, Good, Content
  <2>3. Good(posmap, tree', stash')
    BY <2>1, <2>2, PlacementGood
  <2>4. reply' = NoReply
        /\ \A a, d : Stores(tree', stash', a, d) <=> Stores(tree, stash, a, d)
    BY <2>1, <2>2, PlacementStores
  <2>5. WellPlaced /\ WellPlaced'
    BY <1>1, <2>1, <2>2, <2>3 DEF WellPlaced, Parts
  <2>6. /\ Contents' = [Contents EXCEPT ![someBlock] = ValueOf(tree', stash', someBlock)]
    BY <1>11, <2>4, <2>5, ContentsStep
  <2>7. ValueOf(tree', stash', someBlock) = Contents[someBlock]
    <3>1. Contents = [a \in Block |-> ValueOf(tree, stash, a)]
      BY <2>5, ContentsStored DEF ShowsWhatIsStored
    <3>2. ValueOf(tree', stash', someBlock) = ValueOf(tree, stash, someBlock)
      BY <2>4, <2>5, SameValue DEF WellPlaced, Good
    <3> QED BY <1>11, <3>1, <3>2
  <2>8. Contents' = Contents
    BY <1>2, <2>6, <2>7
  <2>9. Store!Dummy \/ Store!Fail(someBlock)
    BY <1>10, <1>11, <2>1, <2>4, <2>8
  <2> QED BY <1>11, <2>9 DEF Store!StoreNext
<1>14. CASE SaveAndLoad \/ UNCHANGED vars
  <2>1. posmap' = posmap /\ tree' = tree /\ stash' = stash
        /\ status' = status /\ reply' = reply
    BY <1>14 DEF SaveAndLoad, vars
  <2>2. Contents' = Contents
    BY <2>1 DEF Contents, Found, FoundEntry, StashHits, PathHits
  <2> QED BY <2>1, <2>2 DEF Store!storeVars
<1> QED
  BY <1>4, <1>5, <1>6, <1>7, <1>8, <1>9, <1>12, <1>13, <1>14 DEF Next, Store!StoreNext

(* To its client the ORAM is a plain store of blocks, of any size: whatever *)
(* lookups, evictions and reloads move, a request returns the payload last  *)
(* written, and an exception spoils only the block it was about.            *)
THEOREM Refinement == Spec => ImplementsBlockStore
<1>1. IInv /\ IInv' /\ [Next]_vars => [Store!StoreNext]_(Store!storeVars)
  BY NextRefines
<1> QED
  BY <1>1, InitRefines, InvariantHolds, PTL DEF Spec, ImplementsBlockStore, Store!StoreSpec
=============================================================================
