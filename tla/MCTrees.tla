------------------------------- MODULE MCTrees -------------------------------
(***************************************************************************)
(* The trees that ORAMs keep in their memories, for TLC: the valid bits,   *)
(* and BucketTree in either layout.  One of the three is used; the others  *)
(* stay as they were created.                                              *)
(***************************************************************************)
EXTENDS ValidBitTree

VARIABLES
  tree,                  \* which of the trees is used
  cells, path, requests  \* memory, path and requests of BucketTree

bucketVars == <<cells, path, requests>>
treesVars == <<tree, vars, bucketVars>>

TwoLevel == INSTANCE BucketTree WITH
  LayoutType <- "TwoLevelHeapLayout", memory <- cells,
  DataBucketSize <- 1, MetadataBucketSize <- 1, PageSize <- 4, MaxFilled <- 2, MaxChanges <- 1

(* A bucket of data takes two pages, and two buckets of metadata take one. *)
Heap == INSTANCE BucketTree WITH
  LayoutType <- "BasicHeapLayout", memory <- cells,
  DataBucketSize <- 4, MetadataBucketSize <- 1, PageSize <- 2, MaxFilled <- 2, MaxChanges <- 1

ASSUME TwoLevel!Parameters /\ Heap!Parameters

ASSUME TwoLevel!NoSharedPages /\ Heap!NoSharedPages

InitUnfilled == Init /\ written = [n \in Bucket |-> NoBits]

TreesInit ==
  \/ tree = "valid bits" /\ Init /\ TwoLevel!Init
  \/ tree = "two-level heap" /\ TwoLevel!Init /\ InitUnfilled
  \/ tree = "heap" /\ Heap!Init /\ InitUnfilled

ValidBitsNext == tree = "valid bits" /\ Next /\ UNCHANGED <<tree, bucketVars>>
TwoLevelNext == tree = "two-level heap" /\ TwoLevel!Next /\ UNCHANGED <<tree, vars>>
HeapNext == tree = "heap" /\ Heap!Next /\ UNCHANGED <<tree, vars>>

TreesNext == ValidBitsNext \/ TwoLevelNext \/ HeapNext

TreesSpec == TreesInit /\ [][TreesNext]_treesVars

-----------------------------------------------------------------------------
(* A path in the two-level layout is read in one request per level of pages. *)
OnePageForEachLevelOfPages == tree = "two-level heap" => TwoLevel!OnePageForEachLevelOfPages

(* The controller keeps the buckets apart and writes back those of a path. *)
ImplementsTreeStore ==
  /\ tree = "two-level heap" => TwoLevel!Tree!TreeInit
  /\ tree = "heap" => Heap!Tree!TreeInit
  /\ [][ /\ tree = "two-level heap" => [TwoLevel!Tree!TreeNext]_(TwoLevel!Tree!treeVars)
         /\ tree = "heap" => [Heap!Tree!TreeNext]_(Heap!Tree!treeVars) ]_treesVars
=============================================================================
