--------------------------- MODULE MCOramVariants ---------------------------
(***************************************************************************)
(* Five more ORAMs for TLC, one of which is created.  Of RawOram: one that *)
(* bypasses the path on a stash hit, a deep one that holds one block and   *)
(* goes round its eviction order, and one under a unary root.  Of          *)
(* PathOram2: one of three levels, with two levels a page and counters     *)
(* that wrap.  Of BinaryPathOram: one that bypasses the path and whose     *)
(* stash may overflow.  A variable the chosen ORAM does not have is None.  *)
(***************************************************************************)
EXTENDS Integers, TLC

CONSTANTS b1, b2, b3, v1, v2, NoBlock, NoReply, NoPath, None

VARIABLES
  variant, posmap, tree, stash, accessCounter, rootCounter, indices, pageCounter,
  oram, status, reply

rawOnly == <<accessCounter, rootCounter, indices, pageCounter>>
vars == <<variant, posmap, tree, stash, rawOnly, oram, status, reply>>

Bypass == INSTANCE RawOram WITH
  Levels <- 2, TopLevelOrder <- 2, Block <- {b1, b2, b3}, Value <- {b1, b2, b3},
  BlocksPerBucket <- 2, StashCapacity <- 2, NumAccessesPerEviction <- 1,
  BypassPathReadOnStashHit <- TRUE, MaxEvictions <- 2

Deep == INSTANCE RawOram WITH
  Levels <- 4, TopLevelOrder <- 2, Block <- {b1}, Value <- {b1},
  BlocksPerBucket <- 1, StashCapacity <- 1, NumAccessesPerEviction <- 1,
  BypassPathReadOnStashHit <- FALSE, MaxEvictions <- 17

UnaryRoot == INSTANCE RawOram WITH
  Levels <- 3, TopLevelOrder <- 1, Block <- {b1, b2}, Value <- {b1, b2},
  BlocksPerBucket <- 1, StashCapacity <- 2, NumAccessesPerEviction <- 1,
  BypassPathReadOnStashHit <- FALSE, MaxEvictions <- 4

Paged == INSTANCE PathOram2 WITH
  Levels <- 3, TopLevelOrder <- 2, Block <- {b1}, Value <- {v1},
  BlocksPerBucket <- 1, StashCapacity <- 1, LevelsPerPage <- 2,
  BypassPathReadOnStashHit <- FALSE, SavesMidPath <- FALSE, CounterModulus <- 2

Tight == INSTANCE BinaryPathOram WITH
  Levels <- 2, TopLevelOrder <- 2, Block <- {b1, b2, b3}, Value <- {v1, v2},
  BlocksPerBucket <- 1, StashCapacity <- 2, BypassPathReadOnStashHit <- TRUE

ASSUME Paged!Parameters /\ Tight!Parameters

NoRaw ==
  /\ accessCounter = None /\ rootCounter = None
  /\ indices = None /\ pageCounter = None

Init ==
  \/ variant = "bypass" /\ Bypass!Init /\ oram = None
  \/ variant = "deep" /\ Deep!Init /\ oram = None
  \/ variant = "unary root" /\ UnaryRoot!Init /\ oram = None
  \/ variant = "paged" /\ Paged!Init /\ NoRaw /\ tree = None /\ stash = None
  \/ variant = "tight" /\ Tight!Init /\ NoRaw /\ oram = None

BypassNext == variant = "bypass" /\ Bypass!Next /\ UNCHANGED <<variant, oram>>
DeepNext == variant = "deep" /\ Deep!Next /\ UNCHANGED <<variant, oram>>
UnaryRootNext == variant = "unary root" /\ UnaryRoot!Next /\ UNCHANGED <<variant, oram>>
PagedNext == variant = "paged" /\ Paged!Next /\ UNCHANGED <<variant, tree, stash, rawOnly>>
TightNext == variant = "tight" /\ Tight!Next /\ UNCHANGED <<variant, rawOnly, oram>>

Next == BypassNext \/ DeepNext \/ UnaryRootNext \/ PagedNext \/ TightNext

Spec == Init /\ [][Next]_vars

(* Blocks are interchangeable, and so are payloads. *)
Symmetry == Permutations({b1, b2, b3}) \cup Permutations({v1, v2})

-----------------------------------------------------------------------------
(* Every block lies on the path the position map gives it: see RawOram,    *)
(* PathOram2 and BinaryPathOram.                                           *)
BlocksOnTheirPaths ==
  CASE variant = "bypass" -> Bypass!BlocksOnTheirPaths
    [] variant = "deep" -> Deep!BlocksOnTheirPaths
    [] variant = "unary root" -> UnaryRoot!BlocksOnTheirPaths
    [] variant = "paged" -> Paged!BlocksOnTheirPaths
    [] variant = "tight" -> Tight!BlocksOnTheirPaths

(* Stash, tree and path buffer hold a block once: see the same modules.    *)
AtMostOneCopy ==
  CASE variant = "bypass" -> Bypass!AtMostOneCopy
    [] variant = "deep" -> Deep!AtMostOneCopy
    [] variant = "unary root" -> UnaryRoot!AtMostOneCopy
    [] variant = "paged" -> Paged!AtMostOneCopy
    [] variant = "tight" -> Tight!AtMostOneCopy

(* Every page can be decrypted under the counter derived for it, once the  *)
(* order of evictions has wrapped around too.                              *)
PagesDecryptable == variant = "deep" => Deep!PagesDecryptable

(* Every page can be decrypted under the counter the page above it holds.  *)
EveryPathReadable == variant = "paged" => Paged!EveryPathReadable

(* Each of the ORAMs is a store of blocks to its client: see BlockStore.   *)
ImplementsBlockStore ==
  /\ variant = "bypass" => Bypass!Store!StoreInit
  /\ variant = "deep" => Deep!Store!StoreInit
  /\ variant = "unary root" => UnaryRoot!Store!StoreInit
  /\ variant = "paged" => Paged!Store!StoreInit
  /\ variant = "tight" => Tight!Store!StoreInit
  /\ [][ /\ variant = "bypass" => [Bypass!Store!StoreNext]_(Bypass!Store!storeVars)
         /\ variant = "deep" => [Deep!Store!StoreNext]_(Deep!Store!storeVars)
         /\ variant = "unary root" => [UnaryRoot!Store!StoreNext]_(UnaryRoot!Store!storeVars)
         /\ variant = "paged" => [Paged!Store!StoreNext]_(Paged!Store!storeVars)
         /\ variant = "tight" => [Tight!Store!StoreNext]_(Tight!Store!storeVars) ]_vars
=============================================================================
