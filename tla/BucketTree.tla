----------------------------- MODULE BucketTree -----------------------------
(***************************************************************************)
(* UntrustedMemoryController over a plain memory: where the layouts put    *)
(* the buckets of a tree, how the reads of a path are coalesced into pages *)
(* and how the path is written back.  The data of all buckets comes first  *)
(* and their metadata behind it, each in a layout of its own.              *)
(***************************************************************************)
EXTENDS TreePaths, RequestCoalescer, Sequences, FiniteSets

CONSTANTS
  LayoutType,         \* "BasicHeapLayout" or "TwoLevelHeapLayout"
  DataBucketSize,     \* block_size * blocks_per_bucket
  MetadataBucketSize, \* block_metadata_size * blocks_per_bucket
  PageSize,           \* page_size of the memory
  NoPath,             \* current_path without a value
  MaxFilled,          \* the model fills at most that many buckets
  MaxChanges          \* and changes at most that many of a path

Parameters ==
  /\ TopLevelOrder = 2
  /\ LayoutType \in {"BasicHeapLayout", "TwoLevelHeapLayout"}
  /\ {DataBucketSize, MetadataBucketSize, PageSize} \subseteq Nat \ {0}
  /\ NoPath \notin Path
  /\ LayoutType = "TwoLevelHeapLayout" => \* else levels_per_page is 0, or wraps
       PageSize >= 2 * DataBucketSize /\ PageSize >= 2 * MetadataBucketSize

VARIABLES
  memory,   \* untrusted_memory
  path,     \* current_path
  requests  \* the requests that read the path and will write it

vars == <<memory, path, requests>>

Kind == {"data", "metadata"}

BucketSize(kind) == IF kind = "data" THEN DataBucketSize ELSE MetadataBucketSize

HeapIndex(l, i) == TwoToThe[l] - 1 + i

-----------------------------------------------------------------------------
(* TwoLevelHeapLayout: pages of LevelsPerPage levels, fewer at the top.    *)
NumBits(n) ==
  LET bits[m \in 0 .. n] == IF m = 0 THEN 0 ELSE bits[m \div 2] + 1
  IN  bits[n]

LevelsPerPage(kind) == NumBits(PageSize \div BucketSize(kind)) - 1

FirstPageLevels(kind) ==
  IF Levels % LevelsPerPage(kind) = 0 THEN LevelsPerPage(kind) ELSE Levels % LevelsPerPage(kind)

NumPageLevels(kind) == (Levels + LevelsPerPage(kind) - 1) \div LevelsPerPage(kind)

TopLevelOf(kind, pageLevel) ==
  IF pageLevel = 0 THEN 0 ELSE FirstPageLevels(kind) + (pageLevel - 1) * LevelsPerPage(kind)

PageCount(kind, i) == TwoToThe[TopLevelOf(kind, i)]

(* page_level_offsets[i]; the last is the size of the layout. *)
PageLevelOffset(kind, i) ==
  LET offset[j \in 0 .. NumPageLevels(kind)] ==
        IF j = 0 THEN 0 ELSE offset[j - 1] + PageCount(kind, j - 1) * PageSize
  IN  offset[i]

LayoutSize(kind) ==
  IF LayoutType = "BasicHeapLayout" THEN TwoToThe[Levels] * BucketSize(kind)
  ELSE PageLevelOffset(kind, NumPageLevels(kind))

Offset(kind) == IF kind = "data" THEN 0 ELSE LayoutSize("data")

(* get_address() of BasicHeapLayout: all buckets in a single heap. *)
HeapAddress(kind, p, l) == HeapIndex(l, BucketOn(p, l)[2]) * BucketSize(kind) + Offset(kind)

(* get_address() *)
GetAddress(kind, p, l) ==
  IF LayoutType = "BasicHeapLayout" \/ l < FirstPageLevels(kind) THEN HeapAddress(kind, p, l)
  ELSE LET pageLevel == (l - FirstPageLevels(kind)) \div LevelsPerPage(kind) + 1
           top == TopLevelOf(kind, pageLevel)
       IN  HeapIndex(l - top, BucketOn(p, l)[2] % TwoToThe[l - top]) * BucketSize(kind)
           + BucketOn(p, top)[2] * PageSize + PageLevelOffset(kind, pageLevel) + Offset(kind)

(* setup_path_access() of TwoLevelHeapLayout goes down the pages. *)
AddressFromPath(kind, p, l) ==
  IF LayoutType = "BasicHeapLayout" THEN GetAddress(kind, p, l)
  ELSE LET pageLevel == CHOOSE k \in 0 .. NumPageLevels(kind) - 1 :
                          TopLevelOf(kind, k) <= l /\ l < TopLevelOf(kind, k + 1)
           top == TopLevelOf(kind, pageLevel)
           levels == TopLevelOf(kind, pageLevel + 1) - top
           inner == (p \div TwoToThe[Levels - top - levels]) % TwoToThe[levels - 1]
       IN  HeapIndex(l - top, inner \div TwoToThe[levels - 1 - (l - top)]) * BucketSize(kind)
           + (p \div TwoToThe[Levels - 1 - top]) * PageSize
           + PageLevelOffset(kind, pageLevel) + Offset(kind)

-----------------------------------------------------------------------------
(* create(): whether whole pages are read for the buckets of a kind. *)
UsesPages(kind) == PageSize >= BucketSize(kind) /\ PageSize % BucketSize(kind) = 0

PagesOf(kind, p, l) == BlocksOf(GetAddress(kind, p, l), BucketSize(kind), PageSize)

(* RequestCoalescer: a page is read once, whatever buckets it holds. *)
Pages(p) == UNION { PagesOf(k, p, l) : k \in { x \in Kind : UsesPages(x) }, l \in Level }

OwnRequests(kind, p) ==
  IF UsesPages(kind) THEN << >>
  ELSE [i \in 1 .. Levels |-> [address |-> AddressFromPath(kind, p, i - 1), size |-> BucketSize(kind)]]

PageRequests(p) ==
  LET pages == Pages(p)
  IN  [i \in 1 .. Cardinality(pages) |->
         [address |-> PageSize * CHOOSE g \in pages : Cardinality({ h \in pages : h <= g }) = i,
          size |-> PageSize]]

(* The requests of read_path(): metadata, data, then pages in order. *)
RequestsFor ==
  [p \in Path |-> OwnRequests("metadata", p) \o OwnRequests("data", p) \o PageRequests(p)]

(* data_non_block_access_start; the metadata's requests come first. *)
NonBlockAccessStart(kind) ==
  IF kind = "metadata" \/ UsesPages("metadata") THEN 0 ELSE Levels

(* get_metadata_pointer() and get_data_pointer(): a request and an offset.  *)
Pointer(kind, l) ==
  IF UsesPages(kind)
  THEN LET address == GetAddress(kind, path, l)
           i == CHOOSE i \in 1 .. Len(requests) :
                  /\ requests[i].address = (address \div PageSize) * PageSize
                  /\ i > Cardinality({ k \in Kind : ~UsesPages(k) }) * Levels  \* block_access_start
       IN  [request |-> i, offset |-> address % PageSize]
  ELSE [request |-> NonBlockAccessStart(kind) + l + 1, offset |-> 0]

Window(cells, from, size) == [i \in 0 .. size - 1 |-> cells[from + i]]

-----------------------------------------------------------------------------
Size == LayoutSize("data") + LayoutSize("metadata")

Init ==
  /\ memory = [a \in 0 .. Size - 1 |-> 0]
  /\ path = NoPath /\ requests = << >>

(* A memory throws if a request goes beyond its end. *)
ReadPath(p) ==
  LET wanted == RequestsFor[p]
  IN  /\ \A i \in 1 .. Len(wanted) : wanted[i].address + wanted[i].size <= Size
      /\ path' = p
      /\ requests' = [i \in 1 .. Len(wanted) |->
                        [address |-> wanted[i].address,
                         data |-> Window(memory, wanted[i].address, wanted[i].size)]]
      /\ UNCHANGED memory

Buffered(kind, l) == Window(requests[Pointer(kind, l).request].data, Pointer(kind, l).offset, BucketSize(kind))

Stored(kind, n) ==
  Window(memory, GetAddress(kind, n[2] * TwoToThe[Levels - 1 - n[1]], n[1]), BucketSize(kind))

FilledBuckets ==
  Cardinality({ x \in Kind \X Bucket : Stored(x[1], x[2])[0] # 0 })

Changes ==
  Cardinality({ x \in Kind \X Level : Buffered(x[1], x[2]) # Stored(x[1], BucketOn(path, x[2])) })

(* The ORAM writes a whole bucket through a pointer. *)
Fill(kind, l) ==
  LET at == Pointer(kind, l)
  IN  /\ path # NoPath /\ FilledBuckets < MaxFilled /\ Changes < MaxChanges
      /\ \E v \in {0, 1} :
           requests' = [requests EXCEPT ![at.request].data =
             [i \in DOMAIN @ |-> IF at.offset <= i /\ i < at.offset + BucketSize(kind)
                                 THEN v ELSE @[i]]]
      /\ UNCHANGED <<memory, path>>

(* Faulty variant: only the first request is turned into a WRITE. *)
FirstOnly == 1

WrittenRequests == Len(requests)

(* current_path.reset() *)
PathAfterWrite == NoPath

(* What is in the memory when the first n requests have been written.      *)
CellsAfter(n) ==
  LET cells[i \in 0 .. n] ==
        IF i = 0 THEN memory
        ELSE [a \in DOMAIN memory |->
                IF a - requests[i].address \in DOMAIN requests[i].data
                THEN requests[i].data[a - requests[i].address]
                ELSE cells[i - 1][a]]
  IN  cells[n]

(* write_path(): the requests become WRITEs, done in order. *)
WritePath ==
  /\ path # NoPath
  /\ memory' = CellsAfter(WrittenRequests)
  /\ path' = PathAfterWrite /\ requests' = << >>

Next ==
  \/ WritePath
  \/ \E p \in Path : ReadPath(p)
  \/ \E kind \in Kind, l \in Level : Fill(kind, l)

Spec == Init /\ [][Next]_vars

-----------------------------------------------------------------------------
(* No request of a path covers what another one covers: a kind read in     *)
(* pages and one that is not have no page in common, and no bucket read    *)
(* in pages crosses from one page to the next.                             *)
NoSharedPages ==
  /\ (UsesPages("data") <=> UsesPages("metadata")) \/ LayoutSize("data") % PageSize = 0
  /\ UsesPages("metadata") => LayoutSize("data") % MetadataBucketSize = 0

TypeOK ==
  /\ memory \in [0 .. Size - 1 -> {0, 1}]
  /\ path \in Path \cup {NoPath}
  /\ path = NoPath <=> requests = << >>
  /\ \A i \in 1 .. Len(requests) :
       \E n \in 1 .. Size : requests[i].data \in [0 .. n - 1 -> {0, 1}]

(* TwoLevelHeapLayout is there to read few pages: one for each of its      *)
(* levels of pages, of the data and of the metadata.                       *)
OnePageForEachLevelOfPages ==
  path # NoPath => Len(requests) = NumPageLevels("data") + NumPageLevels("metadata")

(* The controller keeps the buckets of a tree, as an ORAM expects: they do  *)
(* not overlap, the pointers lead to the buckets of the path, whichever    *)
(* request or page they came in, and writing them back changes no other.   *)
Tree ==
  INSTANCE TreeStore
    WITH buckets <- [k \in Kind |-> [n \in Bucket |-> Stored(k, n)]],
         buffer <- [k \in Kind |-> [l \in Level |->
           IF path = NoPath THEN [i \in 0 .. BucketSize(k) - 1 |-> 0]
           ELSE Buffered(k, l)]],
         Empty <- LAMBDA k : [i \in 0 .. BucketSize(k) - 1 |-> 0],
         Filled <- LAMBDA k, v : [i \in 0 .. BucketSize(k) - 1 |-> v]

ImplementsTreeStore == Tree!TreeSpec
=============================================================================
