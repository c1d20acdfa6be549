--------------------------- MODULE MemoryAdapters ---------------------------
(***************************************************************************)
(* BitfieldAdapter over MultiSplitMemory: bits packed in the blocks of a   *)
(* memory whose sections lie in two others by turns.  SplitMemory is the   *)
(* case of one split point.  The children, external here, do the requests  *)
(* of a batch one after the other; a cell is a bit.                        *)
(***************************************************************************)
EXTENDS BatchOrder, RequestCoalescer

CONSTANTS
  LowerSize, UpperSize,   \* of the two memories
  SplitPoints,            \* split_points, a sequence
  BlockSize,              \* block_size * 8
  MaxLength, MaxBatch     \* the longest request and batch of the model

TotalSize == LowerSize + UpperSize

(* generate_mapping(): a section goes from one split point to the next.     *)
Section == 1 .. Len(SplitPoints) + 1
From(i) == IF i = 1 THEN 0 ELSE SplitPoints[i - 1]
To(i) == IF i <= Len(SplitPoints) THEN SplitPoints[i] ELSE TotalSize
IsUpper(i) == i % 2 = 0

(* Faulty variant: every section is at the start of its memory. *)
AtStart(i) == 0

(* lower_offset, upper_offset: a section follows the last one of its memory. *)
ChildOffset(i) ==
  LET offset[j \in Section] == IF j <= 2 THEN 0 ELSE offset[j - 2] + (To(j - 2) - From(j - 2))
  IN  offset[i]

(* Sections end at whole blocks, and fit in the memories they lie in.       *)
Parameters ==
  /\ BlockSize \in Nat \ {0} /\ {MaxLength, MaxBatch, LowerSize, UpperSize} \subseteq Nat
  /\ SplitPoints \in Seq({a \in 0 .. TotalSize : a % BlockSize = 0})
  /\ TotalSize % BlockSize = 0
  /\ \A i \in Section :
       /\ From(i) <= To(i)
       /\ ChildOffset(i) + (To(i) - From(i)) <= IF IsUpper(i) THEN UpperSize ELSE LowerSize

VARIABLES
  lower, upper,  \* the two memories
  mapping,       \* the sections, as the constructor has made them
  batch,         \* the requests done last, until their caller has them back
  before         \* the bits before them; history

vars == <<lower, upper, mapping, batch, before>>

Bit == {0, 1}

RequestsOf(a, s) ==
  [type : {"READ"}, address : {a}, size : {s}, data : {[i \in 0 .. s - 1 |-> 0]}]
  \cup [type : {"WRITE"}, address : {a}, size : {s}, data : [0 .. s - 1 -> Bit]]

Requests ==
  UNION {UNION {RequestsOf(a, s) : s \in {l \in 1 .. MaxLength : a + l <= TotalSize}}
           : a \in 0 .. TotalSize - 1}

TypeOK ==
  /\ lower \in [0 .. LowerSize - 1 -> Bit]
  /\ upper \in [0 .. UpperSize - 1 -> Bit]
  /\ \A i \in DOMAIN batch : batch[i].data \in [0 .. batch[i].size - 1 -> Bit]
  /\ before \in [0 .. TotalSize - 1 -> Bit]

-----------------------------------------------------------------------------
(* Sections of size 0 come to nothing. *)
Mapping ==
  {[start |-> From(i), isUpper |-> IsUpper(i), offset |-> ChildOffset(i)]
     : i \in {j \in Section : From(j) < To(j)}}

(* mapping.lower_bound(address), in descending order of the starts.         *)
SectionOf(address) ==
  CHOOSE s \in mapping :
    /\ s.start <= address
    /\ \A t \in mapping : t.start <= address => t.start <= s.start

(* The cell of a child that an address is in. *)
Located(address) ==
  LET s == SectionOf(address)
  IN  [isUpper |-> s.isUpper, at |-> s.offset + (address - s.start)]

BitAt(address) ==
  LET place == Located(address) IN IF place.isUpper THEN upper[place.at] ELSE lower[place.at]

Bits == [a \in 0 .. TotalSize - 1 |-> BitAt(a)]

Init ==
  /\ lower = [a \in 0 .. LowerSize - 1 |-> 0] /\ upper = [a \in 0 .. UpperSize - 1 |-> 0]
  /\ mapping = Mapping
  /\ batch = << >> /\ before = [a \in 0 .. TotalSize - 1 |-> 0]

(* A child request is located by its first cell.                            *)
BlockFrom(block) ==
  LET place == Located(block * BlockSize)
      child == IF place.isUpper THEN upper ELSE lower
  IN  [i \in 0 .. BlockSize - 1 |-> child[place.at + i]]

(* The part of a request that is in the block. *)
Part(r, block) == PartIn(block, r.address, r.size, BlockSize)

BlockAfter(r, block, bits) ==
  LET part == Part(r, block)
  IN  IF r.type = "WRITE" /\ block \in BlocksOf(r.address, r.size, BlockSize)
      THEN [i \in 0 .. BlockSize - 1 |->
              IF i - part.blockOffset \in 0 .. part.size - 1
              THEN r.data[part.requestOffset + i - part.blockOffset] ELSE bits[i]]
      ELSE bits

(* The requests of a block are done on its bits in their order.             *)
BlockAfterFirst(requests, block, n) ==
  LET bits[k \in 0 .. Len(requests)] ==
        IF k = 0 THEN BlockFrom(block) ELSE BlockAfter(requests[k], block, bits[k - 1])
  IN  bits[n]

(* The data of a READ, each part as its block is when its turn comes.       *)
DataOf(requests, n) ==
  LET r == requests[n]
  IN  [i \in 0 .. r.size - 1 |->
         LET block == CHOOSE b \in BlocksOf(r.address, r.size, BlockSize) :
                        i - Part(r, b).requestOffset \in 0 .. Part(r, b).size - 1
             part == Part(r, block)
         IN  BlockAfterFirst(requests, block, n)[part.blockOffset + i - part.requestOffset]]

(* The blocks are written back, each to the memory its section lies in.     *)
WrittenBack(child, isUpper, blocks) ==
  LET mine == {b \in DOMAIN blocks : Located(b * BlockSize).isUpper = isUpper}
      at(b) == Located(b * BlockSize).at
  IN  [c \in DOMAIN child |->
         IF \E b \in mine : c - at(b) \in 0 .. BlockSize - 1
         THEN LET b == CHOOSE b \in mine : c - at(b) \in 0 .. BlockSize - 1 IN blocks[b][c - at(b)]
         ELSE child[c]]

(* The blocks that are written back, all that are touched or none.          *)
BlocksWritten(requests) ==
  IF \A i \in DOMAIN requests : requests[i].type = "READ" THEN << >>
  ELSE [b \in UNION {BlocksOf(requests[i].address, requests[i].size, BlockSize) : i \in DOMAIN requests}
          |-> BlockAfterFirst(requests, b, Len(requests))]

Batch(requests) ==
  /\ batch = << >>
  /\ before' = Bits
  /\ batch' = [i \in DOMAIN requests |->
                 IF requests[i].type = "READ"
                 THEN [requests[i] EXCEPT !.data = DataOf(requests, i)] ELSE requests[i]]
  /\ lower' = WrittenBack(lower, FALSE, BlocksWritten(requests))
  /\ upper' = WrittenBack(upper, TRUE, BlocksWritten(requests))
  /\ UNCHANGED mapping

Return == batch # << >> /\ batch' = << >> /\ before' = Bits /\ UNCHANGED <<lower, upper, mapping>>

Next ==
  \/ \E n \in 1 .. MaxBatch : \E requests \in [1 .. n -> Requests] : Batch(requests)
  \/ Return

Spec == Init /\ [][Next]_vars

-----------------------------------------------------------------------------
(* A batch of bit requests reads and writes the two memories as if its      *)
(* requests were done one after the other on the bits they stand for.       *)
BatchDoneInOrder ==
  LET done == InOrder(before, batch)
  IN  done.cells = Bits /\ done.data = [i \in DOMAIN batch |-> batch[i].data]
=============================================================================
