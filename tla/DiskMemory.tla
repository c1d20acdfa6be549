----------------------------- MODULE DiskMemory -----------------------------
(***************************************************************************)
(* DiskMemory: a file read and written in whole blocks.  A batch reads     *)
(* every block its requests touch, writes back the blocks its WRITEs touch *)
(* and answers its READs from what was read first.  A cell is a byte.      *)
(***************************************************************************)
EXTENDS BatchOrder, RequestCoalescer

CONSTANTS
  Size,       \* of the memory when it is created
  BlockSize,  \* fs_block_size
  Value,
  MaxLength,  \* the longest request of the model
  MaxBatch    \* the longest batch of the model

Parameters ==
  /\ {Size, BlockSize} \subseteq Nat \ {0}
  /\ {MaxLength, MaxBatch} \subseteq Nat
  /\ 0 \in Value

VARIABLES
  size,      \* file_size: of the file as it was opened
  file,      \* writing the last block may make it longer
  batch,     \* the requests done last, until their caller has them back
  before     \* the file before them; history

vars == <<size, file, batch, before>>

WholeBlocks == BlockSize * ((Size + BlockSize - 1) \div BlockSize)

RequestsOf(a, s) ==
  [type : {"READ"}, address : {a}, size : {s}, data : {[i \in 0 .. s - 1 |-> 0]}]
  \cup [type : {"WRITE"}, address : {a}, size : {s}, data : [0 .. s - 1 -> Value]]

Requests(n) ==
  UNION {UNION {RequestsOf(a, s) : s \in {l \in 1 .. MaxLength : a + l <= n}} : a \in 0 .. n - 1}

TypeOK ==
  /\ size \in Size .. WholeBlocks
  /\ \E n \in size .. WholeBlocks : file \in [0 .. n - 1 -> Value]
  /\ \A i \in DOMAIN batch : DOMAIN batch[i].data = 0 .. batch[i].size - 1
  /\ DOMAIN before \subseteq DOMAIN file

Init ==
  /\ size = Size
  /\ file = [a \in 0 .. Size - 1 |-> 0]   \* fallocate(FALLOC_FL_ZERO_RANGE)
  /\ batch = << >> /\ before = file

-----------------------------------------------------------------------------
BlocksTouched(requests, type) ==
  UNION {BlocksOf(requests[i].address, requests[i].size, BlockSize) :
           i \in {j \in DOMAIN requests : requests[j].type = type}}

(* aio_offset *)
Offset(block) == BlockSize * block

(* A block read into its buffer; past the end of the file this stays zero. *)
BlockRead(block) ==
  [i \in 0 .. BlockSize - 1 |->
     IF Offset(block) + i \in DOMAIN file THEN file[Offset(block) + i] ELSE 0]

(* The part of a request that is in the block. *)
Part(r, block) == PartIn(block, r.address, r.size, BlockSize)

(* A block of a write buffer, with what a WRITE has for it. *)
BlockAfter(r, block, buffer) ==
  LET part == Part(r, block)
  IN  IF r.type = "WRITE" /\ block \in BlocksOf(r.address, r.size, BlockSize)
      THEN [i \in 0 .. BlockSize - 1 |->
              IF i \in part.blockOffset .. part.blockOffset + part.size - 1
              THEN r.data[part.requestOffset + i - part.blockOffset] ELSE buffer[i]]
      ELSE buffer

(* The WRITEs of a block are put in one after the other. *)
BlockMerged(requests, block) ==
  LET merged[n \in 0 .. Len(requests)] ==
        IF n = 0 THEN BlockRead(block) ELSE BlockAfter(requests[n], block, merged[n - 1])
  IN  merged[Len(requests)]

FileWritten(requests) ==
  LET blocks == BlocksTouched(requests, "WRITE")
      merged == [b \in blocks |-> BlockMerged(requests, b)]
      BytesOf(b) == Offset(b) .. Offset(b) + BlockSize - 1
  IN  [a \in DOMAIN file \cup UNION {BytesOf(b) : b \in blocks} |->
         IF \E b \in blocks : a \in BytesOf(b)
         THEN LET b == CHOOSE b \in blocks : a \in BytesOf(b) IN merged[b][a - Offset(b)]
         ELSE file[a]]

(* The data of a READ, each part from the buffer of its block. *)
DataOf(r) ==
  [i \in 0 .. r.size - 1 |->
     LET block == CHOOSE b \in BlocksOf(r.address, r.size, BlockSize) :
                    i - Part(r, b).requestOffset \in 0 .. Part(r, b).size - 1
         part == Part(r, block)
     IN  BlockRead(block)[part.blockOffset + i - part.requestOffset]]

(* Each lio_listio() waits for all its blocks, which are different ones.   *)
Batch(requests) ==
  /\ batch = << >>
  /\ before' = file
  /\ file' = FileWritten(requests)
  /\ batch' = [i \in DOMAIN requests |->
                 IF requests[i].type = "READ" THEN [requests[i] EXCEPT !.data = DataOf(requests[i])]
                                              ELSE requests[i]]
  /\ UNCHANGED size

Return == batch # << >> /\ batch' = << >> /\ before' = file /\ UNCHANGED <<size, file>>

(* The copy of the file is opened, at the size the file has now.           *)
SaveAndLoad ==
  /\ batch = << >>
  /\ size' = Cardinality(DOMAIN file)
  /\ UNCHANGED <<file, batch, before>>

Next ==
  \/ \E n \in 1 .. MaxBatch : \E requests \in [1 .. n -> Requests(size)] : Batch(requests)
  \/ Return
  \/ SaveAndLoad

Spec == Init /\ [][Next]_vars

-----------------------------------------------------------------------------
(* A batch reads and writes as if its requests were done in some order:    *)
(* a WRITE of part of a block leaves the rest of it, and two WRITEs that   *)
(* meet in a block, or a request over two blocks, lose nothing.            *)
BatchDoneInSomeOrder ==
  LET Bytes(f) == [a \in 0 .. size - 1 |-> f[a]]
  IN  InSomeOrder(Bytes(before), batch, Bytes(file), [i \in DOMAIN batch |-> batch[i].data])
=============================================================================
