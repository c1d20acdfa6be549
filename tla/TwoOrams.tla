------------------------------ MODULE TwoOrams ------------------------------
(***************************************************************************)
(* What the buffers over two ORAMs share: both are used through            *)
(* LLPathOramInterface.  A block is found on the path it was placed on; on  *)
(* another it may be found, in the stash or in a shared bucket.  The        *)
(* memory's position map has a bit more than its paths need: it says        *)
(* whether the entry's path is one of the buffer's.                        *)
(***************************************************************************)
EXTENDS SimLoop, Sequences

CONSTANTS
  NumMemoryPaths, \* ll_memory->num_paths()
  NumBufferPaths, \* ll_buffer->num_paths()
  BitsPerByte,    \* 8
  ByteValues,     \* 256: the gradient byte wraps at this value
  CounterValues,  \* 65536: the counter wraps at this value
  Absent          \* the content of an ORAM for an entry it does not hold

NumBits(n) == IF n = 0 THEN 0 ELSE CHOOSE k \in 1 .. n : 2 ^ (k - 1) <= n /\ n < 2 ^ k

(* Faulty variant: the buffer's paths are not thought of. *)
MaskOfMemory == 2 ^ NumBits(NumMemoryPaths - 1)

InBufferMask ==
  2 ^ NumBits((IF NumMemoryPaths > NumBufferPaths THEN NumMemoryPaths ELSE NumBufferPaths) - 1)

(* Bytes of an index with one bit more than the paths need. *)
PathIndexSize(paths) == (NumBits(paths - 1) + BitsPerByte) \div BitsPerByte

MemoryPath == 0 .. NumMemoryPaths - 1
BufferPath == 0 .. NumBufferPaths - 1

(* What the position map stores: path_index_size bytes. *)
Index == 0 .. 2 ^ (BitsPerByte * PathIndexSize(NumMemoryPaths)) - 1

Bytes == [data : Entry, gradient : 0 .. ByteValues - 1, counter : 0 .. CounterValues - 1]

MemoryBlock == [path : MemoryPath, data : Entry]
BufferBlock == [path : BufferPath, bytes : Bytes]

OramsParameters ==
  /\ LoopParameters
  /\ {NumMemoryPaths, NumBufferPaths, BitsPerByte} \subseteq Nat \ {0}
  /\ {ByteValues, CounterValues} \subseteq Nat \ {0} /\ CounterValues % ByteValues = 0
  /\ Absent \notin MemoryBlock \cup BufferBlock
  /\ PathIndexSize(NumBufferPaths) <= PathIndexSize(NumMemoryPaths) \* the constructors throw

VARIABLES
  main,     \* ll_memory: entry e holds e
  buffer    \* ll_buffer

OramsTypeOK ==
  /\ main \in [Entry -> MemoryBlock \cup {Absent}]
  /\ buffer \in [Entry -> BufferBlock \cup {Absent}]

HasMask(index) == (index \div InBufferMask) % 2 = 1

WithMask(path) == IF HasMask(path) THEN path ELSE path + InBufferMask

WithoutMask(index) == IF HasMask(index) THEN index - InBufferMask ELSE index

(* read_and_update_position_map() stores path_index_size bytes. *)
Stored(index) == index % 2 ^ (BitsPerByte * PathIndexSize(NumMemoryPaths))

(* What find_and_remove_block_from_path may answer for e on a path. *)
Answers(oram, e, path) ==
  CASE oram[e] = Absent -> {FALSE}
    [] oram[e] # Absent /\ oram[e].path = path -> {TRUE}
    [] OTHER -> BOOLEAN

Without(oram, e, found) == IF found THEN [oram EXCEPT ![e] = Absent] ELSE oram

(* The n-th of a set of places. *)
Nth(places, n) == CHOOSE p \in places : Cardinality({ q \in places : q <= p }) = n

(* union_linear_scanning(): the ids in the order in which they first occur. *)
FirstPlaces(ids) == { p \in 1 .. Len(ids) : \A q \in 1 .. p - 1 : ids[q] # ids[p] }

Union(ids) ==
  [n \in 1 .. Cardinality(FirstPlaces(ids)) |-> ids[Nth(FirstPlaces(ids), n)]]

(* "Aggregation": 1 is added to the first byte of the gradient and to the counter. *)
Aggregated(bytes) ==
  [bytes EXCEPT !.gradient = (@ + 1) % ByteValues, !.counter = (@ + 1) % CounterValues]

(* Faulty variant: the byte is compared with the whole counter. *)
ValidUnmasked(bytes) == bytes.gradient = bytes.counter

(* The check of a block that is about to leave the buffer. *)
Valid(bytes) == bytes.gradient = bytes.counter % ByteValues

-----------------------------------------------------------------------------
(* The buffers do what recsys_sim needs, see TrainingRounds: no search      *)
(* fails, and the counter of an entry is the number of its gradients.       *)
Rounds == INSTANCE TrainingRounds
  WITH held <- { e \in Entry : buffer[e] # Absent },
       sums <- [e \in Entry |-> IF buffer[e] = Absent THEN 0 ELSE buffer[e].bytes.counter]

ImplementsRounds == Rounds!Spec
=============================================================================
