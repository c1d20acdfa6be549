-------------------------- MODULE RequestCoalescer --------------------------
(***************************************************************************)
(* RequestCoalescer: the part of a request in each block it touches.       *)
(***************************************************************************)
EXTENDS Integers

BlocksOf(address, size, blockSize) ==
  IF size = 0 THEN {} ELSE address \div blockSize .. (address + size - 1) \div blockSize

(* BlockRequestEntry: where the part is in the block and in the request.   *)
PartIn(block, address, size, blockSize) ==
  LET blocks == BlocksOf(address, size, blockSize)
      first == \A b \in blocks : block <= b
      last == \A b \in blocks : b <= block
      inBlock == IF first THEN address - block * blockSize ELSE 0
      inRequest == IF first THEN 0 ELSE block * blockSize - address
  IN  [blockOffset |-> inBlock, requestOffset |-> inRequest,
       size |-> IF last THEN size - inRequest ELSE blockSize - inBlock]
=============================================================================
