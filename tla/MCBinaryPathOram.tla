-------------------------- MODULE MCBinaryPathOram --------------------------
(* A small instance of BinaryPathOram for TLC. *)
EXTENDS BinaryPathOram, TLC

(* Blocks are interchangeable. *)
BlockSymmetry == Permutations(Block)
=============================================================================
