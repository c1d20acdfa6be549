----------------------------- MODULE MCPathOram2 -----------------------------
(* A small instance of PathOram2 for TLC. *)
EXTENDS PathOram2, TLC

(* Blocks are interchangeable. *)
BlockSymmetry == Permutations(Block)
=============================================================================
