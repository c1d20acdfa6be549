------------------------------ MODULE MCRawOram ------------------------------
(* Small instances of RawOram for TLC. *)
EXTENDS RawOram, TLC

(* Blocks are interchangeable, and are the payloads of fast_init. *)
BlockSymmetry == Permutations(Block)
=============================================================================
