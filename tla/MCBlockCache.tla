---------------------------- MODULE MCBlockCache ----------------------------
(***************************************************************************)
(* BlockCache for TLC.                                                     *)
(***************************************************************************)
EXTENDS BlockCache

Interchangeable == Permutations(Block) \cup Permutations(Object)
=============================================================================
