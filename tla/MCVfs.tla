------------------------------- MODULE MCVfs -------------------------------
(***************************************************************************)
(* Vfs for TLC.                                                            *)
(***************************************************************************)
EXTENDS Vfs

Interchangeable == Permutations(Name) \cup Permutations(Fd)
=============================================================================
