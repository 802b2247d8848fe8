--------------------------- MODULE MCTaskManager ---------------------------
(***************************************************************************)
(* TaskManager for TLC.  The strides wrap at a small modulus, so that the  *)
(* state space is finite and the wrap-around itself is explored.           *)
(***************************************************************************)
EXTENDS TaskManager

Interchangeable == Permutations(Task \ {First})
=============================================================================
