------------------------------ MODULE MCFileIO ------------------------------
(***************************************************************************)
(* FileIO for TLC.                                                         *)
(***************************************************************************)
EXTENDS FileIO, TLC

CONSTANTS x, y

MCPayload == {<<>>, <<x>>, <<x, y, y>>}

\* One-byte and two-byte characters.
MCText == {<<1>>, <<1, 2>>}

Interchangeable == Permutations(Object)
=============================================================================
