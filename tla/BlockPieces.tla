---------------------------- MODULE BlockPieces ----------------------------
(***************************************************************************)
(* How a range of bytes of a file is cut into pieces that lie in one block *)
(* (easy-fs/src/layout.rs).                                                *)
(***************************************************************************)
EXTENDS Integers, Sequences

CONSTANT BLOCK_SZ    \* bytes in a block

ASSUME BlockAssumption == BLOCK_SZ \in Nat \ {0}

\* usize::min
min(a, b) == IF a <= b THEN a ELSE b

Pieces_from_zero(start, end) ==
    LET from[at \in Nat \X Nat] ==
            LET s == at[1]
                start_block == at[2]
                e == min((s \div BLOCK_SZ + 1) * BLOCK_SZ, end)
                p == [block |-> start_block, offset |-> 0, len |-> e - s]
            IN  <<p>> \o (IF e = end THEN <<>> ELSE from[<<e, start_block + 1>>])
    IN  IF start >= end THEN <<>> ELSE from[<<start, start \div BLOCK_SZ>>]

\* The pieces, each within a block, in which DiskInode::read_at and write_at go
\* through the bytes from start to end.  (write_at makes a piece of no bytes when
\* the range is empty.)
Pieces(start, end) ==
    LET from[at \in Nat \X Nat] ==
            LET s == at[1]
                start_block == at[2]
                e == min((s \div BLOCK_SZ + 1) * BLOCK_SZ, end)
                p == [block |-> start_block, offset |-> s % BLOCK_SZ, len |-> e - s]
            IN  <<p>> \o (IF e = end THEN <<>> ELSE from[<<e, start_block + 1>>])
    IN  IF start >= end THEN <<>> ELSE from[<<start, start \div BLOCK_SZ>>]
=============================================================================
