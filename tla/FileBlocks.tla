----------------------------- MODULE FileBlocks -----------------------------
(***************************************************************************)
(* What the disk inodes of easy-fs promise: each file is a list of data    *)
(* blocks that grows at its end and is emptied as a whole.  The blocks a   *)
(* file holds are those of its list and some for the index, and no two     *)
(* files hold the same block.  Vfs uses files in this form.                *)
(***************************************************************************)
EXTENDS Sequences, Functions

CONSTANT Inode

VARIABLES
    list,   \* list[i]: the data blocks of file i, in order
    held    \* held[i]: every block that file i has taken from the bitmap

vars == <<list, held>>

Init == list = [i \in Inode |-> <<>>] /\ held = [i \in Inode |-> {}]

Used == UNION {held[i] : i \in Inode}

\* File i takes blocks nobody holds; what it had stays where it was.
Grow(i) ==
    /\ Len(list[i]) <= Len(list'[i])
    /\ \A k \in DOMAIN list[i] : list'[i][k] = list[i][k]
    /\ held[i] \subseteq held'[i]
    /\ (held'[i] \ held[i]) \cap Used = {}
    /\ Range(list'[i]) \ Range(list[i]) \subseteq held'[i] \ held[i]
    /\ IsInjective(list'[i])
    /\ \A j \in Inode \ {i} : list'[j] = list[j] /\ held'[j] = held[j]

\* File i gives back all it holds.
Clear(i) ==
    /\ list' = [list EXCEPT ![i] = <<>>]
    /\ held' = [held EXCEPT ![i] = {}]

Next == \E i \in Inode : Grow(i) \/ Clear(i)

Spec == Init /\ [][Next]_vars
=============================================================================
