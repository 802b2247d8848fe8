---------------------------- MODULE MCMemorySet ----------------------------
(***************************************************************************)
(* MemorySet for TLC.                                                      *)
(***************************************************************************)
EXTENDS MemorySet, FiniteSetsExt, TLC

\* More than there are pages and table pages.
Slots == 2 * NPages

\* Two frames for every page and table page a program uses.
Frames ==
    LET used == {0, 2, 3, 4, 6} \cup Path({0, 2, 4, 6})
    IN used \cup {Slots + x : x \in used}

Lowest(I, F, Class(_)) ==
    LET own(x) == {h \in F : Class(h) = Class(x)} IN
    IF \E x \in I : own(x) = {} THEN {} ELSE {[x \in I |-> Min(own(x))]}

\* A page gets the lowest free frame among those equal to its number modulo
\* Slots: two spaces keep handing each other the same frames, and the runs need
\* not explore every renaming of the frames.
Own(x) == x % Slots
OwnFrame(I, F) == Lowest(I, F, Own)

\* The same, but page 3 and the table page for page 4 share two frames: a frame
\* changes from one use to the other.
TablePage == CHOOSE n \in Path({4}) : n \notin Path({2, 6})
Shared(x) == IF Own(x) = TablePage THEN 3 ELSE Own(x)
SharedFrame(I, F) == Lowest(I, F, Shared)
FewerFrames == {h \in Frames : Own(h) # TablePage}

\* A page that needs a new table page, and a range that takes in the stack.
Asked == {<<4, 5>>, <<2, 4>>}

\* Besides these, an empty range, a range that can meet a mapped page half way,
\* and one that holds the trap context.
AskedWildly == {<<4, 4>>, <<4, 5>>, <<2, 5>>, <<6, 7>>}

Interchangeable == Permutations(Space)
=============================================================================
