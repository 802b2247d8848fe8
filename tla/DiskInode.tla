----------------------------- MODULE DiskInode -----------------------------
(***************************************************************************)
(* The index of a file on disk (easy-fs/src/layout.rs) over the data       *)
(* bitmap: direct blocks, one indirect block, and one doubly indirect      *)
(* block.  Growing takes data and index blocks from one list in the order  *)
(* in which they are needed; clearing walks the same index to give them    *)
(* back.  Block ids start after the other areas, so 0 is no data block.    *)
(* What data blocks hold is not modelled.                                  *)
(***************************************************************************)
EXTENDS BlockPieces, Bitmap, Functions

CONSTANTS
    Inode,
    INODE_DIRECT_COUNT,
    INODE_INDIRECT1_COUNT, \* block ids in an indirect block
    AreaStart,             \* data_area_start_block
    Sizes                  \* bound: Sizes[i] are the sizes, in bytes, asked of file i

ASSUME DiskInodeAssumption ==
    /\ INODE_DIRECT_COUNT \in Nat
    /\ INODE_INDIRECT1_COUNT \in Nat \ {0}
    /\ AreaStart \in Nat \ {0} /\ Sizes \in [Inode -> SUBSET Nat]

INDIRECT1_BOUND == INODE_DIRECT_COUNT + INODE_INDIRECT1_COUNT
INODE_INDIRECT2_COUNT == INODE_INDIRECT1_COUNT * INODE_INDIRECT1_COUNT
Entries == 0..(INODE_INDIRECT1_COUNT - 1)
BlockIds == 0..(AreaStart + maximum - 1)

VARIABLES
    inode,    \* the disk inodes: size, direct, indirect1, indirect2
    index,    \* index[b]: block b read as an IndirectBlock
    bitmap,   \* the data bitmap
    panic     \* "no", or the assertion or unwrap that failed

vars == <<inode, index, bitmap, panic>>

EmptyIndex == [e \in Entries |-> 0]

\* DiskInode::initialize.
initialize ==
    [size |-> 0, direct |-> [k \in 0..(INODE_DIRECT_COUNT - 1) |-> 0],
     indirect1 |-> 0, indirect2 |-> 0]

Init ==
    /\ inode = [i \in Inode |-> initialize]
    /\ index = [b \in BlockIds |-> EmptyIndex]
    /\ bitmap = ClearBitmap
    /\ panic = "no"

-----------------------------------------------------------------------------

_data_blocks(size) == (size + BLOCK_SZ - 1) \div BLOCK_SZ

total_blocks_one_table(size) ==
    LET n == _data_blocks(size) IN
    n + (IF n > INODE_DIRECT_COUNT THEN 1 ELSE 0)
      + (IF n > INDIRECT1_BOUND THEN 2 ELSE 0)

\* Data blocks, the indirect block, the doubly indirect block and the indirect
\* blocks below it.
total_blocks(size) ==
    LET n == _data_blocks(size) IN
    n + (IF n > INODE_DIRECT_COUNT THEN 1 ELSE 0)
      + (IF n > INDIRECT1_BOUND
         THEN 1 + (n - INDIRECT1_BOUND + INODE_INDIRECT1_COUNT - 1)
                    \div INODE_INDIRECT1_COUNT
         ELSE 0)

blocks_num_needed(ino, new_size) == total_blocks(new_size) - total_blocks(ino.size)

get_block_id_transposed(ino, dev, k) ==
    LET last == k - INDIRECT1_BOUND IN
    CASE k < INODE_DIRECT_COUNT -> ino.direct[k]
      [] INODE_DIRECT_COUNT <= k /\ k < INDIRECT1_BOUND ->
            dev[ino.indirect1][k - INODE_DIRECT_COUNT]
      [] OTHER ->
            dev[dev[ino.indirect2][last % INODE_INDIRECT1_COUNT]]
               [last \div INODE_INDIRECT1_COUNT]

\* The id of data block k of the file, if the index blocks on the device are dev.
get_block_id(ino, dev, k) ==
    LET last == k - INDIRECT1_BOUND IN
    CASE k < INODE_DIRECT_COUNT -> ino.direct[k]
      [] INODE_DIRECT_COUNT <= k /\ k < INDIRECT1_BOUND ->
            dev[ino.indirect1][k - INODE_DIRECT_COUNT]
      [] OTHER ->
            dev[dev[ino.indirect2][last \div INODE_INDIRECT1_COUNT]]
               [last % INODE_INDIRECT1_COUNT]

\* alloc_data n times: the ids taken and the bitmap after; empty if the bitmap
\* has fewer clear bits (unwrap of None).  The device is taken to have a block for
\* every bit; Vfs has the case that it ends sooner.
AllocData[n \in Nat] ==
    IF n = 0 THEN {[ids |-> <<>>, bitmap |-> bitmap]}
    ELSE UNION {{[ids |-> Append(p.ids, a.bit + AreaStart), bitmap |-> a.bitmap] :
                    a \in alloc(p.bitmap)} : p \in AllocData[n - 1]}

\* One more data block, number k, in increase_size: st.used of the blocks new have
\* been taken so far.  A block for the index is taken when the first entry under it
\* is filled.
Fill(new, st, k) ==
    LET Nth(n) == IF n \in DOMAIN new THEN new[n] ELSE 0
        last == k - INDIRECT1_BOUND
        a == last \div INODE_INDIRECT1_COUNT
        b == last % INODE_INDIRECT1_COUNT
        u1 == IF k = INODE_DIRECT_COUNT THEN st.used + 1 ELSE st.used
        ind1 == IF k = INODE_DIRECT_COUNT THEN Nth(u1) ELSE st.ino.indirect1
        u2 == IF last = 0 THEN st.used + 1 ELSE st.used
        ind2 == IF last = 0 THEN Nth(u2) ELSE st.ino.indirect2
        u3 == IF b = 0 THEN u2 + 1 ELSE u2
        sub == IF b = 0 THEN Nth(u3) ELSE st.index[ind2][a]
    IN  CASE k < INODE_DIRECT_COUNT ->
                [ino |-> [st.ino EXCEPT !.direct[k] = Nth(st.used + 1)],
                 index |-> st.index, used |-> st.used + 1]
          [] INODE_DIRECT_COUNT <= k /\ k < INDIRECT1_BOUND ->
                [ino |-> [st.ino EXCEPT !.indirect1 = ind1],
                 index |-> [st.index EXCEPT ![ind1][k - INODE_DIRECT_COUNT] = Nth(u1 + 1)],
                 used |-> u1 + 1]
          [] OTHER ->
                [ino |-> [st.ino EXCEPT !.indirect2 = ind2],
                 index |-> [st.index EXCEPT ![ind2][a] = sub, ![sub][b] = Nth(u3 + 1)],
                 used |-> u3 + 1]

\* DiskInode::increase_size on disk inode ino with the blocks new: filled[k] is
\* reached when the file has k data blocks.
Increased(ino, new_size, new) ==
    LET filled[k \in Nat] ==
            IF k <= _data_blocks(ino.size)
            THEN [ino |-> [ino EXCEPT !.size = new_size], index |-> index, used |-> 0]
            ELSE Fill(new, filled[k - 1], k - 1)
    IN  filled[_data_blocks(new_size)]

\* The first m entries of index block b.
FirstEntries(b, m) == [j \in 1..m |-> index[b][j - 1]]

\* The blocks clear_size returns, in its order.
Released(ino) ==
    LET n == _data_blocks(ino.size)
        n1 == n - INODE_DIRECT_COUNT
        n2 == n1 - INODE_INDIRECT1_COUNT
        a1 == n2 \div INODE_INDIRECT1_COUNT
        b1 == n2 % INODE_INDIRECT1_COUNT
        Table(a, m) == <<index[ino.indirect2][a]>> \o FirstEntries(index[ino.indirect2][a], m)
        full[a \in Nat] ==
            IF a = 0 THEN <<>> ELSE full[a - 1] \o Table(a - 1, INODE_INDIRECT1_COUNT)
    IN  [k \in 1..min(n, INODE_DIRECT_COUNT) |-> ino.direct[k - 1]]
        \o (IF n1 > 0
            THEN <<ino.indirect1>>
                 \o FirstEntries(ino.indirect1, min(n1, INODE_INDIRECT1_COUNT))
            ELSE <<>>)
        \o (IF n2 > 0
            THEN <<ino.indirect2>>
                 \o full[a1]
                 \o (IF b1 > 0 THEN Table(a1, b1) ELSE <<>>)
            ELSE <<>>)

-----------------------------------------------------------------------------

Stops(why) == panic' = why /\ UNCHANGED <<inode, index, bitmap>>

\* Inode::increase_size, as write_at and the directory operations call it: a size
\* below the present one changes nothing.
increase_size(i, new_size) ==
    /\ panic = "no" /\ new_size >= inode[i].size
    /\ LET got == AllocData[blocks_num_needed(inode[i], new_size)] IN
       IF got = {} THEN Stops("bitmap full")
       ELSE IF _data_blocks(new_size) > INDIRECT1_BOUND + INODE_INDIRECT2_COUNT
       THEN Stops("index of an indirect block")
       ELSE \E g \in got :
            LET st == Increased(inode[i], new_size, g.ids) IN
            IF st.used > Len(g.ids) THEN Stops("no more new blocks")
            ELSE /\ inode' = [inode EXCEPT ![i] = st.ino]
                 /\ index' = st.index
                 /\ bitmap' = g.bitmap
                 /\ panic' = "no"

\* Inode::clear: clear_size, then dealloc_data on each block, which zeroes it.
clear(i) ==
    LET v == Released(inode[i])
        n == _data_blocks(inode[i].size)
        freed[m \in Nat] == IF m = 0 THEN bitmap ELSE dealloc(freed[m - 1], v[m] - AreaStart)
    IN
    /\ panic = "no"
    /\ IF n > INDIRECT1_BOUND + INODE_INDIRECT2_COUNT THEN Stops("size of the file")
       ELSE IF Len(v) # total_blocks(inode[i].size) THEN Stops("blocks to deallocate")
       ELSE IF \/ ~IsInjective(v)
               \/ \E b \in Range(v) : b < AreaStart \/ ~IsSet(bitmap, b - AreaStart)
       THEN Stops("dealloc of a free block")
       ELSE /\ inode' = [inode EXCEPT ![i] =
                  [size |-> 0,
                   direct |-> [k \in DOMAIN @.direct |-> IF k < n THEN 0 ELSE @.direct[k]],
                   indirect1 |-> IF n > INODE_DIRECT_COUNT THEN 0 ELSE @.indirect1,
                   indirect2 |-> IF n > INDIRECT1_BOUND THEN 0 ELSE @.indirect2]]
            /\ index' = [b \in BlockIds |-> IF b \in Range(v) THEN EmptyIndex ELSE index[b]]
            /\ bitmap' = freed[Len(v)]
            /\ panic' = "no"

Halted == panic # "no" /\ UNCHANGED vars

Next ==
    \/ \E i \in Inode : clear(i) \/ \E n \in Sizes[i] : increase_size(i, n)
    \/ Halted

Spec == Init /\ [][Next]_vars

-----------------------------------------------------------------------------

\* Where the bytes from start to end of file i are: block and position in it.
Places(i, start, end) ==
    LET Expand(p) == [n \in 1..p.len |->
                        <<get_block_id(inode[i], index, p.block), p.offset + n - 1>>]
        ps == Pieces(start, end)
        visited[n \in 0..Len(ps)] == IF n = 0 THEN <<>> ELSE visited[n - 1] \o Expand(ps[n])
    IN  visited[Len(ps)]

\* The data blocks of file i, and the blocks of its index.
List(i) == [k \in 1.._data_blocks(inode[i].size) |-> get_block_id(inode[i], index, k - 1)]
Index(i) ==
    LET n == _data_blocks(inode[i].size)
        tables == (n - INDIRECT1_BOUND + INODE_INDIRECT1_COUNT - 1) \div INODE_INDIRECT1_COUNT
    IN  (IF n > INODE_DIRECT_COUNT THEN {inode[i].indirect1} ELSE {})
        \cup (IF n > INDIRECT1_BOUND
              THEN {inode[i].indirect2} \cup {index[inode[i].indirect2][a] : a \in 0..(tables - 1)}
              ELSE {})
Held(i) == Range(List(i)) \cup Index(i)

\* The kernel stops in these operations only because the bitmap is full or the file
\* has more blocks than its index can name: increase_size is given as many blocks as
\* it takes, clear_size returns as many as total_blocks says, none of them free.
StopsOnlyAtLimits == panic \in {"no", "bitmap full", "index of an indirect block"}

\* The bitmap is exactly what the files hold, data and index, none of it held by two.
\* clear_size would return each block that a file holds, once, and as many as
\* total_blocks says: nothing is lost at a boundary between the direct, indirect and
\* doubly indirect ranges, however a file reached its size.
HeldExactly ==
    /\ Ones(bitmap) = {b - AreaStart : b \in UNION {Held(i) : i \in Inode}}
    /\ \A i \in Inode :
        LET v == Released(inode[i]) IN
        IsInjective(v) /\ Range(v) = Held(i) /\ Len(v) = total_blocks(inode[i].size)
    /\ \A i, j \in Inode : i # j => Held(i) \cap Held(j) = {}

\* Bitmap::alloc, which looks for a word and then for a bit, always takes the lowest
\* clear bit, and dealloc's decomposition finds the bit that alloc numbered.
BitmapInOrder == AllocatesLowest(bitmap)

\* read_at and write_at visit every byte of the range once and in order, cut at the end
\* of the file, and two bytes of a file never have the same place on disk.
EachByteItsPlace ==
    \A i \in Inode :
        LET all == Places(i, 0, inode[i].size) IN
        /\ IsInjective(all) /\ Len(all) = inode[i].size
        /\ \A start, end \in 0..inode[i].size :
            Places(i, start, end) = SubSeq(all, start + 1, end)

F == INSTANCE FileBlocks WITH list <- [i \in Inode |-> List(i)],
                              held <- [i \in Inode |-> Held(i)]

\* increase_size appends to the list of a file's blocks blocks that no file held,
\* moving none of the others, and clear empties it: a file is the list of blocks
\* that Vfs makes of it.
ActsAsBlockList == F!Spec
=============================================================================
