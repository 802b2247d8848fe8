-------------------------------- MODULE Vfs --------------------------------
(***************************************************************************)
(* Files, names and open files of easy-fs (easy-fs/src/vfs.rs with the     *)
(* allocation of efs.rs and bitmap.rs, os/src/fs/inode.rs).                *)
(*                                                                         *)
(* The root directory is a vector of entries that never shrinks; unlink    *)
(* overwrites an entry with an empty one.  A file is a vector of data      *)
(* blocks, read and written a block at a time.  An open file is an inode   *)
(* number and an offset, which nothing ties to the names of the file.      *)
(***************************************************************************)
EXTENDS Integers, FiniteSets, SequencesExt

CONSTANTS
    Name,             \* file names
    Empty,            \* the name of an emptied entry
    Inodes,           \* inodes of the inode area; number 0 is the root
    DataBits,         \* bits of the data bitmap
    DataBlocks,       \* blocks of the device from the start of the data area on
    DirentsPerBlock,
    Fd,               \* open files, over all tasks
    Value, Zero,      \* contents of a data block
    MaxEntries,       \* bound: entries of the root directory
    MaxBlocks         \* bound: blocks of a file

ASSUME VfsAssumption ==
    /\ Inodes \in Nat \ {0} /\ DataBits \in Nat /\ DataBlocks \in Nat
    /\ DirentsPerBlock \in Nat \ {0}
    /\ MaxEntries \in Nat /\ MaxBlocks \in Nat
    /\ Empty \notin Name /\ Zero \notin Value

Ino == 0..(Inodes - 1)
Data == 0..(DataBlocks - 1)

VARIABLES
    dirents,       \* the entries of the root directory
    inode_bitmap,  \* inodes in use
    data_bitmap,   \* data blocks in use
    blocks,        \* blocks[i]: the data blocks of inode i, in order
    content,       \* what each data block holds
    fds,           \* the open files
    panic          \* the kernel has stopped for want of an inode or a block

vars == <<dirents, inode_bitmap, data_bitmap, blocks, content, fds, panic>>

Closed == [ino |-> 0, offset |-> 0]

\* A file system just made by EasyFileSystem::create.
Init ==
    /\ dirents = <<>>
    /\ inode_bitmap = {0} /\ data_bitmap = {}
    /\ blocks = [i \in Ino |-> <<>>]
    /\ content = [b \in Data |-> Zero]
    /\ fds = [f \in Fd |-> Closed]
    /\ panic = FALSE

-----------------------------------------------------------------------------

\* The position of the first entry with that name, as a set of at most one.
Entry(name) ==
    {j \in DOMAIN dirents :
        /\ dirents[j].name = name
        /\ \A k \in 1..(j - 1) : dirents[k].name # name}

\* find_inode_id.
Lookup(name) == {dirents[i].ino : i \in Entry(name)}

Nlink_skips_first_entry(ino) ==
    Cardinality({i \in DOMAIN dirents \ {1} : ino \in Lookup(dirents[i].name)})

\* get_nlink looks the name of every entry up again.
Nlink(ino) == Cardinality({i \in DOMAIN dirents : ino \in Lookup(dirents[i].name)})

\* The entries that name inode ino.
Links(ino) == {i \in DOMAIN dirents : dirents[i].name # Empty /\ dirents[i].ino = ino}

AllocBits_forgets_first(n, used, size) ==
    {S \in SUBSET (0..(size - 1)) :
        /\ Cardinality(S) = n
        /\ \A b \in S : b \notin used \ {0}
        /\ \A b \in S : \A c \in (0..(size - 1)) \ (used \ {0}) : c < b => c \in S}

\* Bitmap::alloc n times, marking each bit it finds: the n lowest clear bits; no set
\* at all if it fails.  Its bound is the number of bits, whole blocks of them
\* (Bitmap::maximum), and not the number of things the bits stand for.
AllocBits(n, used, size) ==
    {S \in SUBSET ((0..(size - 1)) \ used) :
        /\ Cardinality(S) = n
        /\ \A b \in S : \A c \in (0..(size - 1)) \ used : c < b => c \in S}

Ascending_reversed(S) ==
    {q \in [1..Cardinality(S) -> S] : \A j, k \in DOMAIN q : j < k => q[j] > q[k]}

\* The numbers of S as an increasing sequence, the only one.
Ascending(S) ==
    {q \in [1..Cardinality(S) -> S] : \A j, k \in DOMAIN q : j < k => q[j] < q[k]}

\* The blocks that inode i lacks to have n; a smaller n needs none.
Needed(i, n) == IF n > Len(blocks[i]) THEN n - Len(blocks[i]) ELSE 0

\* Inode::increase_size to n blocks, and the write to block n that every caller goes on
\* to: the blocks needed are taken from the bitmap in order and appended.  The bitmap
\* may have bits for blocks past the end of the device; reading one into the cache fails.
Grown(i, n) ==
    {g \in UNION {{[taken |-> S, list |-> blocks[i] \o q] : q \in Ascending(S)} :
                    S \in AllocBits(Needed(i, n), data_bitmap, DataBits)} :
        g.list[n] \in Data}

\* alloc_inode or alloc_data unwraps None, or read_block of the device fails: the
\* kernel stops.
Panics == panic' = TRUE /\ UNCHANGED <<dirents, inode_bitmap, data_bitmap, blocks, content, fds>>

Zeroed_not(S) == content

\* dealloc_data clears a block as it frees it.
Zeroed(S) == [b \in Data |-> IF b \in S THEN Zero ELSE content[b]]

\* Inode::clear on inode i.
Clear(i) ==
    LET old == ToSet(blocks[i]) IN
    /\ blocks' = [blocks EXCEPT ![i] = <<>>]
    /\ data_bitmap' = data_bitmap \ old
    /\ content' = Zeroed(old)

\* A new entry at the end of the root directory, which may need a block.
DirBlocks(n) == (n + DirentsPerBlock - 1) \div DirentsPerBlock

AppendEntry(name, ino) ==
    \E g \in Grown(0, DirBlocks(Len(dirents) + 1)) :
        /\ dirents' = Append(dirents, [name |-> name, ino |-> ino])
        /\ data_bitmap' = data_bitmap \cup g.taken
        /\ blocks' = [blocks EXCEPT ![0] = g.list]

CannotAppend == Grown(0, DirBlocks(Len(dirents) + 1)) = {}

Opens(f, i) == fds' = [fds EXCEPT ![f] = [ino |-> i, offset |-> 0]]

-----------------------------------------------------------------------------

\* open_file with CREATE on a name in use, or with TRUNC.
OpenTruncated(f, name) ==
    /\ ~panic /\ fds[f] = Closed
    /\ \E i \in Lookup(name) : Clear(i) /\ Opens(f, i)
    /\ UNCHANGED <<dirents, inode_bitmap, panic>>

\* open_file on a name in use, with neither flag.
OpenFile(f, name) ==
    /\ ~panic /\ fds[f] = Closed
    /\ \E i \in Lookup(name) : Opens(f, i)
    /\ UNCHANGED <<dirents, inode_bitmap, data_bitmap, blocks, content, panic>>

\* open_file with CREATE on a new name: Inode::create.
Create(f, name) ==
    LET new == AllocBits(1, inode_bitmap, Inodes) IN
    /\ ~panic /\ fds[f] = Closed
    /\ Lookup(name) = {} /\ Len(dirents) < MaxEntries
    /\ IF new = {} \/ CannotAppend THEN Panics
       ELSE \E i \in UNION new :
            /\ inode_bitmap' = inode_bitmap \cup {i}
            /\ AppendEntry(name, i)
            /\ Opens(f, i)
            /\ UNCHANGED <<content, panic>>

\* sys_linkat: link_file does not look whether the new name is in use.
Link(old, new) ==
    /\ ~panic /\ Len(dirents) < MaxEntries
    /\ \E i \in Lookup(old) :
        IF CannotAppend THEN Panics
        ELSE AppendEntry(new, i) /\ UNCHANGED <<inode_bitmap, content, fds, panic>>

Unlink_always_clears(name) ==
    /\ ~panic
    /\ UNCHANGED <<inode_bitmap, fds, panic>>
    /\ IF Entry(name) = {} THEN UNCHANGED <<dirents, data_bitmap, blocks, content>>
       ELSE \E i \in Entry(name) :
            /\ Clear(dirents[i].ino)
            /\ dirents' = [dirents EXCEPT ![i] = [name |-> Empty, ino |-> 0]]

Unlink_never_clears(name) ==
    /\ ~panic
    /\ UNCHANGED <<inode_bitmap, fds, panic, data_bitmap, blocks, content>>
    /\ IF Entry(name) = {} THEN UNCHANGED dirents
       ELSE \E i \in Entry(name) :
            dirents' = [dirents EXCEPT ![i] = [name |-> Empty, ino |-> 0]]

\* sys_unlinkat: the file is cleared when it has one link, open or not, and
\* the first entry with the name is emptied.  The inode is never freed.
Unlink(name) ==
    /\ ~panic
    /\ UNCHANGED <<inode_bitmap, fds, panic>>
    /\ IF Entry(name) = {} THEN UNCHANGED <<dirents, data_bitmap, blocks, content>>
       ELSE \E i \in Entry(name) :
            /\ IF Nlink(dirents[i].ino) = 1 THEN Clear(dirents[i].ino)
               ELSE UNCHANGED <<data_bitmap, blocks, content>>
            /\ dirents' = [dirents EXCEPT ![i] = [name |-> Empty, ino |-> 0]]

\* OSInode::read of one block.
Read(f) ==
    /\ ~panic /\ fds[f] # Closed
    /\ fds[f].offset < Len(blocks[fds[f].ino])
    /\ fds' = [fds EXCEPT ![f].offset = @ + 1]
    /\ UNCHANGED <<dirents, inode_bitmap, data_bitmap, blocks, content, panic>>

\* OSInode::write of one block.  The offset may lie beyond the end of a file
\* truncated since: the blocks between are allocated and not written.
Write(f, v) ==
    LET i == fds[f].ino
        k == fds[f].offset
    IN
    /\ ~panic /\ fds[f] # Closed /\ k < MaxBlocks
    /\ IF Grown(i, k + 1) = {} THEN Panics
       ELSE \E g \in Grown(i, k + 1) :
            /\ data_bitmap' = data_bitmap \cup g.taken
            /\ blocks' = [blocks EXCEPT ![i] = g.list]
            /\ content' = [content EXCEPT ![g.list[k + 1]] = v]
            /\ fds' = [fds EXCEPT ![f].offset = @ + 1]
            /\ UNCHANGED <<dirents, inode_bitmap, panic>>

\* sys_close, or the exit of the task.
Close(f) ==
    /\ ~panic /\ fds[f] # Closed
    /\ fds' = [fds EXCEPT ![f] = Closed]
    /\ UNCHANGED <<dirents, inode_bitmap, data_bitmap, blocks, content, panic>>

Halted == panic /\ UNCHANGED vars

Next ==
    \/ \E f \in Fd, n \in Name : OpenTruncated(f, n) \/ OpenFile(f, n) \/ Create(f, n)
    \/ \E m, n \in Name : Link(m, n)
    \/ \E n \in Name : Unlink(n)
    \/ \E f \in Fd : Read(f) \/ Close(f) \/ \E v \in Value : Write(f, v)
    \/ Halted

Spec == Init /\ [][Next]_vars

-----------------------------------------------------------------------------

\* Entries and files refer only to inodes and blocks that exist.  Bitmap::alloc may hand
\* out a block past the end of the device, but blocks are handed out lowest first and
\* the last one is written at once: a write that straddles the end stops the kernel
\* before any file keeps a block that is not there.
TypeOK ==
    /\ dirents \in Seq([name : Name \cup {Empty}, ino : Ino])
    /\ inode_bitmap \subseteq Ino /\ data_bitmap \subseteq Data
    /\ blocks \in [Ino -> Seq(Data)]
    /\ content \in [Data -> Value \cup {Zero}]
    /\ fds \in [Fd -> [ino : Ino, offset : Nat]]
    /\ panic \in BOOLEAN

\* The data bitmap is exactly the blocks of the inodes, none of them twice:
\* the assertion of Bitmap::dealloc holds, and no block is lost or shared.
BlocksOwnedOnce ==
    /\ data_bitmap = UNION {ToSet(blocks[i]) : i \in Ino}
    /\ \A i \in Ino : IsInjective(blocks[i])
    /\ \A i, j \in Ino : i # j => ToSet(blocks[i]) \cap ToSet(blocks[j]) = {}

\* A free data block is zero (dealloc_data), so the blocks that increase_size
\* adds without writing them read as zeros.
FreeBlocksZero == \A b \in Data \ data_bitmap : content[b] = Zero

\* Stat::nlink, computed by get_nlink, is the number of hard links of the file.
NlinkExact == \A i \in inode_bitmap \ {0} : Nlink(i) = Cardinality(Links(i))

\* No name is in use twice, which Create ensures and link does not.
DistinctNames ==
    \A i, j \in DOMAIN dirents :
        dirents[i].name = dirents[j].name /\ dirents[i].name # Empty => i = j

\* While no name is in use twice, get_nlink is exact, whatever entries were emptied
\* and whatever inodes their numbers once named.
NlinkExactIfDistinct == DistinctNames => NlinkExact

\* While no name is in use twice, the data of a file goes with its last name: the unlink
\* that takes it leaves the inode without a data block, open or not, since nothing can
\* find the inode again.  (With a name in use twice get_nlink may count too many, and
\* the data stays.)
LastNameTakesData ==
    [][\A i \in inode_bitmap \ {0} :
        DistinctNames /\ Links(i) # {} /\ Links(i)' = {} => blocks'[i] = <<>>]_vars

\* While no name is in use twice, unlink leaves the data of a file that keeps another
\* name as it is.  (With a name in use twice it may clear a file that keeps a name.)
DataOutlivesName ==
    [][\A n \in Name : DistinctNames /\ Unlink(n) =>
        \A i \in inode_bitmap \ {0} : Links(i)' # {} =>
            /\ blocks'[i] = blocks[i]
            /\ \A b \in ToSet(blocks[i]) : content'[b] = content[b]]_vars
=============================================================================
