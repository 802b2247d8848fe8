------------------------------- MODULE FileIO -------------------------------
(***************************************************************************)
(* The file calls of the kernel from the descriptor to the block:          *)
(* fd_table and alloc_fd (os/src/task/task.rs), sys_open, sys_close,       *)
(* sys_read, sys_write and sys_fstat (os/src/syscall/fs.rs), the slices of *)
(* user buffers (os/src/mm/page_table.rs), OSInode and the standard        *)
(* streams (os/src/fs), and files as blocks of bytes (easy-fs).            *)
(*                                                                         *)
(* Tables hold references to open files: fork copies the references, so    *)
(* parent and child share offsets.  A zombie keeps its table until it is   *)
(* reaped.  A call whose arguments the kernel unwraps in vain stops it     *)
(* (refuse); what the other calls do is stated of buffers in mapped pages. *)
(* The flags readable and writable of an open file are left out, as no     *)
(* call looks at them.                                                     *)
(***************************************************************************)
EXTENDS UserBuffer, BlockPieces

CONSTANTS
    Task, Initial,     \* process blocks; the one that runs first
    File,
    Object,            \* OSInode objects
    Stdin, Stdout, None,
    Byte, Zero,
    Text,              \* texts programs print: the lengths, in bytes, of their characters
    StructSize,        \* bytes of a structure the kernel returns
    Payload,           \* bound: what programs write to files
    Closed,            \* bound: descriptors that programs close, from 1
    MaxLen,            \* bound: bytes of a buffer
    MaxSize,           \* bound: bytes of a file
    MaxFds             \* bound: length of a table

ASSUME FileIOAssumption ==
    /\ Initial \in Task /\ Zero \notin Byte /\ Stdin # Stdout
    /\ None \notin File \cup Object \cup {Stdin, Stdout} /\ {Stdin, Stdout} \cap Object = {}
    /\ Payload \subseteq UNION {[1..n -> Byte] : n \in 0..MaxLen} /\ Closed \subseteq 1..MaxFds
    /\ StructSize \in 1..PAGE_SIZE /\ {MaxLen, MaxSize, MaxFds} \subseteq Nat

VARIABLES
    task,    \* "none", "live" or "zombie"
    table,   \* table[t]: fd_table, descriptor k at k + 1
    objs,    \* the OSInode objects: file and offset
    files,   \* files[f]: its size and its blocks
    panic    \* "no", or the failed assertion or unwrap

vars == <<task, table, objs, files, panic>>

\* The table of TaskControlBlock::new and spawn.
fresh_table == <<Stdin, Stdout, Stdout>>
Unused == [file |-> None, offset |-> 0]
ZeroBlock == [k \in 0..(BLOCK_SZ - 1) |-> Zero]
EmptyFile == [size |-> 0, data |-> <<>>]

Init ==
    /\ task = [t \in Task |-> IF t = Initial THEN "live" ELSE "none"]
    /\ table = [t \in Task |-> IF t = Initial THEN fresh_table ELSE <<>>]
    /\ objs = [o \in Object |-> Unused]
    /\ files = [f \in File |-> EmptyFile]
    /\ panic = "no"

-----------------------------------------------------------------------------

\* The objects that some table refers to.
Referenced(tables) == Object \cap UNION {Range(tables[t]) : t \in Task}

\* The alignments of a buffer in its first page, and the slices of such buffers.
Ptr == 0..(PAGE_SIZE - 1)
Slices == [ptr \in Ptr |->
             [len \in 0..Max({MaxLen, StructSize}) |-> translated_byte_buffer(ptr, len)]]

\* The tables change; an object whose last reference goes is dropped.
SetTables(tables) ==
    /\ table' = tables
    /\ objs' = [o \in Object |-> IF o \in Referenced(tables) THEN objs[o] ELSE Unused]

alloc_fd_push(tab) == Len(tab) + 1

\* alloc_fd: the first descriptor that is None, or one more.
alloc_fd(tab) ==
    IF \E k \in DOMAIN tab : tab[k] = None
    THEN CHOOSE k \in DOMAIN tab : tab[k] = None /\ \A j \in 1..(k - 1) : tab[j] # None
    ELSE Len(tab) + 1

\* DiskInode::read_at: the bytes it copies, block by block.
read_at(f, offset, len) ==
    LET ps == Pieces(offset, Min({offset + len, files[f].size}))
        Copied(p) == [k \in 1..p.len |-> files[f].data[p.block + 1][p.offset + k - 1]]
        buf[n \in 0..Len(ps)] == IF n = 0 THEN <<>> ELSE buf[n - 1] \o Copied(ps[n])
    IN  buf[Len(ps)]

write_at_old_size(file, offset, bs) ==
    LET size == Max({file.size, offset + Len(bs)})
        nblocks == (size + BLOCK_SZ - 1) \div BLOCK_SZ
        ps == Pieces(offset, Min({offset + Len(bs), file.size}))
        grown == [n \in 1..nblocks |-> IF n <= Len(file.data) THEN file.data[n] ELSE ZeroBlock]
        Copy(to, p) ==
            [data |-> [to.data EXCEPT ![p.block + 1] = [k \in DOMAIN @ |->
                         IF k \in p.offset..(p.offset + p.len - 1)
                         THEN bs[to.written + k - p.offset + 1] ELSE @[k]]],
             written |-> to.written + p.len]
        st[n \in 0..Len(ps)] ==
            IF n = 0 THEN [data |-> grown, written |-> 0] ELSE Copy(st[n - 1], ps[n])
    IN  [file |-> [size |-> size, data |-> st[Len(ps)].data], written |-> st[Len(ps)].written]

\* Inode::write_at on a file: the file grows to hold the bytes, with zero blocks (a
\* free block is zero, see Vfs), and the bytes are copied block by block.  written is
\* the number of bytes it returns.
write_at(file, offset, bs) ==
    LET size == Max({file.size, offset + Len(bs)})
        nblocks == (size + BLOCK_SZ - 1) \div BLOCK_SZ
        ps == Pieces(offset, Min({offset + Len(bs), size}))
        grown == [n \in 1..nblocks |-> IF n <= Len(file.data) THEN file.data[n] ELSE ZeroBlock]
        Copy(to, p) ==
            [data |-> [to.data EXCEPT ![p.block + 1] = [k \in DOMAIN @ |->
                         IF k \in p.offset..(p.offset + p.len - 1)
                         THEN bs[to.written + k - p.offset + 1] ELSE @[k]]],
             written |-> to.written + p.len]
        st[n \in 0..Len(ps)] ==
            IF n = 0 THEN [data |-> grown, written |-> 0] ELSE Copy(st[n - 1], ps[n])
    IN  [file |-> [size |-> size, data |-> st[Len(ps)].data], written |-> st[Len(ps)].written]

\* OSInode::read: slice by slice, until one gets nothing.  out has the addresses
\* written and the bytes that go there.
OSInode_read(o, slices) ==
    LET Step(at, s) ==
            LET got == read_at(objs[o].file, at.offset, SliceLen(s))
            IN  IF at.end \/ got = <<>> THEN [offset |-> at.offset, out |-> at.out, end |-> TRUE]
                ELSE [offset |-> at.offset + Len(got),
                      out |-> at.out \o Placed(s, got), end |-> FALSE]
        st[n \in 0..Len(slices)] ==
            IF n = 0 THEN [offset |-> objs[o].offset, out |-> <<>>, end |-> FALSE]
            ELSE Step(st[n - 1], slices[n])
    IN  st[Len(slices)]

OSInode_write_same_slice(o, slices, bs) ==
    LET Step(at, s) ==
            LET part == SubSeq(bs, 1, SliceLen(s))
                w == write_at(at.file, at.offset, part)
            IN  [file |-> w.file, offset |-> at.offset + w.written,
                 done |-> at.done + SliceLen(s), ok |-> at.ok /\ w.written = SliceLen(s)]
        st[n \in 0..Len(slices)] ==
            IF n = 0 THEN [file |-> files[objs[o].file], offset |-> objs[o].offset,
                           done |-> 0, ok |-> TRUE]
            ELSE Step(st[n - 1], slices[n])
    IN  st[Len(slices)]

\* OSInode::write: slice by slice from the bytes bs of the buffer; ok says that the
\* assertion on the size written has held.
OSInode_write(o, slices, bs) ==
    LET Step(at, s) ==
            LET part == SubSeq(bs, at.done + 1, at.done + SliceLen(s))
                w == write_at(at.file, at.offset, part)
            IN  [file |-> w.file, offset |-> at.offset + w.written,
                 done |-> at.done + SliceLen(s), ok |-> at.ok /\ w.written = SliceLen(s)]
        st[n \in 0..Len(slices)] ==
            IF n = 0 THEN [file |-> files[objs[o].file], offset |-> objs[o].offset,
                           done |-> 0, ok |-> TRUE]
            ELSE Step(st[n - 1], slices[n])
    IN  st[Len(slices)]

\* The kernel panics and shuts the machine down.  What the call had put on the disk
\* by then is not followed: no task is left to read it.
Stops(why) ==
    /\ panic' = why
    /\ task' = [t \in Task |-> "none"] /\ table' = [t \in Task |-> <<>>]
    /\ objs' = [o \in Object |-> Unused]
    /\ UNCHANGED files

-----------------------------------------------------------------------------

\* A task that is live makes a call on descriptor k of its table.
Calls(t, k) == panic = "no" /\ task[t] = "live" /\ k \in DOMAIN table[t] /\ table[t][k] # None

\* sys_open of a file that exists or is created; clear with CREATE or TRUNC.
sys_open(t, f, clear) ==
    LET k == alloc_fd(table[t]) IN
    /\ panic = "no" /\ task[t] = "live" /\ k <= MaxFds
    /\ \E o \in Object \ Referenced(table) :
        /\ table' = [table EXCEPT ![t] = [j \in 1..Max({Len(@), k}) |-> IF j = k THEN o ELSE @[j]]]
        /\ objs' = [objs EXCEPT ![o] = [file |-> f, offset |-> 0]]
    /\ files' = IF clear THEN [files EXCEPT ![f] = EmptyFile] ELSE files
    /\ UNCHANGED <<task, panic>>

sys_close_frees(t, k) ==
    /\ Calls(t, k)
    /\ table' = [table EXCEPT ![t][k] = None]
    /\ objs' = [o \in Object |-> IF o = table[t][k] THEN Unused ELSE objs[o]]
    /\ UNCHANGED <<task, files, panic>>

\* sys_close drops one reference.
sys_close(t, k) ==
    /\ Calls(t, k)
    /\ SetTables([table EXCEPT ![t][k] = None])
    /\ UNCHANGED <<task, files, panic>>

\* sys_read.  Stdin takes one character; that it may suspend is in Process.
sys_read(t, k, ptr, len) ==
    LET file == table[t][k]
        slices == Slices[ptr][len]
    IN
    /\ Calls(t, k)
    /\ CASE file = Stdin /\ BufferLen(slices) # 1 -> Stops("read of other than one character")
         [] file = Stdin /\ BufferLen(slices) = 1 -> UNCHANGED vars
         [] file = Stdout -> Stops("read from stdout")
         [] OTHER -> /\ objs' = [objs EXCEPT ![file].offset = OSInode_read(file, slices).offset]
                     /\ UNCHANGED <<task, table, files, panic>>

\* sys_write of the bytes bs to a file.
sys_write(t, k, ptr, bs) ==
    LET file == table[t][k]
        slices == Slices[ptr][Len(bs)]
        st == OSInode_write(file, slices, bs)
    IN
    /\ Calls(t, k) /\ file \in Object /\ objs[file].offset + Len(bs) <= MaxSize
    /\ IF ~st.ok THEN Stops("size written")
       ELSE /\ files' = [files EXCEPT ![objs[file].file] = st.file]
            /\ objs' = [objs EXCEPT ![file].offset = st.offset]
            /\ UNCHANGED <<task, table, panic>>

\* The ends of the slices of a buffer, as numbers of bytes from its start.
Cuts(slices) == {BufferLen(SubSeq(slices, 1, n)) : n \in DOMAIN slices}

\* sys_write of a text to a standard stream: each slice must be text by itself.
sys_write_text(t, k, ptr, text) ==
    LET Upto(n) == MapThenSumSet(LAMBDA m : text[m], 1..n)
        slices == translated_byte_buffer(ptr, Upto(Len(text)))
        ends == {Upto(n) : n \in 0..Len(text)}
    IN
    /\ Calls(t, k) /\ table[t][k] \in {Stdin, Stdout}
    /\ IF table[t][k] = Stdin THEN Stops("write to stdin")
       ELSE IF ~(Cuts(slices) \subseteq ends) THEN Stops("from_utf8 of a cut character")
       ELSE UNCHANGED vars

\* A structure goes out to ptr: the whole of it is copied into each slice.
CopyOut(ptr) ==
    LET slices == Slices[ptr][StructSize] IN
    IF \E n \in DOMAIN slices : SliceLen(slices[n]) # StructSize
    THEN Stops("copy_from_slice of another length")
    ELSE UNCHANGED vars

sys_fstat(t, k, ptr) == Calls(t, k) /\ CopyOut(ptr)

\* sys_get_time, and sys_task_info, which differs in what the structure holds.
sys_get_time(t, ptr) == panic = "no" /\ task[t] = "live" /\ CopyOut(ptr)

\* What else stops the kernel in a file call: a buffer or a name in a page that is not
\* mapped (translate), open flags that are not defined (from_bits), a name longer than
\* an entry holds (DirEntry::new), bytes on stdout that are no text (from_utf8), and a
\* disk without an inode or a block left (see Vfs).
Unwrapped == {"unmapped page", "unknown flags", "long name", "ill-formed text", "full disk"}

refuse(t, why) == panic = "no" /\ task[t] = "live" /\ Stops(why)

\* fork copies the table, None included.
fork(t, u) ==
    /\ panic = "no" /\ task[t] = "live" /\ task[u] = "none"
    /\ task' = [task EXCEPT ![u] = "live"]
    /\ table' = [table EXCEPT ![u] = table[t]]
    /\ UNCHANGED <<objs, files, panic>>

spawn(t, u) ==
    /\ panic = "no" /\ task[t] = "live" /\ task[u] = "none"
    /\ task' = [task EXCEPT ![u] = "live"]
    /\ table' = [table EXCEPT ![u] = fresh_table]
    /\ UNCHANGED <<objs, files, panic>>

\* exit keeps the table.
exit(t) ==
    /\ panic = "no" /\ task[t] = "live" /\ t # Initial
    /\ task' = [task EXCEPT ![t] = "zombie"]
    /\ UNCHANGED <<table, objs, files, panic>>

\* The block of a reaped zombie is dropped, and its table with it.
reap(t) ==
    /\ panic = "no" /\ task[t] = "zombie"
    /\ task' = [task EXCEPT ![t] = "none"]
    /\ SetTables([table EXCEPT ![t] = <<>>])
    /\ UNCHANGED <<files, panic>>

Halted == panic # "no" /\ UNCHANGED vars

Next ==
    \/ \E t \in Task, f \in File, clear \in BOOLEAN : sys_open(t, f, clear)
    \/ \E t \in Task, k \in 1..MaxFds, ptr \in Ptr :
        \/ \E len \in 0..MaxLen : sys_read(t, k, ptr, len)
        \/ \E bs \in Payload : sys_write(t, k, ptr, bs)
        \/ \E text \in Text : sys_write_text(t, k, ptr, text)
        \/ sys_fstat(t, k, ptr)
    \/ \E t \in Task, ptr \in Ptr : sys_get_time(t, ptr)
    \/ \E t \in Task, why \in Unwrapped : refuse(t, why)
    \/ \E t \in Task, k \in Closed : sys_close(t, k)
    \/ \E t, u \in Task : fork(t, u) \/ spawn(t, u)
    \/ \E t \in Task : exit(t) \/ reap(t)
    \/ Halted

Spec == Init /\ [][Next]_vars

-----------------------------------------------------------------------------

\* Tables refer to open files that exist, and a file has the blocks its size needs.
TypeOK ==
    /\ task \in [Task -> {"none", "live", "zombie"}]
    /\ \A t \in Task : Range(table[t]) \subseteq Object \cup {Stdin, Stdout, None}
    /\ \A o \in Object : objs[o] = Unused <=> o \notin Referenced(table)
    /\ \A f \in File : Len(files[f].data) = (files[f].size + BLOCK_SZ - 1) \div BLOCK_SZ

\* The contents of a file as one sequence.
Flat(file) == [k \in 1..file.size |-> file.data[(k - 1) \div BLOCK_SZ + 1][(k - 1) % BLOCK_SZ]]

\* Whatever pages the buffer and whatever blocks the range spans, sys_read puts the
\* bytes of the file from the offset on at consecutive addresses from ptr on, as
\* many as asked or as there are, each once: the slices of
\* translated_byte_buffer and the pieces of read_at fit together at every boundary.
ReadsInOrder ==
    \A o \in Referenced(table), ptr \in Ptr, len \in 0..MaxLen :
        LET r == OSInode_read(o, Slices[ptr][len])
            upto == Min({objs[o].offset + len, files[objs[o].file].size})
            expected == SubSeq(Flat(files[objs[o].file]), objs[o].offset + 1, upto)
        IN  r.out = [n \in DOMAIN expected |->
                        << <<floor(ptr + n - 1), page_offset(ptr + n - 1)>>, expected[n]>>]

\* sys_write leaves the bytes of the buffer at the offset, in order, zeros before them
\* if the offset lay beyond the end, and every other byte of the file as it was.
WritesInOrder ==
    \A o \in Referenced(table), ptr \in Ptr, bs \in Payload \ {<<>>} :
        LET w == OSInode_write(o, Slices[ptr][Len(bs)], bs).file
            at == objs[o].offset
            old == Flat(files[objs[o].file])
            Expected(k) == IF at < k /\ k <= at + Len(bs) THEN bs[k - at]
                           ELSE IF k <= Len(old) THEN old[k] ELSE Zero
        IN  Flat(w) = [k \in 1..Max({Len(old), at + Len(bs)}) |-> Expected(k)]

\* The assertion in OSInode::write never fails: the length that write_at returns for a
\* slice is the length of the slice, wherever the offset lies.  The other stops of the
\* kernel in file calls are there by design, in streams, texts, structures and arguments.
LengthsAgree == panic # "size written"

\* The descriptors of a table that are not None.
Descriptors(tab) == [k \in {j - 1 : j \in {n \in DOMAIN tab : tab[n] # None}} |-> tab[k + 1]]

\* The state as OpenFiles has it: what files contain, the open files, and the
\* descriptors of the tasks.
NewFds == Descriptors(fresh_table)
Contents == [f \in File |-> Flat(files[f])]
OpenObjs == Restrict(objs, Referenced(table))
Fds == [t \in {u \in Task : task[u] # "none"} |-> Descriptors(table[t])]

O == INSTANCE OpenFiles WITH Std <- NewFds, bytes <- Contents, open <- OpenObjs, fd <- Fds

\* Read and write through slices and blocks are reads and writes of a sequence of
\* bytes at an offset that all descriptors of an open file share; open gives the
\* lowest free descriptor; an open file lives as long as a task, live or zombie,
\* has a descriptor for it.
ActsAsOpenFiles == O!Spec
=============================================================================
