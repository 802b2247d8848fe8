# A TLA+ verification of Rcore

Rcore is a teaching kernel for RISC-V (`os/`) with a small file system
(`easy-fs/`) and a host tool that builds disk images (`easy-fs-fuse/`). It runs
on one hart. Interrupts are off in the kernel, so a system call runs to its end
or to the point where it switches to another kernel stack. What makes it hard is
the order of such calls from many processes, the reference counts and trackers
that decide when something is freed, and calls that fail half way.

## Inventory

| Part | State | Operations | What is hard |
| --- | --- | --- | --- |
| Process life cycle (`task/`, `syscall/process.rs`, `trap/`) | control blocks shared by `Arc`, ready queue, current task, children lists | fork, spawn, yield, timer, waiting for input, exit, waitpid | references kept on suspended stacks, orphans, asserts about reference counts, freeing the stack one runs on |
| Pids and kernel stacks (`task/pid.rs`) | next pid, recycled pids, mapped stacks | alloc, drop | double drop, loss |
| Stride scheduler (`task/manager.rs`) | queue, stride and priority of each task | fetch, add, set_priority | starvation, arrivals, wrap-around |
| User address spaces (`mm/memory_set.rs`, `mm/page_table.rs`) | areas, page tables, trap context frame | load, fork, exec, mmap, munmap, exit, reap | trackers against page table entries, calls that fail half way |
| Frame allocator (`mm/frame_allocator.rs`) | free frames | alloc, dealloc | double free, leak, old contents |
| Block cache (`easy-fs/block_cache.rs`) | queue of counted objects, device | get, modify, drop, sync_all | evicting what is in use, lost updates, crashes between writes |
| Files and names (`easy-fs/vfs.rs`, `fs/inode.rs`) | directory entries, inodes, open files | open, create, link, unlink, read, write, close | names against links, unlinked or truncated files still open |
| Allocation on disk (`efs.rs`, `bitmap.rs`) | two bitmaps | alloc, dealloc | loss, sharing, full disk, blocks against words against bits |
| Disk inode layout (`layout.rs`) | direct, indirect and doubly indirect index | increase_size, clear_size, get_block_id, read_at, write_at | boundaries between index levels and between blocks |
| User buffers (`mm/page_table.rs`) | none | splitting a buffer into pages | page boundaries |
| Descriptor table (`task/task.rs`) | open files of a task | alloc_fd, close, copy on fork | shared offsets |
| Traps, dispatch, accounting, cells, heap, driver, console, SBI, image builder | see `PROJECT.json` | | |

`PROJECT.json` lists every part with its status, and every hazard with the line
where it bites and the properties that would catch it.

How the parts interact: a trap enters a system call, which works on the current
task's control block, its address space and its open files. fork, spawn and exec
build address spaces from frames. waitpid and exit free control blocks, and with
them pids, kernel stacks and frames. Open files go through `Vfs` to inodes and
blocks, and every block goes through the block cache.

## Modules

**Process** models the life of processes. Its state is the fields of
`TaskManager`, `Processor`, `TaskControlBlockInner` and `PidAllocator` that
decide about scheduling and freeing. `Holders(t)` lists every strong reference to
a control block, so that `Arc::strong_count` is a number the model computes.
One action is one system call up to the switch of stacks; `Schedule` is that
switch and `RunTasks` the idle loop. A panic stops the model with the reason in
`panic`. `AskedFor` are the reasons a program can bring about by what it asks: a trap
or call without a handler, a pointer that is not mapped, a file that is no program, a
read of standard input of another length than 1. The others are failures of the
kernel's own bookkeeping, and `NoBookkeepingPanic` excludes them. Which ready task
runs is left open: the properties hold for every scheduler.

**TaskManager** models the choice: stride scheduling with wrapping addition. It
adds history variables: the tasks a task was preferred to at its last dispatch,
how often each has run since with a priority of at most `FairPriority`, and whether a
stride has wrapped. Priorities may be any number from 2 on. Above BIG_STRIDE the pass
is 0, and such a task can run as often as it likes before the others, so bypassing is
bounded only for dispatches with a priority up to BIG_STRIDE.

**MemorySet** models user address spaces over the frame allocator: areas with
one tracker per page, the table pages and leaf entries of a three-level page
table, the frame of the trap context, and what each frame holds. mmap stops at
the first page already mapped, as the code does. munmap takes the first area
inside the range. exit keeps the page table until the zombie is reaped. Which
free frame is handed out is the constant operator `Handouts`. The constant
`WellBehaved` says whether programs keep to ranges that are not mapped and leave
the trap page mapped; the code requires neither. Where they do not, an entry can
outlive its tracker and lead to a frame that has since become a table page or a trap
context. A store there ends the behaviour with `halt` "corrupt", as what the kernel
does next depends on the bytes stored. An mmap whose end wraps around ends it with
"range", the assert of `SimpleRange::new`.
**VirtualMemory** is the abstract specification: each task has a private map from
pages to contents, with no frames. The refinement mapping is in MemorySet.

**BlockCache** models the cache objects, the queue, the references of nested
closures, and the device. `block_cache_sync_all` is one step per object, and a
crash may come at any step. **BlockStore** is its abstract specification: an
array of blocks that only the innermost closure writes, with a durable version
that lags behind.

**Vfs** models the root directory, the two bitmaps, the blocks of each file and
the open files with their offsets, a block at a time. Directory contents are the
entries themselves. The data bitmap has `DataBits` bits, which may be more than the
`DataBlocks` blocks the device has from the data area on: on the image that
`easy-fs-fuse` makes there are 16384 bits for 12970 blocks. `Bitmap::alloc` hands out
such a bit like any other, and the first access to its block stops the kernel. That
and a bitmap without a clear bit end the behaviour.

**DiskInode** opens up what Vfs treats as the list of a file's blocks: the index
with its three levels, as `increase_size` builds it, `clear_size` empties it and
`get_block_id` follows it. It allocates from **Bitmap**, where `alloc` and
`dealloc` work on blocks, words and bits; here every bit has a block. **FileBlocks**
is the abstract specification, a list that grows at its end; the mapping is at the end
of DiskInode.

**FileIO** follows a file call from the descriptor to the byte: descriptor tables,
open files that fork shares, the standard streams, the slices of the user buffer
(**UserBuffer**), and the pieces into which each slice's range is cut at block
boundaries (**BlockPieces**). `refuse` is a call that stops the kernel by what it is
given: a page that is not mapped, unknown open flags, a name too long for an entry,
bytes that are no text, or a full disk. **OpenFiles** is the abstract specification:
files are sequences of bytes, descriptors refer to open files with one offset each. The
refinement mapping is at the end of FileIO.

The modules meet as follows. DiskInode is shown to implement the lists that Vfs
uses, and `BlockPieces` is used by both DiskInode and FileIO. FileIO takes from
Vfs that new blocks are zero (`FreeBlocksZero`). Vfs and DiskInode treat a block
as a variable, which `ActsAsBlockStore` justifies.

**SeqLemmas** and the modules named `_proofs` hold the proofs; the MC modules hold
what TLC needs. Definitions with a suffix (`CanEvict_any`) are variants of the
definition that follows them, each with a plausible mistake. They are not part
of the specifications: `PROJECT.json` lists each with the property it violates.

## Runs

| Run | Instance | Shows |
| --- | --- | --- |
| `process` | 4 control blocks | the asserts of waitpid and of the pid allocator hold and fetch finds a task, whatever programs ask; a task's status says where it is; each process has one live parent and leads to INITPROC; pids and stacks match the live processes; only a parent frees a process; a parent that keeps calling waitpid(-1) reaps every child that has exited |
| `stride` | 3 tasks, priorities 2, 4 and 13 with BIG_STRIDE 12, strides modulo 20 | `BoundedLead`: nobody is further ahead of a task it was preferred to than the largest pass. `BoundedBypass`: the tasks present run a bounded number of times with priority up to `FairPriority` before a task runs again |
| `memory` | 2 spaces, 8 pages, well-behaved programs | address spaces implement `VirtualMemory`; no entry outlives its tracker; the trap context is in place |
| `memory_wild` | 2 spaces, ranges over mapped pages, the stack and the trap page | each frame is free or owned once; areas, trackers and entries agree, so `PageTable::unmap` never asserts, until a store through a stale entry hits a table page or a trap context (the run reaches this) |
| `block_cache` | 4 blocks, cache of 3, nesting 2 | the cache implements `BlockStore`; one object per block; clean means durable; the cache never runs out; after sync_all everything is on the device |
| `vfs` | 2 names, 3 inodes, 5 blocks with 6 bits, 2 open files; names may be linked twice, unlinked files written | every used block belongs to one file and exists; free blocks are zero, so holes read as zeros; while names are distinct, link counts are exact and data lives as long as a name and no longer |
| `disk_inode` | 2 files, blocks of 2 bytes, 1 direct and 2 entries per index block, 16 bits in 2 bitmap blocks | the four computations of the index agree at every boundary; no block is lost or held twice; the lowest bit is allocated; the pieces of a range cover each byte once; a file implements `FileBlocks` |
| `file_io` | 2 tasks, 1 file, 2 open files, pages and blocks of 2 bytes | reads and writes through slices and blocks keep every byte in order; the assertion on the length written never fails; tables and open files implement `OpenFiles` |

Four runs show that the code does not do what a comment or report says:

- `stride_spread`: `reports/lab3.pdf` bounds the spread of all strides by
  BIG_STRIDE / 2. A new task starts at stride 0, so the spread can be larger.
  `BoundedLead` is the bound that does hold.
- `stale_mapping`: mmap over a range that meets a mapped page half way fails, frees
  the frames it took, and leaves their entries valid.
- `trap_page`: munmap accepts a range that contains the trap context.
- `nlink`: link accepts a name in use; get_nlink then counts by name, and unlink
  clears a file that still has an entry.

### Bounds

- Process: 4 blocks give a grandparent, orphans and an adopted zombie at once.
  Pids are bounded by the number of blocks, because they are recycled.
- TaskManager: BIG_STRIDE 12 divides by the priorities 2, 3 (the initial one) and 4; 13
  is above it and has pass 0, and 1 is refused. Modulus 20 lets a stride
  wrap after a few dispatches. History ends at the first wrap, with the properties
  that use it.
- MemorySet: fanout 2 gives 8 pages and every level of the table. The image has
  one page and the stack one. `MaxAreas` bounds the areas of a task. `OwnFrame`
  hands a page one of two frames of its own, so that spaces reuse each other's
  frames and running out happens, without exploring every renaming. In `memory_wild`
  `SharedFrame` lets a page and a table page share frames, so that a freed frame of a
  page becomes a table page while a stale entry leads to it.
- BlockCache: more blocks than the cache holds, and a free object for each that
  is held. The code nests less deep than its cache is large, as here.
- Vfs: `MaxEntries` (4) and `MaxBlocks` (2) bound directory and files; the directory
  needs a second block, both allocators can run out, and a file can have a hole. The bitmap has one bit more
  than the device has blocks.
- DiskInode: file `i` takes every size from 1 to 15 bytes, one more than its index
  can name (1 + 2 + 4 blocks of 2 bytes), so every boundary is met from every
  size below it. File `j` takes 4 blocks, which fragments the bitmap and fills it.
- FileIO: buffers of up to 3 bytes (`MaxLen`) start at either byte of a page and span
  up to two pages; ranges of a file of up to 4 bytes (`MaxSize`) span two blocks.
  `MaxFds` 4 leaves one descriptor beyond the three that every table starts with,
  and closing descriptor 0 makes `alloc_fd` fill a hole.

### Fairness

No specification has fairness. The one liveness property, `ReapedInTurn`, says of each
parent: if it calls waitpid(-1) again and again, then a child of it that has exited is
reaped, or passes to INITPROC when the parent exits. It is about the order of the
children list, to which exits and orphans add while zombies are taken from it, and holds
for every scheduler.

Two things it does not say. That INITPROC calls waitpid for ever is a matter of the
initial program, which is not in the repository. That INITPROC runs again and again is a
matter of the scheduler: `BoundedBypass` bounds how often the tasks present overtake it,
up to the wrap of a stride at 2^64 and while priorities are at most BIG_STRIDE. With a
larger priority a task has pass 0 and INITPROC need not run again.

Starvation in general is stated as the safety property `BoundedBypass`: an
eventual dispatch in a finite model would hold or fail because of the wrap-around
and not because of the scheduler.

## Proofs

Every safety property and every refinement that a passing run checks is proved for
every value of the constants that satisfies the assumptions named in the modules.
Each action has a lemma of its own; the theorems combine them.

**Process_proofs**: any set of control blocks that contains INITPROC. `IInv`
joins the checked invariants with `Family`: children lists and parent references
describe one another, and no exited process has children, and with `Control`: the
hart runs on the current task's stack, and a task suspended in a read can still
run. `BookkeepingSound` is the theorem about panics. The first is needed because waitpid's assert counts the lists of all
processes; the second because a zombie inside a read would be held twice. For
`RootedAtInitproc` the set form is inductive as it stands: a process keeps its parent,
is adopted by INITPROC, or is new below a process that was there (`TreeStep`), so a set
without a way out after a step has one before it.

**TaskManager_proofs**: any set of tasks, BIG_STRIDE, modulus above it and
largest priority. `IInv` adds `RivalsLive` and `Balance`: each dispatch of a rival
with a priority up to `FairPriority`, any bound up to BIG_STRIDE, has moved it by at
least the pass of that bound, and a rival that has run is at most one pass ahead. `BypassBounded` and `LeadBounded` follow.

**MemorySet_proofs**: any spaces, frames, fan-out, program sizes, ranges and
choice of frames; programs need not be well behaved. `FramesOwnedOnce` is not
inductive: areas that overlap would own a page's frame twice after a fork. Their
disjointness needs that every page of an area is mapped, because sys_mmap looks
only at the page table. So `IInv` has ownership, disjointness and the agreement of
areas with entries together. The theorems reach to the store that hits a table page or
a trap context, which ends a behaviour.

The second half of the module assumes `WellBehaved`. `WInv` adds that a live space has
entries for the pages of its areas and the trampoline, no others, and that its trap
context is where `trap_cx_ppn` says. Each part needs the other and the ownership of
frames: a store misses the trap contexts of all tasks because the frame it hits has
one owner. `StoresMissKernel` says that such programs never reach a table page or a trap
context. `Isolation` is the refinement of VirtualMemory: every step of MemorySet is
a step on private memories or none.

**BlockCache_proofs**: any blocks, values and cache size, nesting less deep than the
cache is large. Besides the checked invariants `IInv` says that sync_all is within
the queue, that no closure is open meanwhile, and that the objects it has passed
are clean. `Refinement` shows that the cache implements BlockStore, `SyncIsDurable` that
the device is up to date when sync_all ends.

**Vfs_proofs**: any names, inodes, blocks, entries per block and open files. `IInv` is
the type, the ownership of blocks, that free blocks are zero, and that an emptied
entry names inode 0. The last is what keeps `get_nlink` from counting it. That files
have only blocks of the device, with any number of bits, rests on an order
(`GrownFacts`): the block written is the last one taken, and the highest.

**FileIO_proofs**: any page size and block size, files of any length, buffers at any
alignment, any tables and open files. It has three layers.
- *Cuts.* `PiecesCut` and `SlicesCut` say where the loops cut a range: a sequence of
  bounds that starts at the start, ends at the end, and changes block or page only
  there. `ReadAt`, `WriteAt`, `OSInodeRead` and `OSInodeWrite` give what the loops over
  these cuts compute in closed form: the bytes at each position before and after.
  Two writes one after the other are one write of both (`WrittenTwice`), which is why
  the slices do not show in the file.
- *Invariant.* `IInv` says that tables hold open files, streams or None, that an open
  file has a file while a table refers to it and is unused else, that what a block has past
  the end of its file is zero, and that control blocks without a process have
  empty tables. The zeros are needed because a write past the end exposes
  the rest of the last block; the empty tables because fork and spawn overwrite the
  table of a free control block. `LengthsCorrect` follows from what a write returns.
- *Refinement.* Every step is a step of OpenFiles (one lemma named `...Mapped` for each
  call). `reap` and `sys_close` drop an open file exactly when OpenFiles does, as
  the objects in tables are the objects descriptors name (`NamedObjects`).

**DiskInode_proofs**: any files and sizes asked of them, block size, number of direct
blocks, entries per index block, and shape of the bitmap.
- *Places.* What a file of n blocks can hold is numbered: `0 .. n-1` are its data
  blocks, `-1` and `-2` the indirect and doubly indirect block, and `-3 - a` table `a`.
  `Distinct` says that different places hold different blocks. It is what makes one
  write to the index change one place and leave the others alone.
- *increase_size.* `Fill` puts the next new block, after the index blocks that its
  number calls for, into the next places (`FillOne`). So the loop uses as many blocks
  as `total_blocks` grows by, and old places keep what they held (`IncreasedGrows`).
- *clear_size.* Its lists, direct, indirect, full tables and the last table, together
  name every place once (`ReleasedLists`). Its length is then `total_blocks`.
- *Bitmap.* Numbering a bit by block, word and position is one to one; `alloc` finds the
  lowest clear bit, n calls find n different ones, and the calls to `dealloc` clear
  exactly the bits on the list (`FreedClears`).
- *Invariant.* `IInv` says, besides the types, that no file has more blocks than the
  index can name, that its places are distinct and in the data area, that no two files
  share a block, and that the set bits are the blocks held. `HeldExactly` alone is not
  inductive: it bounds no file, does not say that blocks lie in the data area, and has
  distinctness for the list of `clear_size`, where growth needs it place by place.
- *Refinement.* A step of `increase_size` appends unused blocks to one list, `clear`
  empties one, and the rest stays (`StepMapped`), so a file is the list of FileBlocks.
- *Bytes.* The pieces of a range have a closed form (`PiecesClosed`), and laid end to end
  they are the places of the bytes in order (`PlacesClosed`).

The loops of both modules are recursive functions over a number: of pieces, slices,
blocks or table entries. Induction over them is first-order: a set of naturals has a
least element (`NatMin`, from the well-foundedness of `<` in the library), so two
functions that start alike and step alike do not differ anywhere, and a function in
closed form that satisfies the recursion is the one the model defines.

**SeqLemmas** states what Append, RemoveAt, Front and concatenation do to the
elements of a sequence and to their distinctness.

Only model-checked: `ReapedInTurn`, a liveness property.

## Not modelled

- Assembly (trap entry, context switch), the device driver, console, SBI calls,
  logging and build: registers and devices, no state the properties speak of.
- The kernel's own address space, made once at start-up, and its heap, an
  external allocator. Kernel stacks are in Process, named by their pids; the frames
  they take are not in MemorySet.
- ELF parsing and page permissions: a program is a number of pages.
- System call counters and the clock: nothing in the kernel depends on them.
- The flags `readable` and `writable` of open files, which no call looks at.
- Files named by an empty string: an emptied directory entry has that name and
  would be found as the root directory.
- A file system after a crash. BlockCache shows what a crash leaves of each block.
  Which blocks of one operation survive together is any subset, the code has no
  recovery, and no document states what it should find.
- The image builder, a host tool over the modelled operations.

- What the kernel does after a store into one of its table pages or trap contexts.

Out of memory and a full disk end a behaviour, as the panic does.
