----------------------------- MODULE MemorySet -----------------------------
(***************************************************************************)
(* User address spaces (os/src/mm/memory_set.rs, page_table.rs) over the   *)
(* frame allocator (frame_allocator.rs): the ELF loader, fork's copy,      *)
(* sys_mmap, sys_munmap, exec, exit and the reaping of a zombie.           *)
(*                                                                         *)
(* A MapArea keeps one FrameTracker per page; a PageTable keeps one per    *)
(* table page, and the leaf entries.  Dropping a tracker frees its frame.  *)
(* Addresses are page numbers and contents are abstract values.  Which     *)
(* free frames an operation is handed is left to the constant Handouts.    *)
(***************************************************************************)
EXTENDS Integers, FiniteSets, Sequences, Functions

CONSTANTS
    Space,            \* address spaces, one per task control block
    Frame,            \* the physical frames of the allocator
    TrampolineFrame,  \* the kernel's page, mapped by map_trampoline
    Invalid,          \* an entry without the V flag
    Fanout,           \* entries of a table page
    ElfPages,         \* the possible sizes of a program image
    StackPages,       \* USER_STACK_SIZE, in pages
    Handouts(_, _),   \* Handouts(I, F): ways to give items I frames of F
    Ranges,           \* the page ranges <<a, b>> programs map and unmap
    Stored,           \* the pages programs store into
    Value,            \* what they store
    MaxAreas,         \* bound: the areas a program maps
    Zero, Image,      \* a cleared page, a page of the program file
    Stale,            \* what a free frame or a table page holds
    WellBehaved       \* programs map only unmapped pages and keep the trap page

NPages == Fanout * Fanout * Fanout
Page == 0..(NPages - 1)
TRAMPOLINE == NPages - 1
TRAP_CONTEXT == NPages - 2
Content == Value \cup Space \cup {Zero, Image, Stale}

ASSUME MemorySetAssumption ==
    /\ MaxAreas \in Nat /\ Fanout \in Nat \ {0, 1} /\ StackPages \in Nat /\ ElfPages \subseteq Nat
    /\ \A k \in ElfPages : k + 1 + StackPages <= TRAP_CONTEXT
    /\ Ranges \subseteq {r \in Page \X (0..NPages) : r[1] <= r[2]}
    /\ Stored \subseteq 0..(TRAP_CONTEXT - 1)
    /\ TrampolineFrame \notin Frame /\ Invalid \notin Frame
    /\ Invalid # TrampolineFrame
    /\ WellBehaved \in BOOLEAN

VARIABLES
    free,         \* the frames FRAME_ALLOCATOR can still hand out
    mem,          \* what each frame holds
    state,        \* "none", "live" or "zombie"
    areas,        \* MemorySet::areas
    nodes,        \* PageTable::frames, by place in the tree
    pte,          \* the leaf entries of the page table
    trap_cx_ppn,  \* TaskControlBlockInner::trap_cx_ppn
    halt          \* why the behaviour ends, or "no"

vars == <<free, mem, state, areas, nodes, pte, trap_cx_ppn, halt>>

-----------------------------------------------------------------------------

Span(a) == a.start..(a.end - 1)
Mapped(s) == UNION {Span(areas[s][i]) : i \in DOMAIN areas[s]}
AreaFrames(s) == UNION {Range(areas[s][i].frames) : i \in DOMAIN areas[s]}
Held(s) == AreaFrames(s) \cup Range(nodes[s])

\* The table pages on the way to each of the pages V, level by level from the
\* root (VirtPageNum::indexes); they are numbered from NPages on.
Path(V) ==
    {NPages} \cup {NPages + 1 + v \div (Fanout * Fanout) : v \in V}
             \cup {NPages + 1 + Fanout + v \div Fanout : v \in V}

\* The ranges from_elf maps for a program of k pages: the image, the stack
\* above a guard page, and the trap context.
Layout(k) == <<[start |-> 0, end |-> k],
               [start |-> k + 1, end |-> k + 1 + StackPages],
               [start |-> TRAP_CONTEXT, end |-> TRAMPOLINE]>>

Pages(ranges) == UNION {Span(ranges[i]) : i \in DOMAIN ranges}

\* MapArea::map on each range, with frame f[v] for page v.
Build(ranges, f) ==
    [i \in DOMAIN ranges |-> [start |-> ranges[i].start, end |-> ranges[i].end,
                              frames |-> Restrict(f, Span(ranges[i]))]]

\* frame_alloc for every item of I out of F: any distinct free frames.
Alloc(I, F) == 
    {f \in Handouts(I, F) : /\ f = [x \in I |-> f[x]]
                            /\ Range(f) \subseteq F
                            /\ IsInjective(f)}

OutOfFrames(n) == Cardinality(free) < n

Stop(why) == halt' = why /\ UNCHANGED <<free, mem, state, areas, nodes, pte, trap_cx_ppn>>

\* frame_alloc().unwrap() panics.
Oom == Stop("oom")

\* The contents when the frames `gone' have been freed.
Freed(m, gone) == [h \in Frame |-> IF h \in gone THEN Stale ELSE m[h]]

Fill_uncleared(f, content) ==
    [h \in Frame |-> IF h \in Range(f) /\ content[CHOOSE v \in DOMAIN f : f[v] = h] # Zero
                     THEN content[CHOOSE v \in DOMAIN f : f[v] = h] ELSE mem[h]]

\* The contents once page v has been given frame f[v] and has been filled with
\* content[v]; FrameTracker::new clears a frame first.
Fill(f, content) ==
    [h \in Frame |-> IF h \in Range(f) THEN content[CHOOSE v \in DOMAIN f : f[v] = h]
                     ELSE mem[h]]

\* s gets a fresh page table and the areas built from ranges.
Install(s, ranges, f, g) ==
    /\ areas' = [areas EXCEPT ![s] = Build(ranges, f)]
    /\ nodes' = [nodes EXCEPT ![s] = g]
    /\ pte' = [pte EXCEPT ![s] = [v \in Page |->
                  IF v \in DOMAIN f THEN f[v]
                  ELSE IF v = TRAMPOLINE THEN TrampolineFrame ELSE Invalid]]
    /\ state' = [state EXCEPT ![s] = "live"]

-----------------------------------------------------------------------------

Init ==
    /\ free = Frame
    /\ mem = [h \in Frame |-> Stale]
    /\ state = [s \in Space |-> "none"]
    /\ areas = [s \in Space |-> <<>>]
    /\ nodes = [s \in Space |-> <<>>]
    /\ pte = [s \in Space |-> [v \in Page |-> Invalid]]
    /\ trap_cx_ppn = [s \in Space |-> Invalid]
    /\ halt = "no"

\* TaskControlBlock::new, spawn and exec: from_elf builds a new MemorySet, the
\* trap context is written into its page, and what s held before is dropped.
Load(s, k) ==
    LET ranges == Layout(k)
        P == Pages(ranges)
        N == Path(P \cup {TRAMPOLINE})
        content == [v \in P |-> IF v < k THEN Image ELSE IF v = TRAP_CONTEXT THEN s ELSE Zero]
    IN
    IF OutOfFrames(Cardinality(P) + Cardinality(N)) THEN Oom
    ELSE \E f \in Alloc(P, free) : \E g \in Alloc(N, free \ Range(f)) :
            /\ Install(s, ranges, f, g)
            /\ mem' = Freed(Fill(f, content), Held(s))
            /\ trap_cx_ppn' = [trap_cx_ppn EXCEPT ![s] = f[TRAP_CONTEXT]]
            /\ free' = (free \ (Range(f) \cup Range(g))) \cup Held(s)
            /\ UNCHANGED halt

SpawnSpace(s, k) == halt = "no" /\ state[s] = "none" /\ Load(s, k)

Exec(s, k) == halt = "no" /\ state[s] = "live" /\ Load(s, k)

Copied_keeps_kernel_sp(p, c) == [v \in Mapped(p) |-> mem[pte[p][v]]]

\* from_existed_user copies every page of every area; fork then writes the
\* child's own kernel stack into its trap context.
Copied(p, c) ==
    [v \in Mapped(p) |-> IF v = TRAP_CONTEXT THEN c ELSE mem[pte[p][v]]]

Fork(p, c) ==
    LET N == Path(Mapped(p) \cup {TRAMPOLINE}) IN
    /\ halt = "no" /\ state[p] = "live" /\ state[c] = "none"
    /\ IF OutOfFrames(Cardinality(Mapped(p)) + Cardinality(N)) THEN Oom
       ELSE \E f \in Alloc(Mapped(p), free) : \E g \in Alloc(N, free \ Range(f)) :
            /\ Install(c, areas[p], f, g)
            /\ mem' = Fill(f, Copied(p, c))
            /\ trap_cx_ppn' = [trap_cx_ppn EXCEPT ![c] = pte'[c][TRAP_CONTEXT]]
            /\ free' = free \ (Range(f) \cup Range(g))
            /\ UNCHANGED halt

Exit_keeps_trackers(s) ==
    /\ halt = "no" /\ state[s] = "live"
    /\ state' = [state EXCEPT ![s] = "zombie"]
    /\ free' = free \cup AreaFrames(s)
    /\ mem' = Freed(mem, AreaFrames(s))
    /\ UNCHANGED <<areas, nodes, pte, trap_cx_ppn, halt>>

\* exit_current_and_run_next: recycle_data_pages clears the areas; the page
\* table with its entries stays until the zombie is reaped.
Exit(s) ==
    /\ halt = "no" /\ state[s] = "live"
    /\ state' = [state EXCEPT ![s] = "zombie"]
    /\ areas' = [areas EXCEPT ![s] = <<>>]
    /\ free' = free \cup AreaFrames(s)
    /\ mem' = Freed(mem, AreaFrames(s))
    /\ UNCHANGED <<nodes, pte, trap_cx_ppn, halt>>

\* sys_waitpid drops the task control block, and the MemorySet with it.
Reap(s) ==
    /\ halt = "no" /\ state[s] = "zombie"
    /\ state' = [state EXCEPT ![s] = "none"]
    /\ areas' = [areas EXCEPT ![s] = <<>>]
    /\ nodes' = [nodes EXCEPT ![s] = <<>>]
    /\ pte' = [pte EXCEPT ![s] = [v \in Page |-> Invalid]]
    /\ trap_cx_ppn' = [trap_cx_ppn EXCEPT ![s] = Invalid]
    /\ free' = free \cup Held(s)
    /\ UNCHANGED <<mem, halt>>

-----------------------------------------------------------------------------

Reached_past_end(s, a, b) ==
    {v \in a..b : \A w \in a..(v - 1) : pte[s][w] = Invalid}

\* The pages a..b-1 that MapArea::map gets to: up to the first one that is
\* mapped already, where PageTable::map returns -1.
Reached(s, a, b) ==
    {v \in a..(b - 1) : \A w \in a..(v - 1) : pte[s][w] = Invalid}

Conflict_first_page_only(s, a, b) == a < b /\ pte[s][a] # Invalid

Conflict(s, a, b) == \E v \in a..(b - 1) : pte[s][v] # Invalid

\* sys_mmap with a page-aligned start and a valid port.  On a conflict the new
\* MapArea is dropped with its trackers, but the entries written stay.
Mmap(s, a, b) ==
    LET R == Reached(s, a, b)
        N == Path(R) \ DOMAIN nodes[s]
    IN
    /\ halt = "no" /\ state[s] = "live"
    /\ Len(areas[s]) < MaxAreas
    /\ WellBehaved => ~Conflict(s, a, b)
    /\ IF OutOfFrames(Cardinality(R) + Cardinality(N)) THEN Oom
       ELSE \E f \in Alloc(R, free) : \E g \in Alloc(N, free \ Range(f)) :
            /\ nodes' = [nodes EXCEPT ![s] = [n \in DOMAIN @ \cup N |->
                            IF n \in N THEN g[n] ELSE @[n]]]
            /\ pte' = [pte EXCEPT ![s] = [v \in Page |->
                            IF v \in R /\ @[v] = Invalid THEN f[v] ELSE @[v]]]
            /\ IF Conflict(s, a, b)
               THEN /\ areas' = areas
                    /\ free' = free \ Range(g)
                    /\ mem' = mem
               ELSE /\ areas' = [areas EXCEPT ![s] =
                            Append(@, [start |-> a, end |-> b, frames |-> f])]
                    /\ free' = free \ (Range(f) \cup Range(g))
                    /\ mem' = Fill(f, [v \in R |-> Zero])
            /\ UNCHANGED <<state, trap_cx_ppn, halt>>

\* sys_mmap of a range whose end wraps around: SimpleRange::new asserts that a range
\* does not end before it starts.  sys_munmap finds no area in such a range.
MmapWraps(s) == halt = "no" /\ state[s] = "live" /\ Stop("range")

\* Vec::remove: the elements after the k-th move up.
remove(v, k) == [j \in 1..(Len(v) - 1) |-> IF j < k THEN v[j] ELSE v[j + 1]]

\* The areas that lie inside the range, by position.
Inside(s, a, b) ==
    {i \in DOMAIN areas[s] : a <= areas[s][i].start /\ areas[s][i].end <= b}

Munmap_leaves_entries(s, a, b) ==
    \E i \in Inside(s, a, b) :
        /\ halt = "no" /\ state[s] = "live"
        /\ \A k \in Inside(s, a, b) : i <= k
        /\ WellBehaved => TRAP_CONTEXT \notin Span(areas[s][i])
        /\ areas' = [areas EXCEPT ![s] = remove(@, i)]
        /\ free' = free \cup Range(areas[s][i].frames)
        /\ mem' = Freed(mem, Range(areas[s][i].frames))
        /\ UNCHANGED <<state, nodes, pte, trap_cx_ppn, halt>>

\* sys_munmap: remove_framed_area takes the first area inside the range, if
\* any, unmaps its pages and drops it.  PageTable::unmap asserts that each
\* entry is valid; without its trap page a task cannot return to user mode.
Munmap(s, a, b) ==
    \E i \in Inside(s, a, b) :
        LET gone == Span(areas[s][i]) IN
        /\ halt = "no" /\ state[s] = "live"
        /\ \A k \in Inside(s, a, b) : i <= k
        /\ WellBehaved => TRAP_CONTEXT \notin gone
        /\ areas' = [areas EXCEPT ![s] = remove(@, i)]
        /\ pte' = [pte EXCEPT ![s] = [v \in Page |-> IF v \in gone THEN Invalid ELSE @[v]]]
        /\ free' = free \cup Range(areas[s][i].frames)
        /\ mem' = Freed(mem, Range(areas[s][i].frames))
        /\ halt' = IF \E v \in gone : pte[s][v] = Invalid THEN "assert"
                   ELSE IF TRAP_CONTEXT \in gone THEN "fault" ELSE "no"
        /\ UNCHANGED <<state, nodes, trap_cx_ppn>>

\* The frames of this model that the kernel relies on for running tasks.
KernelFrames ==
    UNION {Range(nodes[t]) \cup {trap_cx_ppn[t]} : t \in {u \in Space : state[u] = "live"}}

\* A user store goes through the page table, valid entries are all it needs.  An entry
\* that outlived its tracker can lead to a frame that has become a table page or a
\* trap context; what the kernel does after a store there is not followed further.
\* (It can lead to a kernel stack as well: those frames are not in this model.)
Store(s, v, x) ==
    /\ halt = "no" /\ state[s] = "live"
    /\ pte[s][v] # Invalid
    /\ IF pte[s][v] \in KernelFrames THEN Stop("corrupt")
       ELSE /\ mem' = [mem EXCEPT ![pte[s][v]] = x]
            /\ UNCHANGED <<free, state, areas, nodes, pte, trap_cx_ppn, halt>>

Halted == halt # "no" /\ UNCHANGED vars

Next ==
    \/ \E s \in Space, k \in ElfPages : SpawnSpace(s, k) \/ Exec(s, k)
    \/ \E p, c \in Space : Fork(p, c)
    \/ \E s \in Space : Exit(s) \/ Reap(s) \/ MmapWraps(s)
    \/ \E s \in Space, r \in Ranges : Mmap(s, r[1], r[2]) \/ Munmap(s, r[1], r[2])
    \/ \E s \in Space, v \in Stored, x \in Value : Store(s, v, x)
    \/ Halted

Spec == Init /\ [][Next]_vars

-----------------------------------------------------------------------------

\* Every variable has its type; a MapArea has a tracker for each of its pages and
\* for no other (MapArea::map).
TypeOK ==
    /\ free \subseteq Frame
    /\ mem \in [Frame -> Content]
    /\ state \in [Space -> {"none", "live", "zombie"}]
    /\ \A s \in Space : \A i \in DOMAIN areas[s] :
        LET a == areas[s][i] IN
        /\ a.start \in Page /\ a.end \in 0..NPages
        /\ a.frames \in [Span(a) -> Frame]
    /\ \A s \in Space : nodes[s] \in [DOMAIN nodes[s] -> Frame]
    /\ pte \in [Space -> [Page -> Frame \cup {TrampolineFrame, Invalid}]]
    /\ trap_cx_ppn \in [Space -> Frame \cup {Invalid}]
    /\ halt \in {"no", "oom", "assert", "fault", "range", "corrupt"}

\* Every frame is free or is held by exactly one tracker, of one area page or
\* one table page of one address space: nothing leaks, nothing is freed twice
\* (the panic of StackFrameAllocator::dealloc), nothing is shared, whatever entries
\* calls that failed half way left behind.
FramesOwnedOnce ==
    /\ Frame = free \cup UNION {Held(s) : s \in Space}
    /\ \A s \in Space :
        /\ free \cap Held(s) = {}
        /\ \A t \in Space \ {s} : Held(s) \cap Held(t) = {}
        /\ AreaFrames(s) \cap Range(nodes[s]) = {} /\ IsInjective(nodes[s])
        /\ \A i, j \in DOMAIN areas[s] :
            /\ IsInjective(areas[s][i].frames)
            /\ i # j => Range(areas[s][i].frames) \cap Range(areas[s][j].frames) = {}

\* The areas of a live task are disjoint and each of their pages is mapped to
\* the frame its tracker holds, through table pages that exist.  This is why
\* the assertion in PageTable::unmap and the unwraps of from_existed_user hold, until a
\* program stores into a table page or a trap context through an entry that outlived
\* its tracker (halt = "corrupt"): from there on nothing is said.
AreasBacked ==
    /\ halt # "assert"
    /\ \A s \in Space : state[s] = "live" =>
        /\ \A i, j \in DOMAIN areas[s] :
            i # j => Span(areas[s][i]) \cap Span(areas[s][j]) = {}
        /\ \A i \in DOMAIN areas[s] : \A v \in Span(areas[s][i]) :
            pte[s][v] = areas[s][i].frames[v]
        /\ Path({v \in Page : pte[s][v] # Invalid}) \subseteq DOMAIN nodes[s]

\* "manage a frame which has the same lifecycle as the tracker": a task that
\* can run has no valid entry (PageTable::map) for a page whose tracker is gone.
NoStaleMapping ==
    \A s \in Space : state[s] = "live" =>
        {v \in Page : pte[s][v] # Invalid} = Mapped(s) \cup {TRAMPOLINE}

\* trap_cx_ppn of a live task is the frame its TRAP_CONTEXT page is mapped to,
\* and the trap context there names the task's own kernel stack.
TrapContextPlaced ==
    \A s \in Space : state[s] = "live" =>
        /\ TRAP_CONTEXT \in Mapped(s)
        /\ trap_cx_ppn[s] = pte[s][TRAP_CONTEXT]
        /\ mem[trap_cx_ppn[s]] = s

Programs == {[pages |-> Pages(Layout(k)), text |-> 0..(k - 1)] : k \in ElfPages}

View == [s \in Space |-> [v \in Mapped(s) |-> mem[pte[s][v]]]]

VM == INSTANCE VirtualMemory WITH
    TrapContext <- TRAP_CONTEXT, Program <- Programs,
    alive <- {s \in Space : state[s] = "live"}, data <- View

\* A running task sees exactly the private memory that VirtualMemory promises:
\* MemorySet's frames, page tables and copies (fork, exec, mmap, munmap) are
\* invisible, and no task's stores show in another's pages.
PrivateMemory == VM!Spec
=============================================================================
