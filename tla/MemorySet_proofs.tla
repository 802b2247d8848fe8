-------------------------- MODULE MemorySet_proofs --------------------------
(***************************************************************************)
(* Proofs about MemorySet, for any number of address spaces and frames,    *)
(* any fan-out of the page table, any program sizes and any requests to    *)
(* map and unmap: no frame leaks, is freed twice or is shared, and every   *)
(* page of an area is mapped to the frame its tracker holds.  Then, that   *)
(* programs that map only unmapped pages and keep their trap page          *)
(* (WellBehaved) see private memory: MemorySet implements VirtualMemory,   *)
(* no entry outlives its tracker, and the kernel finds the trap context of *)
(* a task in the task's own frame.                                         *)
(***************************************************************************)
EXTENDS MemorySet, TLAPS

PageEntry == Frame \cup {TrampolineFrame, Invalid}

\* A MapArea, whatever pages it has trackers for.
Area == [start : Page, end : 0..NPages, frames : UNION {[V -> Frame] : V \in SUBSET Page}]

\* The areas of one space: a tracker for each page, all pages and all frames distinct.
AreasDisjoint(a) ==
    /\ \A i \in DOMAIN a : a[i].frames \in [Span(a[i]) -> Frame] /\ IsInjective(a[i].frames)
    /\ \A i, j \in DOMAIN a : i # j =>
        /\ Range(a[i].frames) \cap Range(a[j].frames) = {}
        /\ Span(a[i]) \cap Span(a[j]) = {}

\* The pages of the areas are mapped to the frames of their trackers.
Matches(a, p) == \A i \in DOMAIN a : \A v \in Span(a[i]) : p[v] = a[i].frames[v]

FramesOf(a) == UNION {Range(a[i].frames) : i \in DOMAIN a}

\* What holds of each space by itself.
SpaceOK(a, n, p, st) ==
    /\ a \in Seq(Area) /\ AreasDisjoint(a) /\ Matches(a, p)
    /\ n \in [DOMAIN n -> Frame] /\ IsInjective(n)
    /\ FramesOf(a) \cap Range(n) = {}
    /\ p \in [Page -> PageEntry]
    /\ st = "none" => a = <<>> /\ n = <<>>
    /\ st = "zombie" => a = <<>>
    /\ st = "live" => Path({v \in Page : p[v] # Invalid}) \subseteq DOMAIN n

\* How a behaviour can end: never by the assert of PageTable::unmap.
Halts == {"no", "oom", "fault", "range", "corrupt"}

\* Areas that overlap would hold one frame twice after fork, so ownership of frames
\* needs the disjointness of areas, which needs that their pages are mapped (Matches):
\* sys_mmap only looks at the page table.
IInv ==
    /\ free \subseteq Frame /\ mem \in [Frame -> Content]
    /\ state \in [Space -> {"none", "live", "zombie"}]
    /\ areas = [s \in Space |-> areas[s]] /\ nodes = [s \in Space |-> nodes[s]]
    /\ pte = [s \in Space |-> pte[s]]
    /\ trap_cx_ppn \in [Space -> Frame \cup {Invalid}]
    /\ halt \in Halts
    /\ \A s \in Space : SpaceOK(areas[s], nodes[s], pte[s], state[s])
    /\ Frame = free \cup UNION {Held(s) : s \in Space}
    /\ \A s \in Space : free \cap Held(s) = {}
    /\ \A s, t \in Space : s # t => Held(s) \cap Held(t) = {}

LEMMA HeldFacts ==
    ASSUME NEW s
    PROVE  AreaFrames(s) = FramesOf(areas[s]) /\ Held(s) = FramesOf(areas[s]) \cup Range(nodes[s])
BY DEF AreaFrames, FramesOf, Held

\* The invariant says what the runs check.
LEMMA IInvImplies == IInv => TypeOK /\ FramesOwnedOnce /\ AreasBacked
<1> SUFFICES ASSUME IInv PROVE TypeOK /\ FramesOwnedOnce /\ AreasBacked OBVIOUS
<1>1. ASSUME NEW s \in Space
      PROVE  /\ areas[s] \in Seq(Area) /\ AreasDisjoint(areas[s]) /\ Matches(areas[s], pte[s])
             /\ nodes[s] \in [DOMAIN nodes[s] -> Frame] /\ IsInjective(nodes[s])
             /\ FramesOf(areas[s]) \cap Range(nodes[s]) = {}
             /\ pte[s] \in [Page -> PageEntry]
             /\ state[s] = "live" =>
                    Path({v \in Page : pte[s][v] # Invalid}) \subseteq DOMAIN nodes[s]
  BY DEF IInv, SpaceOK
<1>2. TypeOK
  <2>1. ASSUME NEW s \in Space, NEW i \in DOMAIN areas[s]
        PROVE  /\ areas[s][i].start \in Page /\ areas[s][i].end \in 0..NPages
               /\ areas[s][i].frames \in [Span(areas[s][i]) -> Frame]
    <3>1. areas[s][i] \in Area
      BY <1>1
    <3> QED BY <1>1, <3>1, Zenon DEF Area, AreasDisjoint
  <2>2. pte \in [Space -> [Page -> PageEntry]]
    BY <1>1 DEF IInv
  <2> QED BY <1>1, <2>1, <2>2 DEF IInv, TypeOK, PageEntry, Halts
<1>3. FramesOwnedOnce
  <2>1. ASSUME NEW s \in Space
        PROVE  /\ AreaFrames(s) \cap Range(nodes[s]) = {} /\ IsInjective(nodes[s])
               /\ \A i, j \in DOMAIN areas[s] :
                    /\ IsInjective(areas[s][i].frames)
                    /\ i # j => Range(areas[s][i].frames) \cap Range(areas[s][j].frames) = {}
    BY <1>1, HeldFacts, Zenon DEF AreasDisjoint
  <2>2. /\ Frame = free \cup UNION {Held(s) : s \in Space}
        /\ \A s \in Space : free \cap Held(s) = {}
        /\ \A s, t \in Space : s # t => Held(s) \cap Held(t) = {}
    BY DEF IInv
  <2> QED BY <2>1, <2>2, Zenon DEF FramesOwnedOnce
<1>4. AreasBacked
  BY <1>1 DEF IInv, AreasBacked, AreasDisjoint, Matches, Halts
<1> QED BY <1>2, <1>3, <1>4

LEMMA ConstantFacts ==
    /\ NPages \in Nat /\ NPages >= 8
    /\ TRAP_CONTEXT \in Page /\ TRAMPOLINE \in Page /\ TRAP_CONTEXT # TRAMPOLINE
    /\ \A r \in Ranges : r[1] \in Page /\ r[2] \in 0..NPages
    /\ Invalid \notin Frame /\ Invalid # TrampolineFrame
<1>1. Fanout \in Nat /\ Fanout >= 2
  BY MemorySetAssumption
<1>2. Fanout * Fanout \in Nat /\ Fanout * Fanout >= 2 * Fanout
  BY <1>1
<1>3. \A x \in Nat : x >= 4 => x * Fanout \in Nat /\ x * Fanout >= 4 * Fanout
  BY <1>1
<1>4. NPages \in Nat /\ NPages >= 8
  BY <1>1, <1>2, <1>3 DEF NPages
<1>5. TRAP_CONTEXT \in Page /\ TRAMPOLINE \in Page /\ TRAP_CONTEXT # TRAMPOLINE
  BY <1>4 DEF TRAP_CONTEXT, TRAMPOLINE, Page
<1> QED BY <1>4, <1>5, MemorySetAssumption

LEMMA AllocFacts ==
    ASSUME NEW I, NEW F, NEW f \in Alloc(I, F)
    PROVE  f \in [I -> F] /\ DOMAIN f = I /\ IsInjective(f) /\ Range(f) \subseteq F
<1>1. f = [x \in I |-> f[x]] /\ Range(f) \subseteq F /\ IsInjective(f)
  BY DEF Alloc
<1>2. DOMAIN f = I
  BY <1>1
<1>3. \A x \in I : f[x] \in F
  BY <1>1, <1>2 DEF Range
<1> QED BY <1>1, <1>2, <1>3
LEMMA InitIInv == Init => IInv
<1> SUFFICES ASSUME Init PROVE IInv OBVIOUS
<1>1. \A s \in Space : FramesOf(areas[s]) = {} /\ Range(nodes[s]) = {} /\ Held(s) = {}
  BY DEF Init, FramesOf, Range, Held, AreaFrames
<1>2. ASSUME NEW s \in Space PROVE SpaceOK(areas[s], nodes[s], pte[s], state[s])
  <2>1. areas[s] = <<>> /\ nodes[s] = <<>> /\ state[s] = "none"
        /\ pte[s] = [v \in Page |-> Invalid]
    BY DEF Init
  <2>2. <<>> \in Seq(Area) /\ AreasDisjoint(<<>>) /\ Matches(<<>>, pte[s])
    BY DEF AreasDisjoint, Matches
  <2>3. <<>> \in [DOMAIN <<>> -> Frame] /\ IsInjective(<<>>)
    BY DEF IsInjective
  <2>4. pte[s] \in [Page -> PageEntry]
    BY <2>1 DEF PageEntry
  <2> QED BY <1>1, <2>1, <2>2, <2>3, <2>4 DEF SpaceOK
<1>3. UNION {Held(s) : s \in Space} = {}
  BY <1>1
<1>4. mem \in [Frame -> Content]
  BY DEF Init, Content
<1> QED BY <1>1, <1>2, <1>3, <1>4 DEF Init, IInv, Halts

\* The step touches no address space but s.
OnlySpace(s) ==
    /\ areas' = [areas EXCEPT ![s] = areas'[s]]
    /\ nodes' = [nodes EXCEPT ![s] = nodes'[s]]
    /\ pte' = [pte EXCEPT ![s] = pte'[s]]
    /\ state' = [state EXCEPT ![s] = state'[s]]

\* A step of one space keeps the invariant if the space is in order afterwards and
\* exchanges frames only with the allocator.
LEMMA SpaceStep ==
    ASSUME IInv, NEW s \in Space, OnlySpace(s),
           SpaceOK(areas'[s], nodes'[s], pte'[s], state'[s]),
           state'[s] \in {"none", "live", "zombie"},
           free' \cup Held(s)' = free \cup Held(s), free' \cap Held(s)' = {},
           mem' \in [Frame -> Content], trap_cx_ppn' \in [Space -> Frame \cup {Invalid}],
           halt' \in Halts
    PROVE  IInv'
<1>1. \A t \in Space : t # s =>
        areas'[t] = areas[t] /\ nodes'[t] = nodes[t] /\ pte'[t] = pte[t] /\ state'[t] = state[t]
  BY DEF IInv, OnlySpace
<1>2. /\ areas' = [t \in Space |-> areas'[t]] /\ nodes' = [t \in Space |-> nodes'[t]]
      /\ pte' = [t \in Space |-> pte'[t]]
  BY DEF IInv, OnlySpace
<1>3. state' \in [Space -> {"none", "live", "zombie"}]
  BY DEF IInv, OnlySpace
<1>4. \A t \in Space : t # s => Held(t)' = Held(t)
  BY <1>1 DEF Held, AreaFrames
<1>5. \A t \in Space : SpaceOK(areas'[t], nodes'[t], pte'[t], state'[t])
  BY <1>1 DEF IInv
<1>6. /\ Frame = free \cup UNION {Held(t) : t \in Space}
      /\ \A t \in Space : free \cap Held(t) = {}
      /\ \A t, u \in Space : t # u => Held(t) \cap Held(u) = {}
  BY DEF IInv
<1>7. free' \subseteq Frame
  BY <1>6
<1>8. Frame = free' \cup UNION {Held(t)' : t \in Space}
  <2>1. ASSUME NEW h \in Frame PROVE h \in free' \/ \E t \in Space : h \in Held(t)'
    <3>1. CASE h \in free \cup Held(s)
      BY <3>1
    <3>2. CASE \E t \in Space : t # s /\ h \in Held(t)
      BY <1>4, <3>2
    <3> QED BY <1>6, <3>1, <3>2
  <2>2. ASSUME NEW t \in Space PROVE Held(t)' \subseteq Frame
    <3>1. CASE t = s
      BY <1>6, <3>1
    <3>2. CASE t # s
      BY <1>4, <1>6, <3>2
    <3> QED BY <3>1, <3>2
  <2> QED BY <1>7, <2>1, <2>2
<1>9. \A t \in Space : free' \cap Held(t)' = {}
  BY <1>4, <1>6
<1>10. \A t, u \in Space : t # u => Held(t)' \cap Held(u)' = {}
  <2> SUFFICES ASSUME NEW t \in Space, NEW u \in Space, t # u, NEW h,
                      h \in Held(t)', h \in Held(u)'
               PROVE  FALSE
    OBVIOUS
  <2>1. \A w \in Space :
            h \in Held(w)' => (w # s /\ h \in Held(w)) \/ (w = s /\ h \in free \cup Held(s))
    BY <1>4
  <2> QED BY <1>6, <2>1
<1> QED
  BY <1>2, <1>3, <1>5, <1>7, <1>8, <1>9, <1>10 DEF IInv

\* The areas and the page table that from_elf and from_existed_user build on disjoint
\* ranges, out of frames f for the pages and g for the table pages.
LEMMA BuildFacts ==
    ASSUME NEW F \in SUBSET Frame, NEW ranges, NEW n \in Nat, DOMAIN ranges = 1..n,
           \A i \in 1..n : ranges[i].start \in Page /\ ranges[i].end \in 0..NPages,
           \A i, j \in 1..n : i # j => Span(ranges[i]) \cap Span(ranges[j]) = {},
           NEW f \in Alloc(Pages(ranges), F)
    PROVE  /\ Build(ranges, f) \in Seq(Area) /\ AreasDisjoint(Build(ranges, f))
           /\ FramesOf(Build(ranges, f)) = Range(f)
           /\ \A p : (\A v \in Pages(ranges) : p[v] = f[v]) => Matches(Build(ranges, f), p)
<1> DEFINE B == Build(ranges, f)
<1>1. /\ f \in [Pages(ranges) -> F] /\ DOMAIN f = Pages(ranges) /\ IsInjective(f)
  BY AllocFacts
<1>2. \A i \in 1..n : Span(ranges[i]) \subseteq Pages(ranges)
  BY DEF Pages
<1>3. \A i \in 1..n : Span(ranges[i]) \subseteq Page
  BY ConstantFacts DEF Span, Page
<1>4. /\ DOMAIN B = 1..n
      /\ \A i \in 1..n : B[i] = [start |-> ranges[i].start, end |-> ranges[i].end,
                                 frames |-> [v \in Span(ranges[i]) |-> f[v]]]
  BY DEF Build, Restrict
<1> HIDE DEF B
<1>5. \A i \in 1..n : /\ Span(B[i]) = Span(ranges[i])
                      /\ B[i].start = ranges[i].start /\ B[i].end = ranges[i].end
                      /\ B[i].frames = [v \in Span(ranges[i]) |-> f[v]]
  <2> TAKE i \in 1..n
  <2> DEFINE fr == [v \in Span(ranges[i]) |-> f[v]]
  <2>1. B[i] = [start |-> ranges[i].start, end |-> ranges[i].end, frames |-> fr]
    BY <1>4
  <2> HIDE DEF fr
  <2>2. B[i].start = ranges[i].start /\ B[i].end = ranges[i].end /\ B[i].frames = fr
    BY <2>1
  <2>3. Span(B[i]) = Span(ranges[i])
    BY <2>2 DEF Span
  <2> QED BY <2>2, <2>3 DEF fr
<1>6. \A i \in 1..n : B[i].frames \in [Span(ranges[i]) -> Frame]
  <2>1. \A v \in Pages(ranges) : f[v] \in Frame
    BY <1>1
  <2>2. ASSUME NEW i \in 1..n PROVE B[i].frames \in [Span(ranges[i]) -> Frame]
    <3>1. B[i].frames = [v \in Span(ranges[i]) |-> f[v]] /\ Span(ranges[i]) \subseteq Pages(ranges)
      BY <1>2, <1>5
    <3> QED BY <2>1, <3>1
  <2> QED BY <2>2
<1>7. ASSUME NEW i \in 1..n PROVE B[i] \in Area
  <2>1. B[i].frames \in UNION {[V -> Frame] : V \in SUBSET Page}
    BY <1>3, <1>6
  <2>2. [start |-> ranges[i].start, end |-> ranges[i].end, frames |-> B[i].frames] \in Area
    BY <2>1 DEF Area
  <2> QED BY <1>4, <1>5, <2>2
<1>8. B \in Seq(Area)
  <2>1. B = [i \in 1..n |-> B[i]]
    BY DEF B, Build
  <2> QED BY <1>7, <2>1
<1>9. \A i \in 1..n : \A v \in Span(ranges[i]) : B[i].frames[v] = f[v]
  BY <1>5, Zenon
<1>10. \A i \in 1..n : IsInjective(B[i].frames)
  <2> TAKE i \in 1..n
  <2>1. DOMAIN B[i].frames = Span(ranges[i])
    BY <1>6
  <2> QED BY <1>1, <1>2, <1>9, <2>1 DEF IsInjective
<1>11. \A i \in 1..n : Range(B[i].frames) = {f[v] : v \in Span(ranges[i])}
  <2> TAKE i \in 1..n
  <2>1. DOMAIN B[i].frames = Span(ranges[i])
    BY <1>6
  <2> QED BY <1>9, <2>1 DEF Range
<1>12. \A i, j \in 1..n : i # j => Range(B[i].frames) \cap Range(B[j].frames) = {}
  BY <1>1, <1>2, <1>11 DEF IsInjective
<1>13. AreasDisjoint(B)
  BY <1>4, <1>5, <1>6, <1>10, <1>12, Zenon DEF AreasDisjoint
<1>14. FramesOf(B) = Range(f)
  <2>1. \A h \in FramesOf(B) : h \in Range(f)
    BY <1>1, <1>2, <1>4, <1>11 DEF FramesOf, Range
  <2>2. ASSUME NEW v \in Pages(ranges) PROVE f[v] \in FramesOf(B)
    <3>1. PICK i \in 1..n : v \in Span(ranges[i])
      BY DEF Pages
    <3>2. f[v] \in Range(B[i].frames)
      BY <1>11, <3>1, Zenon
    <3> QED BY <1>4, <3>2 DEF FramesOf
  <2> QED BY <1>1, <2>1, <2>2 DEF Range
<1>15. ASSUME NEW p, \A v \in Pages(ranges) : p[v] = f[v] PROVE Matches(B, p)
  BY <1>2, <1>4, <1>5, <1>9, <1>15 DEF Matches
<1> QED
  BY <1>8, <1>13, <1>14, <1>15 DEF B
\* What a space in the state "live" has to satisfy.
LEMMA LiveOK ==
    ASSUME NEW a \in Seq(Area), NEW n, n \in [DOMAIN n -> Frame], NEW p \in [Page -> PageEntry],
           AreasDisjoint(a), Matches(a, p), IsInjective(n), FramesOf(a) \cap Range(n) = {},
           Path({v \in Page : p[v] # Invalid}) \subseteq DOMAIN n
    PROVE  SpaceOK(a, n, p, "live")
BY DEF SpaceOK

LEMMA PathMonotone ==
    ASSUME NEW V, NEW W, V \subseteq W
    PROVE  Path(V) \subseteq Path(W)
BY DEF Path

\* A fresh page table and areas, out of frames the allocator had, leave the space in
\* order and holding those frames.
LEMMA InstallFacts ==
    ASSUME IInv, NEW s \in Space, NEW ranges, NEW n \in Nat, DOMAIN ranges = 1..n,
           \A i \in 1..n : ranges[i].start \in Page /\ ranges[i].end \in 0..NPages,
           \A i, j \in 1..n : i # j => Span(ranges[i]) \cap Span(ranges[j]) = {},
           NEW f \in Alloc(Pages(ranges), free),
           NEW g \in Alloc(Path(Pages(ranges) \cup {TRAMPOLINE}), free \ Range(f)),
           Install(s, ranges, f, g)
    PROVE  /\ OnlySpace(s) /\ state'[s] = "live"
           /\ SpaceOK(areas'[s], nodes'[s], pte'[s], state'[s])
           /\ Held(s)' = Range(f) \cup Range(g)
           /\ Range(f) \subseteq free /\ Range(g) \subseteq free
           /\ pte'[s][TRAP_CONTEXT] \in Frame \cup {Invalid}
<1>1. free \subseteq Frame
  BY DEF IInv
<1>2. /\ f \in [Pages(ranges) -> free] /\ DOMAIN f = Pages(ranges) /\ Range(f) \subseteq free
      /\ g \in [Path(Pages(ranges) \cup {TRAMPOLINE}) -> free \ Range(f)] /\ IsInjective(g)
      /\ DOMAIN g = Path(Pages(ranges) \cup {TRAMPOLINE}) /\ Range(g) \subseteq free \ Range(f)
  BY AllocFacts, Zenon
<1>3. /\ areas'[s] = Build(ranges, f) /\ nodes'[s] = g /\ state'[s] = "live"
      /\ pte'[s] = [v \in Page |-> IF v \in DOMAIN f THEN f[v]
                                   ELSE IF v = TRAMPOLINE THEN TrampolineFrame ELSE Invalid]
  BY DEF Install, IInv
<1>4. OnlySpace(s)
  BY <1>3, Zenon DEF Install, OnlySpace
<1>5. /\ Build(ranges, f) \in Seq(Area) /\ AreasDisjoint(Build(ranges, f))
      /\ FramesOf(Build(ranges, f)) = Range(f)
      /\ \A p : (\A v \in Pages(ranges) : p[v] = f[v]) => Matches(Build(ranges, f), p)
  BY <1>1, BuildFacts, Zenon
<1>6. Pages(ranges) \subseteq Page
  BY ConstantFacts DEF Pages, Span, Page
<1>7. Matches(Build(ranges, f), pte'[s])
  <2>1. \A v \in Pages(ranges) : pte'[s][v] = f[v]
    BY <1>2, <1>3, <1>6
  <2> QED BY <1>5, <2>1
<1>8. pte'[s] \in [Page -> PageEntry]
  BY <1>1, <1>2, <1>3 DEF PageEntry
<1>9. Path({v \in Page : pte'[s][v] # Invalid}) \subseteq DOMAIN g
  <2>1. {v \in Page : pte'[s][v] # Invalid} \subseteq Pages(ranges) \cup {TRAMPOLINE}
    BY <1>2, <1>3
  <2> QED BY <1>2, <2>1, PathMonotone
<1>10. g \in [DOMAIN g -> Frame]
  BY <1>1, <1>2
<1>11. SpaceOK(areas'[s], nodes'[s], pte'[s], state'[s])
  <2>1. FramesOf(Build(ranges, f)) \cap Range(g) = {}
    BY <1>2, <1>5
  <2>2. SpaceOK(Build(ranges, f), g, pte'[s], "live")
    BY <1>2, <1>5, <1>7, <1>8, <1>9, <1>10, <2>1, LiveOK, Zenon
  <2> QED BY <1>3, <2>2, Zenon
<1>12. Held(s)' = Range(f) \cup Range(g)
  BY <1>3, <1>5 DEF Held, AreaFrames, FramesOf
<1>13. pte'[s][TRAP_CONTEXT] \in Frame \cup {Invalid}
  BY <1>1, <1>2, <1>3, ConstantFacts
<1> QED BY <1>2, <1>3, <1>4, <1>11, <1>12, <1>13

LEMMA FillType ==
    ASSUME IInv, NEW f, NEW content, \A v \in DOMAIN f : content[v] \in Content
    PROVE  Fill(f, content) \in [Frame -> Content]
<1>1. \A h : h \in Range(f) => (CHOOSE v \in DOMAIN f : f[v] = h) \in DOMAIN f
  BY DEF Range
<1>2. mem \in [Frame -> Content]
  BY DEF IInv
<1>3. ASSUME NEW h \in Frame
      PROVE  (IF h \in Range(f) THEN content[CHOOSE v \in DOMAIN f : f[v] = h] ELSE mem[h]) \in Content
  BY <1>1, <1>2
<1> QED BY <1>3 DEF Fill

LEMMA FreedType ==
    ASSUME NEW m \in [Frame -> Content], NEW gone
    PROVE  Freed(m, gone) \in [Frame -> Content]
BY DEF Freed, Content

LEMMA LayoutFacts ==
    ASSUME NEW k \in ElfPages
    PROVE  /\ DOMAIN Layout(k) = 1..3 /\ TRAP_CONTEXT \in Pages(Layout(k))
           /\ \A i \in 1..3 : Layout(k)[i].start \in Page /\ Layout(k)[i].end \in 0..NPages
           /\ \A i, j \in 1..3 : i # j => Span(Layout(k)[i]) \cap Span(Layout(k)[j]) = {}
<1>1. /\ k \in Nat /\ StackPages \in Nat /\ k + 1 + StackPages <= TRAP_CONTEXT
      /\ NPages \in Nat /\ NPages >= 8 /\ TRAP_CONTEXT = NPages - 2 /\ TRAMPOLINE = NPages - 1
  BY ConstantFacts, MemorySetAssumption DEF TRAP_CONTEXT, TRAMPOLINE
<1>2. /\ DOMAIN Layout(k) = 1..3
      /\ Layout(k)[1] = [start |-> 0, end |-> k]
      /\ Layout(k)[2] = [start |-> k + 1, end |-> k + 1 + StackPages]
      /\ Layout(k)[3] = [start |-> TRAP_CONTEXT, end |-> TRAMPOLINE]
  BY DEF Layout
<1>3. /\ Layout(k)[1].start = 0 /\ Layout(k)[1].end = k
      /\ Layout(k)[2].start = k + 1 /\ Layout(k)[2].end = k + 1 + StackPages
      /\ Layout(k)[3].start = TRAP_CONTEXT /\ Layout(k)[3].end = TRAMPOLINE
  BY <1>2
<1>4. \A i \in 1..3 : i = 1 \/ i = 2 \/ i = 3
  OBVIOUS
<1>5. \A i \in 1..3 : Layout(k)[i].start \in Page /\ Layout(k)[i].end \in 0..NPages
  BY <1>1, <1>3, <1>4 DEF Page
<1>6. /\ Span(Layout(k)[1]) = 0..(k - 1)
      /\ Span(Layout(k)[2]) = (k + 1)..(k + 1 + StackPages - 1)
      /\ Span(Layout(k)[3]) = TRAP_CONTEXT..(TRAMPOLINE - 1)
  <2>1. Span(Layout(k)[1]) = 0..(k - 1)
    BY <1>1, <1>3 DEF Span
  <2>2. Span(Layout(k)[2]) = (k + 1)..(k + 1 + StackPages - 1)
    BY <1>1, <1>3 DEF Span
  <2>3. Span(Layout(k)[3]) = TRAP_CONTEXT..(TRAMPOLINE - 1)
    BY <1>1, <1>3 DEF Span
  <2> QED BY <2>1, <2>2, <2>3
<1>7. /\ Span(Layout(k)[1]) \cap Span(Layout(k)[2]) = {}
      /\ Span(Layout(k)[1]) \cap Span(Layout(k)[3]) = {}
      /\ Span(Layout(k)[2]) \cap Span(Layout(k)[3]) = {}
  BY <1>1, <1>6
<1>8. \A i, j \in 1..3 : i # j => Span(Layout(k)[i]) \cap Span(Layout(k)[j]) = {}
  BY <1>4, <1>7
<1>9. TRAP_CONTEXT \in Span(Layout(k)[3])
  BY <1>1, <1>6
<1> QED BY <1>2, <1>5, <1>8, <1>9 DEF Pages

\* A step that leaves areas, page tables and the allocator alone.
LEMMA MemStep ==
    ASSUME IInv, UNCHANGED <<free, state, areas, nodes, pte>>, mem' \in [Frame -> Content],
           trap_cx_ppn' \in [Space -> Frame \cup {Invalid}], halt' \in Halts
    PROVE  IInv'
<1>1. \A t \in Space : Held(t)' = Held(t)
  BY DEF Held, AreaFrames
<1>2. \A t \in Space : SpaceOK(areas'[t], nodes'[t], pte'[t], state'[t])
  BY DEF IInv
<1>3. Frame = free' \cup UNION {Held(t)' : t \in Space}
  BY <1>1 DEF IInv
<1>4. /\ \A t \in Space : free' \cap Held(t)' = {}
      /\ \A t, u \in Space : t # u => Held(t)' \cap Held(u)' = {}
  BY <1>1 DEF IInv
<1>5. /\ areas' = [t \in Space |-> areas'[t]] /\ nodes' = [t \in Space |-> nodes'[t]]
      /\ pte' = [t \in Space |-> pte'[t]]
      /\ free' \subseteq Frame /\ state' \in [Space -> {"none", "live", "zombie"}]
  BY DEF IInv
<1> QED BY <1>2, <1>3, <1>4, <1>5 DEF IInv

\* A stop changes nothing but halt.
LEMMA StopIInv ==
    ASSUME IInv, NEW why \in Halts, Stop(why)
    PROVE  IInv'
<1>1. /\ UNCHANGED <<free, state, areas, nodes, pte>> /\ mem' \in [Frame -> Content]
      /\ trap_cx_ppn' \in [Space -> Frame \cup {Invalid}] /\ halt' \in Halts
  BY DEF Stop, IInv
<1> QED BY <1>1, MemStep

LEMMA OomIInv ==
    ASSUME IInv, Oom
    PROVE  IInv'
<1>1. "oom" \in Halts
  BY DEF Halts
<1> QED BY <1>1, StopIInv DEF Oom

LEMMA LoadIInv ==
    ASSUME IInv, NEW s \in Space, NEW k \in ElfPages, halt = "no", Load(s, k)
    PROVE  IInv'
<1> DEFINE ranges == Layout(k)
           P == Pages(ranges)
           N == Path(P \cup {TRAMPOLINE})
           content == [v \in P |-> IF v < k THEN Image ELSE IF v = TRAP_CONTEXT THEN s ELSE Zero]
<1>1. CASE Oom
  BY <1>1, OomIInv
<1>2. ASSUME NEW f \in Alloc(P, free), NEW g \in Alloc(N, free \ Range(f)),
             Install(s, ranges, f, g),
             mem' = Freed(Fill(f, content), Held(s)),
             trap_cx_ppn' = [trap_cx_ppn EXCEPT ![s] = f[TRAP_CONTEXT]],
             free' = (free \ (Range(f) \cup Range(g))) \cup Held(s),
             UNCHANGED halt
      PROVE  IInv'
  <2>1. f \in [P -> free] /\ DOMAIN f = P
    BY AllocFacts
  <2>2. \A v \in DOMAIN f : content[v] \in Content
    BY <2>1 DEF Content
  <2>3. mem' \in [Frame -> Content]
    <3> HIDE DEF content
    <3> QED BY <1>2, <2>2, FillType, FreedType
  <2>4. trap_cx_ppn' \in [Space -> Frame \cup {Invalid}]
    <3>1. f[TRAP_CONTEXT] \in Frame
      BY <2>1, LayoutFacts DEF IInv
    <3> QED BY <1>2, <3>1 DEF IInv
  <2>5. /\ OnlySpace(s) /\ state'[s] = "live"
        /\ SpaceOK(areas'[s], nodes'[s], pte'[s], state'[s])
        /\ Held(s)' = Range(f) \cup Range(g)
        /\ Range(f) \subseteq free /\ Range(g) \subseteq free
    <3>1. 3 \in Nat
      OBVIOUS
    <3> HIDE DEF ranges
    <3>2. /\ DOMAIN ranges = 1..3
          /\ \A i \in 1..3 : ranges[i].start \in Page /\ ranges[i].end \in 0..NPages
          /\ \A i, j \in 1..3 : i # j => Span(ranges[i]) \cap Span(ranges[j]) = {}
      BY LayoutFacts DEF ranges
    <3> QED BY <1>2, <3>1, <3>2, InstallFacts, Zenon
  <2>6. free \cap Held(s) = {}
    BY DEF IInv
  <2>7. free' \cup Held(s)' = free \cup Held(s) /\ free' \cap Held(s)' = {}
    BY <1>2, <2>5, <2>6
  <2>8. halt' \in Halts
    BY <1>2 DEF Halts
  <2> QED BY <2>3, <2>4, <2>5, <2>7, <2>8, SpaceStep
<1> QED BY <1>1, <1>2, Zenon DEF Load
LEMMA SpaceFacts ==
    ASSUME IInv, NEW s \in Space
    PROVE  /\ areas[s] \in Seq(Area) /\ AreasDisjoint(areas[s]) /\ Matches(areas[s], pte[s])
           /\ nodes[s] \in [DOMAIN nodes[s] -> Frame] /\ IsInjective(nodes[s])
           /\ FramesOf(areas[s]) \cap Range(nodes[s]) = {}
           /\ pte[s] \in [Page -> PageEntry]
           /\ Len(areas[s]) \in Nat /\ DOMAIN areas[s] = 1..Len(areas[s])
           /\ \A i \in DOMAIN areas[s] :
                 /\ areas[s][i].start \in Page /\ areas[s][i].end \in 0..NPages
                 /\ Span(areas[s][i]) \subseteq Page
           /\ state[s] = "live" => Path({v \in Page : pte[s][v] # Invalid}) \subseteq DOMAIN nodes[s]
           /\ state[s] = "none" => areas[s] = <<>> /\ nodes[s] = <<>>
           /\ free \cap Held(s) = {} /\ free \subseteq Frame
           /\ Held(s) = FramesOf(areas[s]) \cup Range(nodes[s])
<1>1. SpaceOK(areas[s], nodes[s], pte[s], state[s]) /\ free \cap Held(s) = {} /\ free \subseteq Frame
  BY DEF IInv
<1>2. /\ areas[s] \in Seq(Area) /\ AreasDisjoint(areas[s]) /\ Matches(areas[s], pte[s])
      /\ nodes[s] \in [DOMAIN nodes[s] -> Frame] /\ IsInjective(nodes[s])
      /\ FramesOf(areas[s]) \cap Range(nodes[s]) = {}
      /\ pte[s] \in [Page -> PageEntry]
      /\ state[s] = "live" => Path({v \in Page : pte[s][v] # Invalid}) \subseteq DOMAIN nodes[s]
      /\ state[s] = "none" => areas[s] = <<>> /\ nodes[s] = <<>>
  BY <1>1, Zenon DEF SpaceOK
<1>3. Len(areas[s]) \in Nat /\ DOMAIN areas[s] = 1..Len(areas[s])
  BY <1>2
<1>4. ASSUME NEW i \in DOMAIN areas[s]
      PROVE  /\ areas[s][i].start \in Page /\ areas[s][i].end \in 0..NPages
             /\ Span(areas[s][i]) \subseteq Page
  <2>1. areas[s][i] \in Area
    BY <1>2
  <2>2. areas[s][i].start \in Page /\ areas[s][i].end \in 0..NPages
    BY <2>1 DEF Area
  <2> QED BY <2>2, ConstantFacts DEF Span, Page
<1> QED BY <1>1, <1>2, <1>3, <1>4, HeldFacts, Zenon

LEMMA ForkIInv ==
    ASSUME IInv, NEW p \in Space, NEW c \in Space, Fork(p, c)
    PROVE  IInv'
<1>1. halt = "no" /\ state[p] = "live" /\ state[c] = "none"
  BY DEF Fork
<1>2. CASE Oom
  BY <1>2, OomIInv
<1>3. ASSUME NEW f \in Alloc(Mapped(p), free),
             NEW g \in Alloc(Path(Mapped(p) \cup {TRAMPOLINE}), free \ Range(f)),
             Install(c, areas[p], f, g),
             mem' = Fill(f, Copied(p, c)),
             trap_cx_ppn' = [trap_cx_ppn EXCEPT ![c] = pte'[c][TRAP_CONTEXT]],
             free' = free \ (Range(f) \cup Range(g)),
             UNCHANGED halt
      PROVE  IInv'
  <2> DEFINE r == areas[p]
             n == Len(areas[p])
  <2>1. Mapped(p) = Pages(r)
    BY DEF Mapped, Pages
  <2>2. /\ n \in Nat /\ DOMAIN r = 1..n
        /\ \A i \in 1..n : r[i].start \in Page /\ r[i].end \in 0..NPages
        /\ \A i, j \in 1..n : i # j => Span(r[i]) \cap Span(r[j]) = {}
    <3>1. AreasDisjoint(r) /\ n \in Nat /\ DOMAIN r = 1..n
      BY SpaceFacts
    <3>2. \A i \in DOMAIN r : r[i].start \in Page /\ r[i].end \in 0..NPages
      BY SpaceFacts, Zenon
    <3> HIDE DEF r, n
    <3> QED BY <3>1, <3>2 DEF AreasDisjoint
  <2>3. /\ f \in Alloc(Pages(r), free)
        /\ g \in Alloc(Path(Pages(r) \cup {TRAMPOLINE}), free \ Range(f))
        /\ Install(c, r, f, g)
    BY <1>3, <2>1
  <2> HIDE DEF r, n
  <2>4. /\ OnlySpace(c) /\ state'[c] = "live"
        /\ SpaceOK(areas'[c], nodes'[c], pte'[c], state'[c])
        /\ Held(c)' = Range(f) \cup Range(g)
        /\ Range(f) \subseteq free /\ Range(g) \subseteq free
        /\ pte'[c][TRAP_CONTEXT] \in Frame \cup {Invalid}
    BY <2>2, <2>3, InstallFacts, Zenon
  <2>5. Held(c) = {}
    <3>1. areas[c] = <<>> /\ nodes[c] = <<>> /\ Held(c) = FramesOf(areas[c]) \cup Range(nodes[c])
      BY <1>1, SpaceFacts, Zenon
    <3>2. FramesOf(<<>>) = {} /\ Range(<<>>) = {}
      BY DEF FramesOf, Range
    <3> QED BY <3>1, <3>2
  <2>6. free' \cup Held(c)' = free \cup Held(c) /\ free' \cap Held(c)' = {}
    BY <1>3, <2>4, <2>5, Zenon
  <2>7. trap_cx_ppn' \in [Space -> Frame \cup {Invalid}]
    BY <1>3, <2>4 DEF IInv
  <2>8. mem' \in [Frame -> Content]
    <3>1. ASSUME NEW v \in Mapped(p) PROVE pte[p][v] \in Frame
      <4>1. PICK i \in DOMAIN areas[p] : v \in Span(areas[p][i])
        BY DEF Mapped
      <4>2. areas[p][i].frames \in [Span(areas[p][i]) -> Frame] /\ pte[p][v] = areas[p][i].frames[v]
        <5>1. AreasDisjoint(areas[p]) /\ Matches(areas[p], pte[p])
          BY SpaceFacts, Zenon
        <5> QED BY <4>1, <5>1, Zenon DEF AreasDisjoint, Matches
      <4> QED BY <4>1, <4>2
    <3>2. \A v \in Mapped(p) : Copied(p, c)[v] \in Content
      BY <3>1 DEF Copied, Content, IInv
    <3>3. DOMAIN f = Mapped(p)
      BY <1>3, AllocFacts
    <3> QED BY <1>3, <3>2, <3>3, FillType
  <2>9. halt' \in Halts
    BY <1>1, <1>3 DEF Halts
  <2> QED BY <2>4, <2>6, <2>7, <2>8, <2>9, SpaceStep
<1> QED BY <1>2, <1>3, Zenon DEF Fork

LEMMA ExitIInv ==
    ASSUME IInv, NEW s \in Space, Exit(s)
    PROVE  IInv'
<1>1. /\ areas'[s] = <<>> /\ nodes' = nodes /\ pte' = pte /\ state'[s] = "zombie"
      /\ trap_cx_ppn' = trap_cx_ppn /\ halt' = halt
      /\ free' = free \cup AreaFrames(s) /\ mem' = Freed(mem, AreaFrames(s))
  BY DEF Exit, IInv
<1>2. OnlySpace(s)
  BY <1>1, Zenon DEF Exit, OnlySpace, IInv
<1>3. FramesOf(<<>>) = {} /\ <<>> \in Seq(Area) /\ AreasDisjoint(<<>>)
  BY DEF FramesOf, AreasDisjoint
<1>4. SpaceOK(areas'[s], nodes'[s], pte'[s], state'[s])
  <2>1. Matches(<<>>, pte[s])
    BY DEF Matches
  <2>2. FramesOf(<<>>) \cap Range(nodes[s]) = {}
    BY <1>3
  <2>3. SpaceOK(<<>>, nodes[s], pte[s], "zombie")
    BY <1>3, <2>1, <2>2, SpaceFacts, Zenon DEF SpaceOK
  <2> QED BY <1>1, <2>3
<1>5. Held(s)' = Range(nodes[s]) /\ AreaFrames(s) = FramesOf(areas[s])
  BY <1>1, <1>3 DEF Held, AreaFrames, FramesOf
<1>6. free' \cup Held(s)' = free \cup Held(s) /\ free' \cap Held(s)' = {}
  <2>1. /\ FramesOf(areas[s]) \cap Range(nodes[s]) = {} /\ free \cap Held(s) = {}
        /\ Held(s) = FramesOf(areas[s]) \cup Range(nodes[s])
    BY SpaceFacts, Zenon
  <2> QED BY <1>1, <1>5, <2>1
<1>7. mem' \in [Frame -> Content]
  BY <1>1, FreedType, Zenon DEF IInv
<1> QED BY <1>1, <1>2, <1>4, <1>6, <1>7, SpaceStep, Zenon DEF IInv

LEMMA ReapIInv ==
    ASSUME IInv, NEW s \in Space, Reap(s)
    PROVE  IInv'
<1>1. /\ areas'[s] = <<>> /\ nodes'[s] = <<>> /\ pte'[s] = [v \in Page |-> Invalid]
      /\ state'[s] = "none" /\ free' = free \cup Held(s) /\ UNCHANGED <<mem, halt>>
      /\ trap_cx_ppn' \in [Space -> Frame \cup {Invalid}]
  BY DEF Reap, IInv
<1>2. OnlySpace(s)
  BY <1>1, Zenon DEF Reap, OnlySpace
<1>3. /\ FramesOf(<<>>) = {} /\ Range(<<>>) = {} /\ <<>> \in Seq(Area) /\ AreasDisjoint(<<>>)
      /\ <<>> \in [DOMAIN <<>> -> Frame] /\ IsInjective(<<>>)
  <2>1. <<>> \in Seq(Area) /\ DOMAIN <<>> = {} /\ <<>> \in [DOMAIN <<>> -> Frame]
    OBVIOUS
  <2> QED BY <2>1, Zenon DEF FramesOf, AreasDisjoint, Range, IsInjective
<1>4. SpaceOK(areas'[s], nodes'[s], pte'[s], state'[s])
  <2>1. Matches(<<>>, pte'[s]) /\ pte'[s] \in [Page -> PageEntry]
    BY <1>1 DEF Matches, PageEntry
  <2>2. FramesOf(<<>>) \cap Range(<<>>) = {}
    BY <1>3
  <2>3. SpaceOK(<<>>, <<>>, pte'[s], "none")
    BY <1>3, <2>1, <2>2 DEF SpaceOK
  <2> QED BY <1>1, <2>3
<1>5. Held(s)' = {}
  BY <1>1, <1>3 DEF Held, AreaFrames, FramesOf
<1>6. free' \cup Held(s)' = free \cup Held(s) /\ free' \cap Held(s)' = {}
  BY <1>1, <1>5
<1>7. mem' \in [Frame -> Content] /\ halt' \in Halts
  BY <1>1 DEF IInv
<1> QED BY <1>1, <1>2, <1>4, <1>6, <1>7, SpaceStep, Zenon
\* push of an area whose pages and frames no other area has.
LEMMA AppendArea ==
    ASSUME NEW a \in Seq(Area), AreasDisjoint(a), NEW e \in Area,
           e.frames \in [Span(e) -> Frame], IsInjective(e.frames),
           Range(e.frames) \cap FramesOf(a) = {},
           \A i \in DOMAIN a : Span(a[i]) \cap Span(e) = {},
           NEW p, Matches(a, p), \A v \in Span(e) : p[v] = e.frames[v]
    PROVE  /\ Append(a, e) \in Seq(Area) /\ AreasDisjoint(Append(a, e))
           /\ Matches(Append(a, e), p)
           /\ FramesOf(Append(a, e)) = FramesOf(a) \cup Range(e.frames)
<1> DEFINE b == Append(a, e)
           n == Len(a)
<1>1. /\ b \in Seq(Area) /\ Len(b) = n + 1 /\ b[n + 1] = e
      /\ \A j \in 1..n : b[j] = a[j]
  OBVIOUS
<1>2. n \in Nat /\ DOMAIN a = 1..n /\ DOMAIN b = 1..(n + 1)
  BY <1>1
<1> HIDE DEF b, n
<1>3. \A j \in DOMAIN b : (j \in DOMAIN a /\ b[j] = a[j]) \/ (j = n + 1 /\ b[j] = e)
  BY <1>1, <1>2
<1>4. n + 1 \in DOMAIN b /\ b[n + 1] = e /\ (\A j \in DOMAIN a : j \in DOMAIN b /\ b[j] = a[j])
  BY <1>1, <1>2
<1>5. \A j \in DOMAIN a : Range(a[j].frames) \cap Range(e.frames) = {}
  BY DEF FramesOf
<1>6. AreasDisjoint(b)
  <2>1. \A i \in DOMAIN b : b[i].frames \in [Span(b[i]) -> Frame] /\ IsInjective(b[i].frames)
    BY <1>3 DEF AreasDisjoint
  <2>2. ASSUME NEW i \in DOMAIN b, NEW j \in DOMAIN b, i # j
        PROVE  Range(b[i].frames) \cap Range(b[j].frames) = {} /\ Span(b[i]) \cap Span(b[j]) = {}
    BY <1>3, <1>5, <2>2, Zenon DEF AreasDisjoint
  <2> QED BY <2>1, <2>2, Zenon DEF AreasDisjoint
<1>7. Matches(b, p)
  BY <1>3 DEF Matches
<1>8. FramesOf(b) = FramesOf(a) \cup Range(e.frames)
  BY <1>3, <1>4 DEF FramesOf
<1> QED BY <1>1, <1>6, <1>7, <1>8, Zenon DEF b

\* remove leaves the areas at the other places.
LEMMA RemoveLeaves ==
    ASSUME NEW a \in Seq(Area), NEW k \in DOMAIN a
    PROVE  /\ \A j \in DOMAIN remove(a, k) : \E i \in DOMAIN a : i # k /\ remove(a, k)[j] = a[i]
           /\ \A i \in DOMAIN a : i # k => \E j \in DOMAIN remove(a, k) : remove(a, k)[j] = a[i]
<1> DEFINE n == Len(a)
           b == remove(a, k)
<1>1. n \in Nat /\ DOMAIN a = 1..n /\ k \in 1..n
  OBVIOUS
<1>2. DOMAIN b = 1..(n - 1) /\ \A j \in 1..(n - 1) : b[j] = IF j < k THEN a[j] ELSE a[j + 1]
  BY <1>1 DEF remove
<1> HIDE DEF b, n
<1>3. ASSUME NEW j \in DOMAIN b PROVE \E i \in DOMAIN a : i # k /\ b[j] = a[i]
  <2>1. j \in DOMAIN a /\ j + 1 \in DOMAIN a /\ (j < k => j # k) /\ (~(j < k) => j + 1 # k)
    BY <1>1, <1>2
  <2> QED BY <1>2, <2>1
<1>4. ASSUME NEW i \in DOMAIN a, i # k PROVE \E j \in DOMAIN b : b[j] = a[i]
  <2>1. CASE i < k
    <3>1. i \in DOMAIN b
      BY <1>1, <1>2, <2>1
    <3> QED BY <1>2, <2>1, <3>1
  <2>2. CASE i > k
    <3>1. i - 1 \in DOMAIN b /\ ~(i - 1 < k) /\ (i - 1) + 1 = i
      BY <1>1, <1>2, <2>2
    <3> QED BY <1>2, <3>1
  <2> QED BY <1>1, <1>4, <2>1, <2>2
<1> QED BY <1>3, <1>4 DEF b

\* remove of an area, of whose pages the table may now say anything.
LEMMA RemoveArea ==
    ASSUME NEW a \in Seq(Area), AreasDisjoint(a), NEW k \in DOMAIN a, NEW p, NEW q,
           Matches(a, p), \A v \in Page \ Span(a[k]) : q[v] = p[v],
           \A i \in DOMAIN a : Span(a[i]) \subseteq Page
    PROVE  /\ remove(a, k) \in Seq(Area) /\ AreasDisjoint(remove(a, k))
           /\ Matches(remove(a, k), q)
           /\ FramesOf(remove(a, k)) = FramesOf(a) \ Range(a[k].frames)
<1> DEFINE b == remove(a, k)
           n == Len(a)
           src(j) == IF j < k THEN j ELSE j + 1
<1>1. n \in Nat /\ DOMAIN a = 1..n /\ k \in 1..n
  OBVIOUS
<1>2. /\ b \in Seq(Area) /\ Len(b) = n - 1
      /\ \A j \in 1..(n - 1) : b[j] = IF j < k THEN a[j] ELSE a[j + 1]
  BY <1>1 DEF remove
<1>3. DOMAIN b = 1..(n - 1)
  BY <1>2
<1> HIDE DEF b, n
<1>4. \A j \in DOMAIN b : src(j) \in DOMAIN a /\ src(j) # k /\ b[j] = a[src(j)]
  BY <1>1, <1>2, <1>3
<1>5. \A i, j \in DOMAIN b : i # j => src(i) # src(j)
  BY <1>1, <1>3
<1>6. \A i \in DOMAIN a : i # k => \E j \in DOMAIN b : src(j) = i
  <2> SUFFICES ASSUME NEW i \in DOMAIN a, i # k PROVE \E j \in DOMAIN b : src(j) = i OBVIOUS
  <2>1. CASE i < k
    BY <1>1, <1>3, <2>1
  <2>2. CASE i > k
    <3>1. i - 1 \in DOMAIN b /\ src(i - 1) = i
      BY <1>1, <1>3, <2>2
    <3> QED BY <3>1
  <2> QED BY <1>1, <2>1, <2>2
<1> HIDE DEF src
<1>7. AreasDisjoint(b)
  <2>1. \A i \in DOMAIN b : b[i].frames \in [Span(b[i]) -> Frame] /\ IsInjective(b[i].frames)
    BY <1>4, Zenon DEF AreasDisjoint
  <2>2. ASSUME NEW i \in DOMAIN b, NEW j \in DOMAIN b, i # j
        PROVE  Range(b[i].frames) \cap Range(b[j].frames) = {} /\ Span(b[i]) \cap Span(b[j]) = {}
    <3>1. /\ src(i) \in DOMAIN a /\ src(j) \in DOMAIN a /\ src(i) # src(j)
          /\ b[i] = a[src(i)] /\ b[j] = a[src(j)]
      BY <1>4, <1>5, <2>2
    <3> QED BY <3>1, Zenon DEF AreasDisjoint
  <2> QED BY <2>1, <2>2, Zenon DEF AreasDisjoint
<1>8. Matches(b, q)
  <2> SUFFICES ASSUME NEW i \in DOMAIN b, NEW v \in Span(b[i]) PROVE q[v] = b[i].frames[v]
    BY DEF Matches
  <2>1. src(i) \in DOMAIN a /\ src(i) # k /\ b[i] = a[src(i)]
    BY <1>4
  <2>2. v \in Page /\ v \notin Span(a[k])
    BY <2>1, Zenon DEF AreasDisjoint
  <2> QED BY <2>1, <2>2 DEF Matches
<1>9. FramesOf(b) = FramesOf(a) \ Range(a[k].frames)
  <2>1. \A x : x \in FramesOf(b) => x \in FramesOf(a) /\ x \notin Range(a[k].frames)
    <3> SUFFICES ASSUME NEW x \in FramesOf(b) PROVE x \in FramesOf(a) /\ x \notin Range(a[k].frames)
      OBVIOUS
    <3>1. PICK j \in DOMAIN b : x \in Range(b[j].frames)
      BY DEF FramesOf
    <3>2. src(j) \in DOMAIN a /\ src(j) # k /\ x \in Range(a[src(j)].frames)
      BY <1>4, <3>1
    <3>3. Range(a[src(j)].frames) \cap Range(a[k].frames) = {}
      BY <3>2, Zenon DEF AreasDisjoint
    <3> QED BY <3>2, <3>3 DEF FramesOf
  <2>2. \A x : x \in FramesOf(a) /\ x \notin Range(a[k].frames) => x \in FramesOf(b)
    BY <1>4, <1>6 DEF FramesOf
  <2> QED BY <2>1, <2>2
<1> QED BY <1>2, <1>7, <1>8, <1>9 DEF b
LEMMA MunmapIInv ==
    ASSUME IInv, NEW s \in Space, NEW a, NEW b, Munmap(s, a, b)
    PROVE  IInv'
<1>1. PICK i \in Inside(s, a, b) :
        LET gone == Span(areas[s][i]) IN
        /\ halt = "no" /\ state[s] = "live"
        /\ areas' = [areas EXCEPT ![s] = remove(@, i)]
        /\ pte' = [pte EXCEPT ![s] = [v \in Page |-> IF v \in gone THEN Invalid ELSE @[v]]]
        /\ free' = free \cup Range(areas[s][i].frames)
        /\ mem' = Freed(mem, Range(areas[s][i].frames))
        /\ halt' = IF \E v \in gone : pte[s][v] = Invalid THEN "assert"
                   ELSE IF TRAP_CONTEXT \in gone THEN "fault" ELSE "no"
        /\ UNCHANGED <<state, nodes, trap_cx_ppn>>
  BY Zenon DEF Munmap
<1> DEFINE A == areas[s]
           gone == Span(A[i])
<1>2. i \in DOMAIN A
  BY DEF Inside
<1>3. /\ A \in Seq(Area) /\ AreasDisjoint(A) /\ Matches(A, pte[s])
      /\ \A k \in DOMAIN A : Span(A[k]) \subseteq Page
      /\ pte[s] \in [Page -> PageEntry]
      /\ Path({v \in Page : pte[s][v] # Invalid}) \subseteq DOMAIN nodes[s]
      /\ nodes[s] \in [DOMAIN nodes[s] -> Frame] /\ IsInjective(nodes[s])
      /\ FramesOf(A) \cap Range(nodes[s]) = {}
      /\ free \cap Held(s) = {} /\ Held(s) = FramesOf(A) \cup Range(nodes[s])
  BY <1>1, SpaceFacts, Zenon
<1>4. /\ areas'[s] = remove(A, i) /\ nodes'[s] = nodes[s] /\ state'[s] = "live"
      /\ pte'[s] = [v \in Page |-> IF v \in gone THEN Invalid ELSE pte[s][v]]
      /\ OnlySpace(s)
  BY <1>1, Zenon DEF IInv, OnlySpace
<1> HIDE DEF A, gone
<1>5. \A v \in Page \ gone : pte'[s][v] = pte[s][v]
  BY <1>4, Zenon
<1>6. /\ remove(A, i) \in Seq(Area) /\ AreasDisjoint(remove(A, i))
      /\ Matches(remove(A, i), pte'[s])
      /\ FramesOf(remove(A, i)) = FramesOf(A) \ Range(A[i].frames)
  BY <1>2, <1>3, <1>5, RemoveArea, Zenon DEF gone
<1>7. pte'[s] \in [Page -> PageEntry]
  BY <1>3, <1>4, Zenon DEF PageEntry
<1>8. Path({v \in Page : pte'[s][v] # Invalid}) \subseteq DOMAIN nodes[s]
  <2>1. {v \in Page : pte'[s][v] # Invalid} \subseteq {v \in Page : pte[s][v] # Invalid}
    BY <1>4, Zenon
  <2> QED BY <1>3, <2>1, PathMonotone, Zenon
<1>9. SpaceOK(areas'[s], nodes'[s], pte'[s], state'[s])
  <2>1. FramesOf(remove(A, i)) \cap Range(nodes[s]) = {}
    BY <1>3, <1>6, Zenon
  <2>2. SpaceOK(remove(A, i), nodes[s], pte'[s], "live")
    BY <1>3, <1>6, <1>7, <1>8, <2>1, LiveOK
  <2> QED BY <1>4, <2>2, Zenon
<1>10. free' \cup Held(s)' = free \cup Held(s) /\ free' \cap Held(s)' = {}
  <2>1. Held(s)' = FramesOf(remove(A, i)) \cup Range(nodes[s])
    BY <1>4 DEF Held, AreaFrames, FramesOf
  <2>2. Range(A[i].frames) \subseteq FramesOf(A)
    BY <1>2 DEF FramesOf
  <2>3. free' = free \cup Range(A[i].frames)
    BY <1>1 DEF A
  <2> QED BY <1>3, <1>6, <2>1, <2>2, <2>3, Zenon
<1>11. mem' \in [Frame -> Content]
  BY <1>1, FreedType, Zenon DEF IInv
<1>12. halt' \in Halts
  <2>1. \A v \in gone : pte[s][v] \in Frame
    <3>1. A[i].frames \in [gone -> Frame] /\ \A v \in gone : pte[s][v] = A[i].frames[v]
      BY <1>2, <1>3, Zenon DEF Matches, AreasDisjoint, gone
    <3> QED BY <3>1
  <2>2. \A v \in gone : pte[s][v] # Invalid
    BY <2>1, MemorySetAssumption
  <2> QED BY <1>1, <2>2 DEF gone, A, Halts
<1>13. trap_cx_ppn' \in [Space -> Frame \cup {Invalid}]
  BY <1>1 DEF IInv
<1> QED BY <1>4, <1>9, <1>10, <1>11, <1>12, <1>13, SpaceStep, Zenon

LEMMA StoreIInv ==
    ASSUME IInv, NEW s \in Space, NEW v, NEW x \in Value, Store(s, v, x)
    PROVE  IInv'
<1>1. CASE Stop("corrupt")
  <2>1. "corrupt" \in Halts
    BY DEF Halts
  <2> QED BY <1>1, <2>1, StopIInv
<1>2. CASE /\ mem' = [mem EXCEPT ![pte[s][v]] = x]
           /\ UNCHANGED <<free, state, areas, nodes, pte, trap_cx_ppn, halt>>
  <2>1. mem' \in [Frame -> Content]
    BY <1>2, Zenon DEF IInv, Content
  <2> QED BY <1>2, <2>1, MemStep, Zenon DEF IInv
<1> QED BY <1>1, <1>2, Zenon DEF Store

LEMMA MmapWrapsIInv ==
    ASSUME IInv, NEW s \in Space, MmapWraps(s)
    PROVE  IInv'
<1>1. "range" \in Halts
  BY DEF Halts
<1> QED BY <1>1, StopIInv DEF MmapWraps

\* The table pages that find_pte_create adds.
LEMMA NodesAdded ==
    ASSUME NEW n, n \in [DOMAIN n -> Frame], IsInjective(n), NEW N, N \cap DOMAIN n = {},
           NEW g \in [N -> Frame], IsInjective(g), Range(g) \cap Range(n) = {},
           NEW h, h = [x \in DOMAIN h |-> h[x]], DOMAIN h = DOMAIN n \cup N,
           \A x \in N : h[x] = g[x], \A x \in DOMAIN n : h[x] = n[x]
    PROVE  /\ h \in [DOMAIN h -> Frame] /\ IsInjective(h)
           /\ Range(h) = Range(n) \cup Range(g)
<1>1. /\ DOMAIN h = DOMAIN n \cup N /\ h \in [DOMAIN h -> Frame]
      /\ (\A x \in N : h[x] = g[x]) /\ (\A x \in DOMAIN n : x \notin N /\ h[x] = n[x])
  OBVIOUS
<1>2. IsInjective(h)
  <2> SUFFICES ASSUME NEW x \in DOMAIN n \cup N, NEW y \in DOMAIN n \cup N, h[x] = h[y] PROVE x = y
    BY <1>1 DEF IsInjective
  <2>1. CASE x \in N /\ y \in N
    BY <1>1, <2>1 DEF IsInjective
  <2>2. CASE x \in DOMAIN n /\ y \in DOMAIN n
    BY <1>1, <2>2 DEF IsInjective
  <2>3. CASE (x \in N /\ y \in DOMAIN n) \/ (x \in DOMAIN n /\ y \in N)
    BY <1>1, <2>3 DEF Range
  <2> QED BY <2>1, <2>2, <2>3
<1>3. Range(h) = Range(n) \cup Range(g)
  <2>1. \A z : z \in Range(h) => z \in Range(n) \/ z \in Range(g)
    BY <1>1 DEF Range
  <2>2. \A z : z \in Range(n) \/ z \in Range(g) => z \in Range(h)
    BY <1>1 DEF Range
  <2> QED BY <2>1, <2>2
<1> QED BY <1>1, <1>2, <1>3

LEMMA PathUnion ==
    ASSUME NEW V, NEW W
    PROVE  Path(V \cup W) = Path(V) \cup Path(W)
BY DEF Path

\* The pages that MapArea::map gets to are pages, and all of them if none is mapped.
LEMMA ReachedFacts ==
    ASSUME NEW s, NEW a \in Page, NEW b \in 0..NPages
    PROVE  /\ Reached(s, a, b) \subseteq Page
           /\ ~Conflict(s, a, b) => /\ Reached(s, a, b) = a..(b - 1)
                                   /\ \A v \in a..(b - 1) : pte[s][v] = Invalid
<1>1. a..(b - 1) \subseteq Page
  BY ConstantFacts DEF Page
<1>2. \A v \in a..(b - 1) : \A w \in a..(v - 1) : w \in a..(b - 1)
  BY ConstantFacts DEF Page
<1>3. Reached(s, a, b) \subseteq Page
  BY <1>1, Zenon DEF Reached
<1>4. ASSUME ~Conflict(s, a, b) PROVE \A v \in a..(b - 1) : pte[s][v] = Invalid
  BY <1>4, Zenon DEF Conflict
<1>5. ASSUME ~Conflict(s, a, b) PROVE Reached(s, a, b) = a..(b - 1)
  BY <1>2, <1>4, <1>5, Zenon DEF Reached
<1> QED BY <1>3, <1>4, <1>5, Zenon

LEMMA MmapIInv ==
    ASSUME IInv, NEW s \in Space, NEW a \in Page, NEW b \in 0..NPages, a <= b, Mmap(s, a, b)
    PROVE  IInv'
<1> DEFINE R == Reached(s, a, b)
           N == Path(R) \ DOMAIN nodes[s]
           A == areas[s]
           P == pte[s]
<1>1. halt = "no" /\ state[s] = "live"
  BY DEF Mmap
<1>2. CASE Oom
  BY <1>2, OomIInv
<1>3. ASSUME NEW f \in Alloc(R, free), NEW g \in Alloc(N, free \ Range(f)),
             nodes' = [nodes EXCEPT ![s] = [n \in DOMAIN @ \cup N |->
                            IF n \in N THEN g[n] ELSE @[n]]],
             pte' = [pte EXCEPT ![s] = [v \in Page |->
                            IF v \in R /\ @[v] = Invalid THEN f[v] ELSE @[v]]],
             IF Conflict(s, a, b)
               THEN areas' = areas /\ free' = free \ Range(g) /\ mem' = mem
               ELSE /\ areas' = [areas EXCEPT ![s] =
                            Append(@, [start |-> a, end |-> b, frames |-> f])]
                    /\ free' = free \ (Range(f) \cup Range(g))
                    /\ mem' = Fill(f, [v \in R |-> Zero]),
             UNCHANGED <<state, trap_cx_ppn, halt>>
      PROVE  IInv'
  <2>1. /\ A \in Seq(Area) /\ AreasDisjoint(A) /\ Matches(A, P)
        /\ nodes[s] \in [DOMAIN nodes[s] -> Frame] /\ IsInjective(nodes[s])
        /\ FramesOf(A) \cap Range(nodes[s]) = {}
        /\ P \in [Page -> PageEntry] /\ (\A i \in DOMAIN A : Span(A[i]) \subseteq Page)
        /\ Path({v \in Page : P[v] # Invalid}) \subseteq DOMAIN nodes[s]
        /\ free \cap Held(s) = {} /\ free \subseteq Frame
        /\ Held(s) = FramesOf(A) \cup Range(nodes[s])
    BY <1>1, SpaceFacts, Zenon
  <2>2. /\ f \in [R -> free] /\ DOMAIN f = R /\ IsInjective(f) /\ Range(f) \subseteq free
        /\ g \in [N -> free \ Range(f)] /\ IsInjective(g) /\ Range(g) \subseteq free \ Range(f)
    BY AllocFacts
  <2>3. /\ nodes'[s] = [n \in DOMAIN nodes[s] \cup N |-> IF n \in N THEN g[n] ELSE nodes[s][n]]
        /\ pte'[s] = [v \in Page |-> IF v \in R /\ P[v] = Invalid THEN f[v] ELSE P[v]]
        /\ state'[s] = "live" /\ OnlySpace(s)
    BY <1>1, <1>3, Zenon DEF IInv, OnlySpace
  <2>4. R \subseteq Page /\ N \cap DOMAIN nodes[s] = {} /\ Path(R) \subseteq DOMAIN nodes[s] \cup N
    <3>1. R \subseteq Page
      BY ReachedFacts, Zenon
    <3> HIDE DEF R
    <3> QED BY <3>1
  <2>5. \A v \in Page : P[v] # Invalid => pte'[s][v] = P[v]
    BY <2>3, Zenon
  <2>6. \A i \in DOMAIN A : \A v \in Span(A[i]) : P[v] # Invalid
    <3> SUFFICES ASSUME NEW i \in DOMAIN A, NEW v \in Span(A[i]) PROVE P[v] \in Frame
      BY MemorySetAssumption
    <3>1. A[i].frames \in [Span(A[i]) -> Frame] /\ P[v] = A[i].frames[v]
      BY <2>1, Zenon DEF Matches, AreasDisjoint
    <3> QED BY <3>1
  <2>7. Matches(A, pte'[s])
    BY <2>1, <2>5, <2>6, Zenon DEF Matches
  <2> HIDE DEF R, N, A, P
  <2>8. pte'[s] \in [Page -> PageEntry]
    <3>1. \A v \in R : f[v] \in PageEntry
      BY <2>1, <2>2, Zenon DEF PageEntry
    <3> QED BY <2>1, <2>3, <3>1, Zenon
  <2>9. /\ DOMAIN nodes'[s] = DOMAIN nodes[s] \cup N /\ nodes'[s] \in [DOMAIN nodes'[s] -> Frame]
        /\ IsInjective(nodes'[s]) /\ Range(nodes'[s]) = Range(nodes[s]) \cup Range(g)
    <3> DEFINE n == nodes[s]
               h == nodes'[s]
    <3>1. g \in [N -> Frame]
      BY <2>1, <2>2, Zenon
    <3>2. n \in [DOMAIN n -> Frame] /\ IsInjective(n) /\ Range(g) \cap Range(n) = {}
      BY <2>1, <2>2, Zenon
    <3>3. N \cap DOMAIN n = {} /\ IsInjective(g)
      BY <2>2, <2>4
    <3>4. /\ h = [x \in DOMAIN h |-> h[x]] /\ DOMAIN h = DOMAIN n \cup N
          /\ \A x \in N : h[x] = g[x]
          /\ \A x \in DOMAIN n : h[x] = n[x]
      BY <2>3, <2>4, Zenon
    <3> HIDE DEF n, h
    <3>5. h \in [DOMAIN h -> Frame] /\ IsInjective(h) /\ Range(h) = Range(n) \cup Range(g)
      BY <3>1, <3>2, <3>3, <3>4, NodesAdded
    <3> QED BY <3>4, <3>5, Zenon DEF n, h
  <2>10. Path({v \in Page : pte'[s][v] # Invalid}) \subseteq DOMAIN nodes'[s]
    <3>1. {v \in Page : pte'[s][v] # Invalid} \subseteq {v \in Page : P[v] # Invalid} \cup R
      BY <2>3, Zenon
    <3>2. Path({v \in Page : P[v] # Invalid} \cup R) = Path({v \in Page : P[v] # Invalid}) \cup Path(R)
      BY PathUnion
    <3>3. Path({v \in Page : pte'[s][v] # Invalid}) \subseteq Path({v \in Page : P[v] # Invalid} \cup R)
      BY <3>1, PathMonotone
    <3> QED BY <2>1, <2>4, <2>9, <3>2, <3>3, Zenon
  <2>11. /\ halt' \in Halts /\ trap_cx_ppn' \in [Space -> Frame \cup {Invalid}]
         /\ mem \in [Frame -> Content]
    BY <1>3, Zenon DEF IInv
  <2>12. CASE Conflict(s, a, b)
    <3>1. areas'[s] = A /\ free' = free \ Range(g) /\ mem' = mem
      BY <1>3, <2>12 DEF A
    <3>2. FramesOf(A) \cap Range(nodes'[s]) = {}
      BY <2>1, <2>2, <2>9, Zenon
    <3>3. SpaceOK(A, nodes'[s], pte'[s], "live")
      BY <2>1, <2>7, <2>8, <2>9, <2>10, <3>2, LiveOK
    <3>4. Held(s)' = FramesOf(A) \cup Range(nodes'[s])
      BY <3>1 DEF Held, AreaFrames, FramesOf
    <3>5. free' \cup Held(s)' = free \cup Held(s) /\ free' \cap Held(s)' = {}
      BY <2>1, <2>2, <2>9, <3>1, <3>4, Zenon
    <3> QED BY <2>3, <2>11, <3>1, <3>3, <3>5, SpaceStep, Zenon
  <2>13. CASE ~Conflict(s, a, b)
    <3> DEFINE e == [start |-> a, end |-> b, frames |-> f]
    <3>1. /\ areas'[s] = Append(A, e) /\ free' = free \ (Range(f) \cup Range(g))
          /\ mem' = Fill(f, [v \in R |-> Zero])
      BY <1>3, <2>13 DEF A, IInv
    <3>2. R = a..(b - 1) /\ \A v \in R : P[v] = Invalid
      <4>1. Reached(s, a, b) = a..(b - 1) /\ \A v \in a..(b - 1) : pte[s][v] = Invalid
        <5> HIDE DEF A, N, P, R, e
        <5> QED BY <2>13, ReachedFacts, Zenon
      <4> QED BY <4>1, Zenon DEF R, P
    <3>3. e.frames = f /\ Span(e) = R
      BY <3>2 DEF Span
    <3>4. e \in Area
      <4>1. f \in [R -> Frame]
        BY <2>1, <2>2, Zenon
      <4>2. f \in UNION {[V -> Frame] : V \in SUBSET Page}
        BY <2>4, <4>1, Zenon
      <4> QED BY <4>2 DEF Area
    <3> HIDE DEF e
    <3>5. /\ e.frames \in [Span(e) -> Frame] /\ IsInjective(e.frames)
          /\ Range(e.frames) \cap FramesOf(A) = {}
      BY <2>1, <2>2, <3>3, Zenon
    <3>6. \A i \in DOMAIN A : Span(A[i]) \cap Span(e) = {}
      BY <2>6, <3>2, <3>3 DEF A, P
    <3>7. \A v \in Span(e) : pte'[s][v] = e.frames[v]
      BY <2>3, <2>4, <3>2, <3>3, Zenon
    <3>8. /\ Append(A, e) \in Seq(Area) /\ AreasDisjoint(Append(A, e))
          /\ Matches(Append(A, e), pte'[s])
          /\ FramesOf(Append(A, e)) = FramesOf(A) \cup Range(f)
      BY <2>1, <2>7, <3>3, <3>4, <3>5, <3>6, <3>7, AppendArea, Zenon
    <3>9. FramesOf(Append(A, e)) \cap Range(nodes'[s]) = {}
      BY <2>1, <2>2, <2>9, <3>8, Zenon
    <3>10. SpaceOK(Append(A, e), nodes'[s], pte'[s], "live")
      BY <2>8, <2>9, <2>10, <3>8, <3>9, LiveOK, Zenon
    <3>11. Held(s)' = FramesOf(Append(A, e)) \cup Range(nodes'[s])
      BY <3>1 DEF Held, AreaFrames, FramesOf
    <3>12. free' \cup Held(s)' = free \cup Held(s) /\ free' \cap Held(s)' = {}
      BY <2>1, <2>2, <2>9, <3>1, <3>8, <3>11, Zenon
    <3>13. mem' \in [Frame -> Content]
      <4>1. \A v \in DOMAIN f : [w \in R |-> Zero][v] \in Content
        BY <2>2 DEF Content
      <4> QED BY <3>1, <4>1, FillType, Zenon
    <3> QED BY <2>3, <2>11, <3>1, <3>10, <3>12, <3>13, SpaceStep, Zenon
  <2> QED BY <2>12, <2>13
<1> QED BY <1>2, <1>3, Zenon DEF Mmap
LEMMA NextIInv == IInv /\ [Next]_vars => IInv'
<1> SUFFICES ASSUME IInv, [Next]_vars PROVE IInv' OBVIOUS
<1>1. ASSUME NEW s \in Space, NEW k \in ElfPages, SpawnSpace(s, k) \/ Exec(s, k) PROVE IInv'
  BY <1>1, LoadIInv DEF SpawnSpace, Exec
<1>2. ASSUME NEW p \in Space, NEW c \in Space, Fork(p, c) PROVE IInv'
  BY <1>2, ForkIInv
<1>3. ASSUME NEW s \in Space, Exit(s) \/ Reap(s) \/ MmapWraps(s) PROVE IInv'
  BY <1>3, ExitIInv, ReapIInv, MmapWrapsIInv
<1>4. ASSUME NEW s \in Space, NEW r \in Ranges, Mmap(s, r[1], r[2]) \/ Munmap(s, r[1], r[2])
      PROVE  IInv'
  <2>1. r[1] \in Page /\ r[2] \in 0..NPages /\ r[1] <= r[2]
    BY MemorySetAssumption
  <2> QED BY <1>4, <2>1, MmapIInv, MunmapIInv
<1>5. ASSUME NEW s \in Space, NEW v \in Stored, NEW x \in Value, Store(s, v, x) PROVE IInv'
  BY <1>5, StoreIInv
<1>6. CASE UNCHANGED vars
  <2>1. UNCHANGED <<free, mem, state, areas, nodes, pte, trap_cx_ppn, halt>>
    BY <1>6 DEF vars
  <2> QED BY <2>1, MemStep, Zenon DEF IInv
<1> QED BY <1>1, <1>2, <1>3, <1>4, <1>5, <1>6 DEF Next, Halted

\* The inductive invariant holds for every program that maps and unmaps what it likes
\* (WellBehaved may be FALSE).
THEOREM Invariance == Spec => []IInv
<1>1. Init => IInv
  BY InitIInv
<1>2. IInv /\ [Next]_vars => IInv'
  BY NextIInv
<1> QED BY <1>1, <1>2, PTL DEF Spec

\* Every MapArea has one tracker for each of its pages, in every reachable state.
THEOREM TypeCorrect == Spec => []TypeOK
<1>1. IInv => TypeOK
  BY IInvImplies
<1> QED BY <1>1, Invariance, PTL

\* The frame allocator and the trackers partition the frames: fork, exec, exit, waitpid,
\* mmap and munmap neither leak a frame, nor free one twice, nor share one.
THEOREM FramesOwned == Spec => []FramesOwnedOnce
<1>1. IInv => FramesOwnedOnce
  BY IInvImplies
<1> QED BY <1>1, Invariance, PTL

\* Every page of every area is mapped to the frame its tracker holds, so MapArea::unmap
\* never meets the assertion of PageTable::unmap, whatever programs map and unmap, until
\* one of them stores into a table page or a trap context (StoresMissKernel: a well-behaved
\* one never does).
THEOREM Backed == Spec => []AreasBacked
<1>1. IInv => AreasBacked
  BY IInvImplies
<1> QED BY <1>1, Invariance, PTL

-----------------------------------------------------------------------------


\* A live space has an entry for each page of its areas and for the trampoline, and
\* none besides, and its trap context is in the frame the kernel remembers.
Tidy(s) ==
    state[s] = "live" =>
        /\ {v \in Page : pte[s][v] # Invalid} = Mapped(s) \cup {TRAMPOLINE}
        /\ pte[s][TRAMPOLINE] = TrampolineFrame
        /\ TRAP_CONTEXT \in Mapped(s)
        /\ trap_cx_ppn[s] = pte[s][TRAP_CONTEXT]
        /\ mem[trap_cx_ppn[s]] = s

\* NoStaleMapping and TrapContextPlaced need each other and the ownership of frames: a
\* store misses the trap context of every task because the frame it hits has one owner.
WInv == IInv /\ \A s \in Space : Tidy(s)

LEMMA WInvImplies == WInv => NoStaleMapping /\ TrapContextPlaced
BY DEF WInv, Tidy, NoStaleMapping, TrapContextPlaced

\* The pages of a space are mapped to frames that it holds, each to its own.
LEMMA MappedFacts ==
    ASSUME IInv, NEW s \in Space
    PROVE  /\ Mapped(s) \subseteq Page
           /\ \A v \in Mapped(s) : pte[s][v] \in Held(s) /\ pte[s][v] \in Frame
           /\ \A v, w \in Mapped(s) : v # w => pte[s][v] # pte[s][w]
<1> DEFINE A == areas[s]
<1>1. /\ AreasDisjoint(A) /\ Matches(A, pte[s]) /\ (\A i \in DOMAIN A : Span(A[i]) \subseteq Page)
      /\ Held(s) = FramesOf(A) \cup Range(nodes[s])
  BY SpaceFacts, Zenon
<1>2. ASSUME NEW v \in Mapped(s)
      PROVE  \E i \in DOMAIN A : /\ v \in Span(A[i]) /\ pte[s][v] = A[i].frames[v]
                                 /\ A[i].frames \in [Span(A[i]) -> Frame]
  BY <1>1 DEF Mapped, Matches, AreasDisjoint
<1>3. ASSUME NEW v \in Mapped(s) PROVE v \in Page /\ pte[s][v] \in Held(s) /\ pte[s][v] \in Frame
  <2>1. PICK i \in DOMAIN A : /\ v \in Span(A[i]) /\ pte[s][v] = A[i].frames[v]
                              /\ A[i].frames \in [Span(A[i]) -> Frame]
    BY <1>2, Zenon
  <2>2. pte[s][v] \in Range(A[i].frames)
    BY <2>1 DEF Range
  <2> QED BY <1>1, <2>1, <2>2 DEF FramesOf
<1>4. ASSUME NEW v \in Mapped(s), NEW w \in Mapped(s), v # w PROVE pte[s][v] # pte[s][w]
  <2>1. PICK i \in DOMAIN A : /\ v \in Span(A[i]) /\ pte[s][v] = A[i].frames[v]
                              /\ A[i].frames \in [Span(A[i]) -> Frame]
    BY <1>2, Zenon
  <2>2. PICK j \in DOMAIN A : /\ w \in Span(A[j]) /\ pte[s][w] = A[j].frames[w]
                              /\ A[j].frames \in [Span(A[j]) -> Frame]
    BY <1>2, Zenon
  <2>3. CASE i = j
    <3>1. IsInjective(A[i].frames) /\ DOMAIN A[i].frames = Span(A[i])
      BY <1>1, <2>1, Zenon DEF AreasDisjoint
    <3> QED BY <1>4, <2>1, <2>2, <2>3, <3>1, Zenon DEF IsInjective
  <2>4. CASE i # j
    <3>1. Range(A[i].frames) \cap Range(A[j].frames) = {}
      BY <1>1, <2>4, Zenon DEF AreasDisjoint
    <3>2. pte[s][v] \in Range(A[i].frames) /\ pte[s][w] \in Range(A[j].frames)
      BY <2>1, <2>2, Zenon DEF Range
    <3> QED BY <3>1, <3>2
  <2> QED BY <2>3, <2>4
<1> QED BY <1>3, <1>4

\* The frames f hold content, the others what they held.
Filled(f, content) ==
    /\ \A v \in DOMAIN f : f[v] \in Frame /\ Fill(f, content)[f[v]] = content[v]
    /\ \A h \in Frame \ Range(f) : Fill(f, content)[h] = mem[h]

\* A frame that was just handed out holds what it was filled with, the others are as
\* they were.
LEMMA FillFacts ==
    ASSUME NEW f, IsInjective(f), Range(f) \subseteq Frame, NEW content
    PROVE  Filled(f, content)
<1>1. ASSUME NEW v \in DOMAIN f PROVE f[v] \in Frame /\ Fill(f, content)[f[v]] = content[v]
  <2>1. f[v] \in Range(f)
    BY DEF Range
  <2>2. (CHOOSE w \in DOMAIN f : f[w] = f[v]) = v
    BY DEF IsInjective
  <2> QED BY <2>1, <2>2 DEF Fill
<1>2. \A h \in Frame \ Range(f) : Fill(f, content)[h] = mem[h]
  BY DEF Fill
<1> QED BY <1>1, <1>2 DEF Filled

\* A space whose table, areas and pages are left alone stays tidy.
LEMMA TidyKept ==
    ASSUME NEW t, Tidy(t), pte'[t] = pte[t], state'[t] = state[t],
           trap_cx_ppn'[t] = trap_cx_ppn[t], Mapped(t)' = Mapped(t),
           \A v \in Mapped(t) : mem'[pte[t][v]] = mem[pte[t][v]]
    PROVE  Tidy(t)'
<1>1. CASE state[t] = "live"
  <2>1. /\ {v \in Page : pte'[t][v] # Invalid} = {v \in Page : pte[t][v] # Invalid}
        /\ mem'[trap_cx_ppn'[t]] = mem[trap_cx_ppn[t]]
    BY <1>1, Zenon DEF Tidy
  <2> QED BY <1>1, <2>1, Zenon DEF Tidy
<1>2. CASE state[t] # "live"
  BY <1>2, Zenon DEF Tidy
<1> QED BY <1>1, <1>2, Zenon

\* A step of space s that leaves the frames of the others alone does not show in them.
LEMMA OthersStay ==
    ASSUME WInv, NEW s \in Space, OnlySpace(s), Tidy(s)',
           trap_cx_ppn' = [trap_cx_ppn EXCEPT ![s] = trap_cx_ppn'[s]],
           \A t \in Space : t # s => \A h \in Held(t) : mem'[h] = mem[h]
    PROVE  /\ \A t \in Space : Tidy(t)'
           /\ View' = [View EXCEPT ![s] = [v \in Mapped(s)' |-> mem'[pte'[s][v]]]]
<1>1. ASSUME NEW t \in Space, t # s
      PROVE  /\ areas'[t] = areas[t] /\ pte'[t] = pte[t] /\ state'[t] = state[t]
             /\ trap_cx_ppn'[t] = trap_cx_ppn[t] /\ Mapped(t)' = Mapped(t)
             /\ \A v \in Mapped(t) : mem'[pte'[t][v]] = mem[pte[t][v]]
             /\ Tidy(t)'
  <2>1. /\ areas'[t] = areas[t] /\ pte'[t] = pte[t] /\ state'[t] = state[t]
        /\ trap_cx_ppn'[t] = trap_cx_ppn[t]
    BY <1>1 DEF OnlySpace, WInv, IInv
  <2>2. Mapped(t)' = Mapped(t)
    BY <2>1 DEF Mapped
  <2>3. \A v \in Mapped(t) : pte[t][v] \in Held(t)
    BY MappedFacts, Zenon DEF WInv
  <2>4. \A v \in Mapped(t) : mem'[pte[t][v]] = mem[pte[t][v]]
    BY <1>1, <2>3, Zenon
  <2>5. Tidy(t)'
    <3>1. Tidy(t)
      BY Zenon DEF WInv
    <3> QED BY <2>1, <2>2, <2>4, <3>1, TidyKept, Zenon
  <2> QED BY <2>1, <2>2, <2>4, <2>5, Zenon
<1>2. \A t \in Space : Tidy(t)'
  BY <1>1, Zenon
<1>3. View' = [View EXCEPT ![s] = [v \in Mapped(s)' |-> mem'[pte'[s][v]]]]
  <2>1. \A t \in Space : t # s => [v \in Mapped(t)' |-> mem'[pte'[t][v]]]
                                    = [v \in Mapped(t) |-> mem[pte[t][v]]]
    BY <1>1, Zenon
  <2> QED BY <2>1, Zenon DEF View
<1> QED BY <1>2, <1>3, Zenon

Live == {s \in Space : state[s] = "live"}

\* What Load and Fork give to Install, and what is then so: address space s has these areas,
\* mapped to frames that hold content.
Installing(s, ranges, f, g, content) ==
    /\ \A i \in DOMAIN ranges : ranges[i].start \in Page /\ ranges[i].end \in 0..NPages
    /\ TRAP_CONTEXT \in Pages(ranges) /\ TRAMPOLINE \notin Pages(ranges)
    /\ f \in Alloc(Pages(ranges), free) /\ Install(s, ranges, f, g)
    /\ \A v \in Pages(ranges) : mem'[f[v]] = content[v]
    /\ content[TRAP_CONTEXT] = s /\ trap_cx_ppn'[s] = f[TRAP_CONTEXT]
Installed(s, ranges, content) ==
    /\ Tidy(s)' /\ Mapped(s)' = Pages(ranges)
    /\ \A v \in Pages(ranges) : mem'[pte'[s][v]] = content[v]
    /\ Live' = Live \cup {s} /\ Pages(ranges) \subseteq Page

\* A freshly built space is tidy, and its pages hold what they were filled with.
LEMMA InstallTidy ==
    ASSUME IInv, NEW s \in Space, NEW ranges, NEW f, NEW g, NEW content,
           Installing(s, ranges, f, g, content)
    PROVE  Installed(s, ranges, content)
<1> USE DEF Installing
<1>1. f \in [Pages(ranges) -> free] /\ DOMAIN f = Pages(ranges) /\ free \subseteq Frame
  BY AllocFacts DEF IInv
<1>2. /\ areas'[s] = Build(ranges, f) /\ state' = [state EXCEPT ![s] = "live"]
      /\ pte'[s] = [v \in Page |-> IF v \in DOMAIN f THEN f[v]
                                   ELSE IF v = TRAMPOLINE THEN TrampolineFrame ELSE Invalid]
  BY DEF Install, IInv
<1>3. Pages(ranges) \subseteq Page
  <2>1. ASSUME NEW x \in Page, NEW y \in 0..NPages PROVE x..(y - 1) \subseteq Page
    BY ConstantFacts DEF Page
  <2>2. \A i \in DOMAIN ranges : ranges[i].start \in Page /\ ranges[i].end \in 0..NPages
    BY Zenon
  <2> QED BY <2>1, <2>2, Zenon DEF Pages, Span
<1>4. \A v \in Pages(ranges) : pte'[s][v] = f[v]
  BY <1>1, <1>2, <1>3, Zenon
<1>5. Mapped(s)' = Pages(ranges)
  <2> HIDE DEF Installing
  <2>1. /\ DOMAIN Build(ranges, f) = DOMAIN ranges
        /\ \A i \in DOMAIN ranges : Span(Build(ranges, f)[i]) = Span(ranges[i])
    BY Zenon DEF Build, Span
  <2>2. Mapped(s)' = UNION {Span(Build(ranges, f)[i]) : i \in DOMAIN Build(ranges, f)}
    BY <1>2 DEF Mapped, Span
  <2> QED BY <2>1, <2>2 DEF Pages
<1>6. {v \in Page : pte'[s][v] # Invalid} = Pages(ranges) \cup {TRAMPOLINE}
  BY <1>1, <1>2, <1>3, ConstantFacts, Zenon
<1>7. pte'[s][TRAMPOLINE] = TrampolineFrame
  BY <1>1, <1>2, ConstantFacts, Zenon
<1>8. Tidy(s)'
  BY <1>4, <1>5, <1>6, <1>7, Zenon DEF Tidy
<1>9. Live' = Live \cup {s}
  BY <1>2 DEF Live, IInv
<1> QED BY <1>3, <1>4, <1>5, <1>8, <1>9, Zenon DEF Installed

LEMMA StopTidy ==
    ASSUME WInv, NEW why, Stop(why)
    PROVE  (\A t \in Space : Tidy(t)') /\ UNCHANGED VM!vars
<1>1. \A t \in Space : Mapped(t)' = Mapped(t)
  BY DEF Stop, Mapped
<1>2. UNCHANGED View
  BY <1>1 DEF Stop, View
<1>3. \A t \in Space : Tidy(t)'
  <2> SUFFICES ASSUME NEW t \in Space PROVE Tidy(t)'
    OBVIOUS
  <2>1. Tidy(t)
    BY DEF WInv
  <2>2. /\ state'[t] = state[t] /\ pte'[t] = pte[t] /\ trap_cx_ppn'[t] = trap_cx_ppn[t]
        /\ mem' = mem
    BY DEF Stop
  <2> QED BY <1>1, <2>1, <2>2, TidyKept, Zenon
<1> QED BY <1>2, <1>3 DEF Stop, VM!vars

LEMMA OomTidy ==
    ASSUME WInv, Oom
    PROVE  (\A t \in Space : Tidy(t)') /\ UNCHANGED VM!vars
BY StopTidy DEF Oom

LEMMA LoadTidy ==
    ASSUME WInv, NEW s \in Space, NEW k \in ElfPages, Load(s, k)
    PROVE  (\A t \in Space : Tidy(t)') /\ [VM!Next]_(VM!vars)
<1> DEFINE ranges == Layout(k)
           P == Pages(ranges)
           N == Path(P \cup {TRAMPOLINE})
           content == [v \in P |-> IF v < k THEN Image ELSE IF v = TRAP_CONTEXT THEN s ELSE Zero]
<1>1. CASE Oom
  BY <1>1, OomTidy
<1>2. ASSUME NEW f \in Alloc(P, free), NEW g \in Alloc(N, free \ Range(f)),
             Install(s, ranges, f, g),
             mem' = Freed(Fill(f, content), Held(s)),
             trap_cx_ppn' = [trap_cx_ppn EXCEPT ![s] = f[TRAP_CONTEXT]]
      PROVE  (\A t \in Space : Tidy(t)') /\ [VM!Next]_(VM!vars)
  <2>1. /\ DOMAIN ranges = 1..3 /\ TRAP_CONTEXT \in P
        /\ \A i \in 1..3 : ranges[i].start \in Page /\ ranges[i].end \in 0..NPages
    BY LayoutFacts, Zenon
  <2>2. TRAMPOLINE \notin P
    <3>1. /\ k \in Nat /\ StackPages \in Nat /\ k + 1 + StackPages <= TRAP_CONTEXT
          /\ TRAP_CONTEXT + 1 = TRAMPOLINE /\ TRAMPOLINE \in Nat /\ TRAP_CONTEXT \in Nat
      BY ConstantFacts, MemorySetAssumption DEF TRAP_CONTEXT, TRAMPOLINE
    <3>2. /\ Span(ranges[1]) = 0..(k - 1) /\ Span(ranges[2]) = (k + 1)..(k + StackPages)
          /\ Span(ranges[3]) = TRAP_CONTEXT..(TRAMPOLINE - 1)
      <4>1. /\ ranges[1].start = 0 /\ ranges[1].end = k
            /\ ranges[2].start = k + 1 /\ ranges[2].end = k + 1 + StackPages
            /\ ranges[3].start = TRAP_CONTEXT /\ ranges[3].end = TRAMPOLINE
        BY DEF Layout
      <4>2. (k + 1 + StackPages) - 1 = k + StackPages
        BY <3>1
      <4> HIDE DEF ranges
      <4> QED BY <4>1, <4>2, Zenon DEF Span
    <3>3. /\ TRAMPOLINE \notin 0..(k - 1) /\ TRAMPOLINE \notin (k + 1)..(k + StackPages)
          /\ TRAMPOLINE \notin TRAP_CONTEXT..(TRAMPOLINE - 1)
      <4> HIDE DEF ranges
      <4> QED BY <3>1
    <3> HIDE DEF ranges
    <3>4. \A i \in 1..3 : TRAMPOLINE \notin Span(ranges[i])
      <4>1. \A i \in 1..3 : i = 1 \/ i = 2 \/ i = 3
        OBVIOUS
      <4> QED BY <3>2, <3>3, <4>1, Zenon
    <3> QED BY <2>1, <3>4, Zenon DEF Pages
  <2>3. content[TRAP_CONTEXT] = s
    <3>1. ~(TRAP_CONTEXT < k)
      <4> HIDE DEF content, ranges, P, N
      <4> QED BY ConstantFacts, MemorySetAssumption DEF TRAP_CONTEXT
    <3> QED BY <2>1, <3>1, Zenon
  <2>4. /\ DOMAIN f = P /\ IsInjective(f) /\ Range(f) \subseteq free /\ free \subseteq Frame
        /\ \A t \in Space : free \cap Held(t) = {} /\ Held(t) \subseteq Frame
        /\ \A t \in Space : t # s => Held(t) \cap Held(s) = {}
    BY AllocFacts DEF WInv, IInv
  <2> HIDE DEF content, ranges
  <2>full. Filled(f, content)
    <3>1. Range(f) \subseteq Frame /\ IsInjective(f)
      BY <2>4, Zenon
    <3> QED BY <3>1, FillFacts, Zenon
  <2>5. \A v \in P : mem'[f[v]] = content[v]
    <3>1. \A v \in P : f[v] \in Range(f) /\ f[v] \notin Held(s)
      BY <2>4, Zenon DEF Range
    <3>2. \A v \in P : f[v] \in Frame /\ Fill(f, content)[f[v]] = content[v]
      BY <2>4, <2>full, Zenon DEF Filled
    <3> QED BY <1>2, <3>1, <3>2, Zenon DEF Freed
  <2>6. \A t \in Space : t # s => \A h \in Held(t) : mem'[h] = mem[h]
    <3>1. \A h \in Frame \ Range(f) : Fill(f, content)[h] = mem[h]
      BY <2>full, Zenon DEF Filled
    <3> QED BY <1>2, <2>4, <3>1, Zenon DEF Freed
  <2>7. trap_cx_ppn'[s] = f[TRAP_CONTEXT] /\ trap_cx_ppn' = [trap_cx_ppn EXCEPT ![s] = trap_cx_ppn'[s]]
    BY <1>2 DEF WInv, IInv
  <2>8. /\ Tidy(s)' /\ Mapped(s)' = P /\ (\A v \in P : mem'[pte'[s][v]] = content[v])
        /\ Live' = Live \cup {s} /\ P \subseteq Page
    <3>1. IInv /\ \A i \in DOMAIN ranges : ranges[i].start \in Page /\ ranges[i].end \in 0..NPages
      BY <2>1, Zenon DEF WInv
    <3>2. \A v \in Pages(ranges) : mem'[f[v]] = content[v]
      BY <2>5, Zenon
    <3>3. /\ f \in Alloc(Pages(ranges), free) /\ TRAP_CONTEXT \in Pages(ranges)
          /\ TRAMPOLINE \notin Pages(ranges) /\ Install(s, ranges, f, g)
      BY <1>2, <2>1, <2>2, Zenon
    <3>4. trap_cx_ppn'[s] = f[TRAP_CONTEXT]
      BY <2>7, Zenon
    <3> HIDE DEF P
    <3>5. Installing(s, ranges, f, g, content)
      BY <2>3, <3>1, <3>2, <3>3, <3>4, Zenon DEF Installing
    <3>6. Installed(s, ranges, content)
      BY <3>1, <3>5, InstallTidy, Zenon
    <3> QED BY <3>6, Zenon DEF P, Installed
  <2>9. OnlySpace(s)
    BY <1>2, Zenon DEF Install, OnlySpace, WInv, IInv
  <2>10. /\ \A t \in Space : Tidy(t)'
         /\ View' = [View EXCEPT ![s] = [v \in P |-> content[v]]]
    <3>1. /\ \A t \in Space : Tidy(t)'
          /\ View' = [View EXCEPT ![s] = [v \in Mapped(s)' |-> mem'[pte'[s][v]]]]
      BY <2>6, <2>7, <2>8, <2>9, OthersStay, Zenon
    <3>2. [v \in Mapped(s)' |-> mem'[pte'[s][v]]] = [v \in P |-> content[v]]
      BY <2>8, Zenon
    <3> QED BY <3>1, <3>2, Zenon
  <2>11. VM!Next
    <3> DEFINE im == [pages |-> P, text |-> 0..(k - 1)]
    <3>1. im \in Programs
      BY Zenon DEF Programs, ranges
    <3>2. VM!Start(s, im) = [v \in P |-> content[v]]
      <4>1. ASSUME NEW v \in P
            PROVE  content[v] = IF v = TRAP_CONTEXT THEN s ELSE IF v \in 0..(k - 1) THEN Image ELSE Zero
        <5>1. v \in Page /\ k \in Nat
          BY <2>8, MemorySetAssumption, Zenon
        <5>2. v \in Nat /\ k \in Nat
          <6> HIDE DEF P, N, im
          <6> QED BY <5>1, ConstantFacts DEF Page
        <5>3. CASE v = TRAP_CONTEXT
          BY <2>3, <5>3
        <5>4. CASE v # TRAP_CONTEXT
          BY <5>2, <5>4 DEF content
        <5> QED BY <5>3, <5>4
      <4> QED BY <4>1 DEF VM!Start
    <3>3. VM!Load(s, im)
      <4> HIDE DEF im
      <4> QED BY <2>8, <2>10, <3>2, Zenon DEF VM!Load, Live
    <3> QED BY <3>1, <3>3 DEF VM!Next
  <2> QED BY <2>10, <2>11
<1> QED BY <1>1, <1>2, Zenon DEF Load
LEMMA LiveFacts ==
    ASSUME WInv, NEW s \in Space, state[s] = "live"
    PROVE  /\ {v \in Page : pte[s][v] # Invalid} = Mapped(s) \cup {TRAMPOLINE}
           /\ pte[s][TRAMPOLINE] = TrampolineFrame
           /\ TRAP_CONTEXT \in Mapped(s) /\ TRAMPOLINE \notin Mapped(s)
           /\ trap_cx_ppn[s] = pte[s][TRAP_CONTEXT] /\ mem[trap_cx_ppn[s]] = s
           /\ s \in Live /\ View[s] = [v \in Mapped(s) |-> mem[pte[s][v]]]
<1>1. /\ {v \in Page : pte[s][v] # Invalid} = Mapped(s) \cup {TRAMPOLINE}
      /\ pte[s][TRAMPOLINE] = TrampolineFrame
      /\ TRAP_CONTEXT \in Mapped(s)
      /\ trap_cx_ppn[s] = pte[s][TRAP_CONTEXT] /\ mem[trap_cx_ppn[s]] = s
  BY DEF WInv, Tidy
<1>2. TRAMPOLINE \notin Mapped(s)
  BY <1>1, MappedFacts, MemorySetAssumption, Zenon DEF WInv
<1> QED BY <1>1, <1>2, Zenon DEF Live, View

LEMMA ForkTidy ==
    ASSUME WInv, NEW p \in Space, NEW c \in Space, Fork(p, c)
    PROVE  (\A t \in Space : Tidy(t)') /\ [VM!Next]_(VM!vars)
<1>1. state[p] = "live" /\ state[c] = "none" /\ p # c
  BY Zenon DEF Fork
<1>2. CASE Oom
  BY <1>2, OomTidy
<1>3. ASSUME NEW f \in Alloc(Mapped(p), free), NEW g,
             Install(c, areas[p], f, g),
             mem' = Fill(f, Copied(p, c)),
             trap_cx_ppn' = [trap_cx_ppn EXCEPT ![c] = pte'[c][TRAP_CONTEXT]]
      PROVE  (\A t \in Space : Tidy(t)') /\ [VM!Next]_(VM!vars)
  <2> DEFINE P == Mapped(p)
             content == Copied(p, c)
  <2>1. P = Pages(areas[p]) /\ IInv
    BY DEF Mapped, Pages, WInv
  <2>2. /\ TRAP_CONTEXT \in P /\ TRAMPOLINE \notin P /\ p \in Live
        /\ View[p] = [v \in P |-> mem[pte[p][v]]]
    BY <1>1, LiveFacts, Zenon
  <2>3. content[TRAP_CONTEXT] = c /\ content = [v \in P |-> content[v]]
        /\ \A v \in P : v # TRAP_CONTEXT => content[v] = mem[pte[p][v]]
    BY <2>2, Zenon DEF Copied
  <2>4. /\ DOMAIN f = P /\ IsInjective(f) /\ Range(f) \subseteq free /\ free \subseteq Frame
        /\ \A t \in Space : free \cap Held(t) = {} /\ Held(t) \subseteq Frame
    BY AllocFacts DEF WInv, IInv
  <2>5. \A i \in DOMAIN areas[p] : areas[p][i].start \in Page /\ areas[p][i].end \in 0..NPages
    BY <2>1, SpaceFacts, Zenon
  <2> HIDE DEF P, content
  <2>full. Filled(f, content) /\ mem' = Fill(f, content)
    <3>1. Range(f) \subseteq Frame /\ IsInjective(f)
      BY <2>4, Zenon
    <3>2. Filled(f, content)
      BY <3>1, FillFacts, Zenon
    <3> QED BY <1>3, <3>2, Zenon DEF content
  <2>6. \A v \in P : mem'[f[v]] = content[v]
    BY <2>4, <2>full, Zenon DEF Filled
  <2>7. \A t \in Space : t # c => \A h \in Held(t) : mem'[h] = mem[h]
    <3>1. \A h \in Frame \ Range(f) : mem'[h] = mem[h]
      BY <2>full, Zenon DEF Filled
    <3> QED BY <2>4, <3>1, Zenon
  <2>8. trap_cx_ppn'[c] = f[TRAP_CONTEXT] /\ trap_cx_ppn' = [trap_cx_ppn EXCEPT ![c] = trap_cx_ppn'[c]]
    <3>1. pte'[c][TRAP_CONTEXT] = f[TRAP_CONTEXT]
      BY <1>3, <2>1, <2>2, <2>4, ConstantFacts, Zenon DEF Install, IInv
    <3> QED BY <1>3, <3>1 DEF WInv, IInv
  <2>9. /\ Tidy(c)' /\ Mapped(c)' = P /\ (\A v \in P : mem'[pte'[c][v]] = content[v])
        /\ Live' = Live \cup {c}
    <3> DEFINE r == areas[p]
    <3>1. /\ \A i \in DOMAIN r : r[i].start \in Page /\ r[i].end \in 0..NPages
          /\ P = Pages(r) /\ f \in Alloc(Pages(r), free) /\ Install(c, r, f, g)
      BY <1>3, <2>1, <2>5, Zenon DEF P
    <3> HIDE DEF r
    <3>2. /\ TRAP_CONTEXT \in Pages(r) /\ TRAMPOLINE \notin Pages(r)
          /\ \A v \in Pages(r) : mem'[f[v]] = content[v]
      BY <2>2, <2>6, <3>1, Zenon
    <3> HIDE DEF P
    <3>3. Installing(c, r, f, g, content)
      BY <2>1, <2>3, <2>8, <3>1, <3>2, Zenon DEF Installing
    <3>4. Installed(c, r, content)
      BY <2>1, <3>3, InstallTidy, Zenon
    <3> QED BY <3>1, <3>4, Zenon DEF Installed
  <2>10. OnlySpace(c)
    BY <1>3, Zenon DEF Install, OnlySpace, WInv, IInv
  <2>11. /\ \A t \in Space : Tidy(t)'
         /\ View' = [View EXCEPT ![c] = [v \in P |-> content[v]]]
    <3>1. /\ \A t \in Space : Tidy(t)'
          /\ View' = [View EXCEPT ![c] = [v \in Mapped(c)' |-> mem'[pte'[c][v]]]]
      BY <2>7, <2>8, <2>9, <2>10, OthersStay, Zenon
    <3>2. [v \in Mapped(c)' |-> mem'[pte'[c][v]]] = [v \in P |-> content[v]]
      BY <2>9, Zenon
    <3> QED BY <3>1, <3>2, Zenon
  <2>12. VM!Clone(p, c)
    <3>1. c \notin Live
      BY <1>1 DEF Live
    <3>2. [View[p] EXCEPT ![TRAP_CONTEXT] = c] = [v \in P |-> content[v]]
      BY <2>2, <2>3
    <3> QED BY <2>2, <2>9, <2>11, <3>1, <3>2, Zenon DEF VM!Clone, Live
  <2> QED BY <2>11, <2>12 DEF VM!Next
<1> QED BY <1>2, <1>3, Zenon DEF Fork

LEMMA ExitTidy ==
    ASSUME WInv, NEW s \in Space, Exit(s)
    PROVE  (\A t \in Space : Tidy(t)') /\ [VM!Next]_(VM!vars)
<1>1. /\ areas'[s] = <<>> /\ state[s] = "live" /\ state' = [state EXCEPT ![s] = "zombie"]
      /\ trap_cx_ppn' = [trap_cx_ppn EXCEPT ![s] = trap_cx_ppn'[s]]
      /\ mem' = Freed(mem, AreaFrames(s)) /\ state'[s] = "zombie"
  BY DEF Exit, WInv, IInv
<1>2. OnlySpace(s)
  BY Zenon DEF Exit, OnlySpace, WInv, IInv
<1>3. Tidy(s)'
  BY <1>1, Zenon DEF Tidy
<1>4. \A t \in Space : t # s => \A h \in Held(t) : mem'[h] = mem[h]
  <2>1. AreaFrames(s) \subseteq Held(s)
    BY DEF Held
  <2>2. \A t \in Space : Held(t) \subseteq Frame /\ (t # s => Held(t) \cap Held(s) = {})
    BY DEF WInv, IInv
  <2> QED BY <1>1, <2>1, <2>2 DEF Freed
<1>5. Mapped(s)' = {}
  <2>1. DOMAIN areas'[s] = {}
    BY <1>1
  <2> QED BY <2>1, Zenon DEF Mapped
<1>6. /\ \A t \in Space : Tidy(t)'
      /\ View' = [View EXCEPT ![s] = [v \in {} |-> mem'[pte'[s][v]]]]
  BY <1>1, <1>2, <1>3, <1>4, <1>5, OthersStay, Zenon
<1>7. [v \in {} |-> mem'[pte'[s][v]]] = VM!Empty
  BY DEF VM!Empty
<1>8. VM!Exit(s)
  <2>1. s \in Live /\ Live' = Live \ {s}
    BY <1>1 DEF Live, WInv, IInv
  <2> QED BY <1>6, <1>7, <2>1, Zenon DEF VM!Exit, Live
<1> QED BY <1>6, <1>8, Zenon DEF VM!Next

LEMMA ReapTidy ==
    ASSUME WInv, NEW s \in Space, Reap(s)
    PROVE  (\A t \in Space : Tidy(t)') /\ [VM!Next]_(VM!vars)
<1>1. /\ areas'[s] = <<>> /\ state[s] = "zombie" /\ state' = [state EXCEPT ![s] = "none"]
      /\ trap_cx_ppn' = [trap_cx_ppn EXCEPT ![s] = trap_cx_ppn'[s]]
      /\ mem' = mem /\ state'[s] = "none"
  BY DEF Reap, WInv, IInv
<1>2. OnlySpace(s)
  BY <1>1, Zenon DEF Reap, OnlySpace, WInv, IInv
<1>3. Tidy(s)'
  BY <1>1, Zenon DEF Tidy
<1>4. areas[s] = <<>>
  BY <1>1, Zenon DEF WInv, IInv, SpaceOK
<1>5. Mapped(s)' = {} /\ Mapped(s) = {}
  <2>1. DOMAIN areas'[s] = {} /\ DOMAIN areas[s] = {}
    BY <1>1, <1>4
  <2> QED BY <2>1, Zenon DEF Mapped
<1>6. /\ \A t \in Space : Tidy(t)'
      /\ View' = [View EXCEPT ![s] = [v \in {} |-> mem'[pte'[s][v]]]]
  BY <1>1, <1>2, <1>3, <1>5, OthersStay, Zenon
<1>7. View' = View
  <2>1. View[s] = [v \in {} |-> mem'[pte'[s][v]]]
    BY <1>5, Zenon DEF View
  <2> QED BY <1>6, <2>1, Zenon DEF View
<1>8. Live' = Live
  BY <1>1 DEF Live, WInv, IInv
<1> QED BY <1>6, <1>7, <1>8 DEF VM!vars, Live
\* What a step of a space that stays live has to show.
LEMMA StaysTidy ==
    ASSUME WInv, NEW s \in Space, state[s] = "live", UNCHANGED <<state, trap_cx_ppn>>,
           {v \in Page : pte'[s][v] # Invalid} = Mapped(s)' \cup {TRAMPOLINE},
           TRAP_CONTEXT \in Mapped(s)',
           pte'[s][TRAMPOLINE] = pte[s][TRAMPOLINE], pte'[s][TRAP_CONTEXT] = pte[s][TRAP_CONTEXT],
           mem'[pte[s][TRAP_CONTEXT]] = mem[pte[s][TRAP_CONTEXT]]
    PROVE  /\ Tidy(s)' /\ Live' = Live
           /\ trap_cx_ppn' = [trap_cx_ppn EXCEPT ![s] = trap_cx_ppn'[s]]
<1>1. Tidy(s)'
  BY LiveFacts, Zenon DEF Tidy
<1> QED BY <1>1, Zenon DEF Live, WInv, IInv

LEMMA MmapTidy ==
    ASSUME WInv, WellBehaved, NEW s \in Space, NEW a \in Page, NEW b \in 0..NPages, a <= b,
           Mmap(s, a, b)
    PROVE  (\A t \in Space : Tidy(t)') /\ [VM!Next]_(VM!vars)
<1> DEFINE R == Reached(s, a, b)
           P == Mapped(s)
<1>1. state[s] = "live" /\ ~Conflict(s, a, b)
  BY Zenon DEF Mmap
<1>2. CASE Oom
  BY <1>2, OomTidy
<1>3. ASSUME NEW f \in Alloc(R, free),
             OnlySpace(s),
             pte' = [pte EXCEPT ![s] = [v \in Page |->
                            IF v \in R /\ @[v] = Invalid THEN f[v] ELSE @[v]]],
             areas' = [areas EXCEPT ![s] = Append(@, [start |-> a, end |-> b, frames |-> f])],
             mem' = Fill(f, [v \in R |-> Zero]),
             UNCHANGED <<state, trap_cx_ppn>>
      PROVE  (\A t \in Space : Tidy(t)') /\ [VM!Next]_(VM!vars)
  <2>1. /\ DOMAIN f = R /\ IsInjective(f) /\ Range(f) \subseteq free /\ free \subseteq Frame
        /\ \A v \in R : f[v] \in free
        /\ \A t \in Space : free \cap Held(t) = {} /\ Held(t) \subseteq Frame
    BY AllocFacts DEF WInv, IInv
  <2>2. R = a..(b - 1) /\ R \subseteq Page /\ \A v \in R : pte[s][v] = Invalid
    BY <1>1, ReachedFacts, Zenon
  <2>3. /\ {v \in Page : pte[s][v] # Invalid} = P \cup {TRAMPOLINE}
        /\ TRAP_CONTEXT \in P /\ TRAMPOLINE \notin P /\ s \in Live
        /\ View[s] = [v \in P |-> mem[pte[s][v]]]
    BY <1>1, LiveFacts, Zenon
  <2>4. P \subseteq Page /\ \A v \in P : pte[s][v] \in Held(s) /\ pte[s][v] \in Frame
    BY MappedFacts, Zenon DEF WInv
  <2>5. Mapped(s)' = P \cup R
    <3> DEFINE A == areas[s]
               e == [start |-> a, end |-> b, frames |-> f]
               n == Len(A)
    <3>1. A \in Seq(Area) /\ n \in Nat /\ DOMAIN A = 1..n
      BY SpaceFacts, Zenon DEF WInv
    <3>2. areas'[s] = Append(A, e)
      BY <1>3, Zenon DEF WInv, IInv
    <3>3. Span(e) = R
      BY <2>2, Zenon DEF Span
    <3> HIDE DEF e, A, n, R
    <3>4. /\ DOMAIN Append(A, e) = 1..(n + 1) /\ Append(A, e)[n + 1] = e
          /\ \A i \in 1..n : Append(A, e)[i] = A[i]
      BY <3>1 DEF n
    <3>5. Mapped(s)' = UNION {Span(Append(A, e)[i]) : i \in 1..(n + 1)}
      BY <3>2, <3>4 DEF Mapped, Span
    <3>6. P = UNION {Span(A[i]) : i \in 1..n}
      BY <3>1 DEF Mapped, A
    <3>7. \A i \in 1..(n + 1) : i \in 1..n \/ i = n + 1
      BY <3>1
    <3>8. 1..n \subseteq 1..(n + 1) /\ n + 1 \in 1..(n + 1)
      BY <3>1
    <3>9. \A v : v \in Mapped(s)' => v \in P \cup R
      BY <3>3, <3>4, <3>5, <3>6, <3>7, Zenon
    <3>10. \A v : v \in P => v \in Mapped(s)'
      BY <3>4, <3>5, <3>6, <3>8, Zenon
    <3>11. \A v : v \in R => v \in Mapped(s)'
      BY <3>3, <3>4, <3>5, <3>8
    <3> QED BY <3>9, <3>10, <3>11
  <2> HIDE DEF R, P
  <2>6. /\ \A v \in R : pte'[s][v] = f[v]
        /\ \A v \in Page \ R : pte'[s][v] = pte[s][v]
    BY <1>3, <2>2, Zenon DEF WInv, IInv
  <2>7. \A v \in P \cup {TRAMPOLINE} : v \in Page \ R
    <3>1. \A v \in P \cup {TRAMPOLINE} : v \in Page /\ pte[s][v] # Invalid
      BY <2>3, Zenon
    <3> QED BY <2>2, <3>1
  <2> DEFINE zeroed == [v \in R |-> Zero]
  <2>zero. Filled(f, zeroed)
    <3> HIDE DEF zeroed
    <3>1. Range(f) \subseteq Frame /\ IsInjective(f)
      BY <2>1, Zenon
    <3> QED BY <3>1, FillFacts, Zenon
  <2>8. \A h \in Frame \ Range(f) : mem'[h] = mem[h]
    BY <1>3, <2>zero, Zenon DEF Filled
  <2>9. \A v \in R : mem'[pte'[s][v]] = Zero
    <3>1. \A v \in R : mem'[f[v]] = [w \in R |-> Zero][v]
      BY <1>3, <2>1, <2>zero, Zenon DEF Filled
    <3> QED BY <2>6, <3>1, Zenon
  <2>10. \A v \in P : pte'[s][v] = pte[s][v] /\ mem'[pte'[s][v]] = mem[pte[s][v]]
    BY <2>1, <2>4, <2>6, <2>7, <2>8, Zenon
  <2>11. {v \in Page : pte'[s][v] # Invalid} = Mapped(s)' \cup {TRAMPOLINE}
    <3>1. \A v \in R : pte'[s][v] # Invalid
      BY <2>1, <2>6, MemorySetAssumption, Zenon
    <3>2. \A v \in Page : pte[s][v] # Invalid <=> v \in P \cup {TRAMPOLINE}
      BY <2>3
    <3>3. \A v \in Page : pte'[s][v] # Invalid <=> v \in R \/ v \in P \cup {TRAMPOLINE}
      <4> SUFFICES ASSUME NEW v \in Page
                   PROVE  pte'[s][v] # Invalid <=> v \in R \/ v \in P \cup {TRAMPOLINE}
        OBVIOUS
      <4>1. CASE v \in R
        BY <3>1, <4>1
      <4>2. CASE v \notin R
        BY <2>6, <3>2, <4>2
      <4> QED BY <4>1, <4>2, Zenon
    <3>4. P \cup R \cup {TRAMPOLINE} \subseteq Page
      BY <2>2, <2>7
    <3> QED BY <2>5, <3>3, <3>4
  <2>12. /\ Tidy(s)' /\ Live' = Live
         /\ trap_cx_ppn' = [trap_cx_ppn EXCEPT ![s] = trap_cx_ppn'[s]]
    <3>1. /\ pte'[s][TRAMPOLINE] = pte[s][TRAMPOLINE] /\ pte'[s][TRAP_CONTEXT] = pte[s][TRAP_CONTEXT]
          /\ mem'[pte[s][TRAP_CONTEXT]] = mem[pte[s][TRAP_CONTEXT]] /\ TRAP_CONTEXT \in Mapped(s)'
      <4>1. TRAP_CONTEXT \in P /\ TRAMPOLINE \in Page \ R
        BY <2>3, <2>7, Zenon
      <4>2. TRAP_CONTEXT \in Mapped(s)'
        BY <2>5, <4>1, Zenon
      <4> QED BY <2>6, <2>10, <4>1, <4>2
    <3> QED BY <1>1, <1>3, <2>11, <3>1, StaysTidy, Zenon
  <2>13. /\ \A t \in Space : Tidy(t)'
         /\ View' = [View EXCEPT ![s] = [v \in P \cup R |-> mem'[pte'[s][v]]]]
    <3>1. \A t \in Space : t # s => \A h \in Held(t) : mem'[h] = mem[h]
      BY <2>1, <2>8, Zenon
    <3> QED BY <1>3, <2>5, <2>12, <3>1, OthersStay, Zenon
  <2>14. VM!Map(s, R)
    <3>1. DOMAIN View[s] = P /\ R \cap P = {}
      BY <2>3, <2>7, Zenon
    <3>2. [v \in P \cup R |-> mem'[pte'[s][v]]]
            = [v \in DOMAIN View[s] \cup R |-> IF v \in R THEN Zero ELSE View[s][v]]
      BY <2>3, <2>9, <2>10, <3>1
    <3> QED BY <2>3, <2>12, <2>13, <3>1, <3>2, Zenon DEF VM!Map, Live, View
  <2>15. CASE a < b
    <3>1. b - 1 \in Page /\ R = a..(b - 1)
      BY <2>2, <2>15, ConstantFacts DEF Page
    <3> QED BY <2>13, <2>14, <3>1, Zenon DEF VM!Next
  <2>16. CASE a = b
    <3>1. R = {}
      BY <2>2, <2>16, ConstantFacts DEF Page
    <3>2. [v \in P \cup R |-> mem'[pte'[s][v]]] = View[s]
      BY <2>3, <2>10, <3>1, Zenon
    <3>3. View' = View
      BY <2>13, <3>2, Zenon DEF View
    <3> QED BY <2>12, <2>13, <3>3, Zenon DEF VM!vars, Live
  <2> QED BY <2>15, <2>16, ConstantFacts DEF Page
<1>4. Mmap(s, a, b) => OnlySpace(s) \/ Oom
  BY Zenon DEF Mmap, OnlySpace, WInv, IInv
<1> QED BY <1>1, <1>2, <1>3, <1>4, Zenon DEF Mmap

\* A valid entry for a page below the trap context leads to a frame that the space holds
\* for that page, so to no table page and no trap context.
LEMMA StoreMisses ==
    ASSUME WInv, NEW s \in Space, NEW v \in Stored, state[s] = "live", pte[s][v] # Invalid
    PROVE  pte[s][v] \notin KernelFrames
<1>1. v \in Page /\ v # TRAP_CONTEXT /\ v # TRAMPOLINE
  BY ConstantFacts, MemorySetAssumption DEF Page, TRAP_CONTEXT, TRAMPOLINE
<1>2. v \in Mapped(s)
  BY <1>1, Zenon DEF WInv, Tidy
<1>3. PICK i \in DOMAIN areas[s] : v \in Span(areas[s][i])
  BY <1>2 DEF Mapped
<1>4. SpaceOK(areas[s], nodes[s], pte[s], state[s])
  BY DEF WInv, IInv
<1>5. pte[s][v] = areas[s][i].frames[v] /\ areas[s][i].frames \in [Span(areas[s][i]) -> Frame]
  BY <1>3, <1>4 DEF SpaceOK, Matches, AreasDisjoint
<1>6. pte[s][v] \in FramesOf(areas[s])
  BY <1>3, <1>5 DEF FramesOf, Range
<1>7. pte[s][v] \notin Range(nodes[s]) /\ pte[s][v] \in Held(s)
  BY <1>4, <1>6, HeldFacts DEF SpaceOK
<1>8. ASSUME NEW t \in Space, state[t] = "live"
      PROVE  pte[s][v] \notin Range(nodes[t]) /\ pte[s][v] # trap_cx_ppn[t]
  <2>1. trap_cx_ppn[t] = pte[t][TRAP_CONTEXT] /\ TRAP_CONTEXT \in Mapped(t)
    BY <1>8 DEF WInv, Tidy
  <2>2. /\ pte[t][TRAP_CONTEXT] \in Held(t)
        /\ t = s => pte[t][TRAP_CONTEXT] # pte[s][v]
    BY <1>1, <1>2, <2>1, MappedFacts DEF WInv
  <2>3. Range(nodes[t]) \subseteq Held(t)
    BY DEF Held
  <2>4. t # s => Held(t) \cap Held(s) = {}
    BY DEF WInv, IInv
  <2> QED BY <1>7, <2>1, <2>2, <2>3, <2>4
<1> QED BY <1>8 DEF KernelFrames

LEMMA StoreTidy ==
    ASSUME WInv, NEW s \in Space, NEW v \in Stored, NEW x \in Value, Store(s, v, x)
    PROVE  (\A t \in Space : Tidy(t)') /\ [VM!Next]_(VM!vars)
<1> DEFINE P == Mapped(s)
<1>1. /\ state[s] = "live" /\ pte[s][v] # Invalid /\ mem' = [mem EXCEPT ![pte[s][v]] = x]
      /\ UNCHANGED <<state, areas, nodes, pte, trap_cx_ppn>>
  BY StoreMisses, Zenon DEF Store
<1>2. /\ {w \in Page : pte[s][w] # Invalid} = P \cup {TRAMPOLINE}
      /\ TRAP_CONTEXT \in P /\ s \in Live /\ View[s] = [w \in P |-> mem[pte[s][w]]]
  BY <1>1, LiveFacts, Zenon
<1>3. v \in Page /\ v # TRAP_CONTEXT /\ v # TRAMPOLINE
  BY ConstantFacts, MemorySetAssumption DEF Page, TRAP_CONTEXT, TRAMPOLINE
<1>4. v \in P
  BY <1>1, <1>2, <1>3, Zenon
<1>5. Mapped(s)' = P
  BY <1>1 DEF Mapped
<1>6. /\ P \subseteq Page /\ \A w \in P : pte[s][w] \in Held(s) /\ pte[s][w] \in Frame
      /\ \A w \in P : w # v => pte[s][w] # pte[s][v]
  BY <1>4, MappedFacts DEF WInv
<1>7. mem'[pte[s][v]] = x /\ \A h \in Frame : h # pte[s][v] => mem'[h] = mem[h]
  BY <1>1, <1>4, <1>6, Zenon DEF WInv, IInv
<1>8. /\ Tidy(s)' /\ Live' = Live
      /\ trap_cx_ppn' = [trap_cx_ppn EXCEPT ![s] = trap_cx_ppn'[s]]
  <2>1. mem'[pte[s][TRAP_CONTEXT]] = mem[pte[s][TRAP_CONTEXT]]
    BY <1>2, <1>3, <1>6, <1>7, Zenon
  <2> QED BY <1>1, <1>2, <1>5, <2>1, StaysTidy, Zenon
<1>9. /\ \A t \in Space : Tidy(t)'
      /\ View' = [View EXCEPT ![s] = [w \in P |-> mem'[pte'[s][w]]]]
  <2>1. \A t \in Space : Held(t) \subseteq Frame /\ (t # s => Held(t) \cap Held(s) = {})
    BY DEF WInv, IInv
  <2>2. \A t \in Space : t # s => \A h \in Held(t) : mem'[h] = mem[h]
    BY <1>4, <1>6, <1>7, <2>1, Zenon
  <2>3. OnlySpace(s)
    BY <1>1, Zenon DEF OnlySpace, WInv, IInv
  <2> QED BY <1>5, <1>8, <2>2, <2>3, OthersStay, Zenon
<1>10. VM!Store(s, v, x)
  <2>1. [w \in P |-> mem'[pte'[s][w]]] = [View[s] EXCEPT ![v] = x]
    <3>1. ASSUME NEW w \in P
          PROVE  mem'[pte'[s][w]] = IF w = v THEN x ELSE View[s][w]
      BY <1>1, <1>2, <1>6, <1>7, Zenon
    <3>2. [View[s] EXCEPT ![v] = x] = [w \in P |-> IF w = v THEN x ELSE View[s][w]]
      <4> HIDE DEF P
      <4> QED BY <1>2
    <3> QED BY <3>1, <3>2, Zenon
  <2>2. v \in DOMAIN View[s]
    BY <1>2, <1>4, Zenon
  <2> QED BY <1>2, <1>3, <1>8, <1>9, <2>1, <2>2, Zenon DEF VM!Store, Live
<1> QED BY <1>3, <1>9, <1>10, Zenon DEF VM!Next
LEMMA MunmapTidy ==
    ASSUME WInv, WellBehaved, NEW s \in Space, NEW a, NEW b, Munmap(s, a, b)
    PROVE  (\A t \in Space : Tidy(t)') /\ [VM!Next]_(VM!vars)
<1>1. PICK i \in Inside(s, a, b) :
        /\ state[s] = "live" /\ TRAP_CONTEXT \notin Span(areas[s][i])
        /\ areas' = [areas EXCEPT ![s] = remove(@, i)]
        /\ pte' = [pte EXCEPT ![s] =
                      [v \in Page |-> IF v \in Span(areas[s][i]) THEN Invalid ELSE @[v]]]
        /\ mem' = Freed(mem, Range(areas[s][i].frames))
        /\ UNCHANGED <<state, nodes, trap_cx_ppn>>
  BY Zenon DEF Munmap
<1> DEFINE A == areas[s]
           n == Len(A)
           gone == Span(A[i])
           P == Mapped(s)
<1>2. /\ A \in Seq(Area) /\ AreasDisjoint(A) /\ n \in Nat /\ DOMAIN A = 1..n
      /\ Matches(A, pte[s]) /\ Held(s) = FramesOf(A) \cup Range(nodes[s])
      /\ A[i].start \in Page /\ A[i].end \in 0..NPages /\ i \in 1..n
  BY SpaceFacts, Zenon DEF WInv, Inside
<1>3. /\ {v \in Page : pte[s][v] # Invalid} = P \cup {TRAMPOLINE}
      /\ TRAP_CONTEXT \in P /\ TRAMPOLINE \notin P /\ s \in Live
      /\ View[s] = [v \in P |-> mem[pte[s][v]]]
  BY <1>1, LiveFacts, Zenon
<1>4. /\ P \subseteq Page /\ \A v \in P : pte[s][v] \in Held(s) /\ pte[s][v] \in Frame
      /\ \A v, w \in P : v # w => pte[s][v] # pte[s][w]
  BY MappedFacts DEF WInv
<1>5. gone \subseteq P /\ \A v \in gone : pte[s][v] = A[i].frames[v]
  BY <1>2 DEF Mapped, Matches
<1>6. Mapped(s)' = P \ gone
  <2> DEFINE B == remove(A, i)
  <2>1. areas'[s] = B
    BY <1>1, Zenon DEF WInv, IInv
  <2>2. /\ \A j \in DOMAIN B : \E k \in DOMAIN A : k # i /\ B[j] = A[k]
        /\ \A k \in DOMAIN A : k # i => \E j \in DOMAIN B : B[j] = A[k]
    <3>1. A \in Seq(Area) /\ i \in DOMAIN A
      BY <1>2, Zenon
    <3> HIDE DEF A
    <3> QED BY <3>1, RemoveLeaves, Zenon
  <2>3. \A k \in DOMAIN A : k # i => Span(A[k]) \cap gone = {}
    BY <1>2, Zenon DEF AreasDisjoint
  <2>4. Mapped(s)' = UNION {Span(B[j]) : j \in DOMAIN B}
    BY <2>1, Zenon DEF Mapped, Span
  <2>5. P = UNION {Span(A[j]) : j \in DOMAIN A}
    BY Zenon DEF Mapped
  <2> HIDE DEF A, B, P, gone
  <2>6. ASSUME NEW v \in Mapped(s)' PROVE v \in P \ gone
    <3>1. PICK j \in DOMAIN B : v \in Span(B[j])
      BY <2>4, Zenon
    <3>2. PICK k \in DOMAIN A : k # i /\ B[j] = A[k]
      BY <2>2, Zenon
    <3> QED BY <2>3, <2>5, <3>1, <3>2
  <2>7. \A v : v \in P \ gone => v \in Mapped(s)'
    BY <2>2, <2>4, <2>5, Zenon DEF gone
  <2> QED BY <2>6, <2>7, Zenon
<1>7. /\ \A v \in gone : pte'[s][v] = Invalid
      /\ \A v \in Page \ gone : pte'[s][v] = pte[s][v]
  BY <1>1, <1>4, <1>5, Zenon DEF WInv, IInv
<1>8. Range(A[i].frames) = {pte[s][v] : v \in gone} /\ Range(A[i].frames) \subseteq Held(s)
  <2>1. DOMAIN A[i].frames = gone
    BY <1>2, Zenon DEF AreasDisjoint
  <2> QED BY <1>4, <1>5, <2>1, Zenon DEF Range
<1>9. TRAP_CONTEXT \notin gone /\ mem' = Freed(mem, Range(A[i].frames))
  BY <1>1
<1> HIDE DEF gone, P, A
<1>10. \A v \in P \ gone : pte'[s][v] = pte[s][v] /\ mem'[pte'[s][v]] = mem[pte[s][v]]
  <2>1. \A v \in P \ gone : pte[s][v] \notin Range(A[i].frames)
    BY <1>4, <1>5, <1>8, Zenon
  <2> QED BY <1>4, <1>7, <1>9, <2>1, Zenon DEF Freed
<1>11. /\ Tidy(s)' /\ Live' = Live
       /\ trap_cx_ppn' = [trap_cx_ppn EXCEPT ![s] = trap_cx_ppn'[s]]
  <2>1. {v \in Page : pte'[s][v] # Invalid} = Mapped(s)' \cup {TRAMPOLINE}
    BY <1>3, <1>5, <1>6, <1>7, Zenon
  <2>2. TRAP_CONTEXT \in Mapped(s)' /\ TRAP_CONTEXT \in P \ gone /\ TRAMPOLINE \in Page \ gone
    <3>1. TRAP_CONTEXT \in P /\ TRAMPOLINE \notin P /\ TRAMPOLINE \in Page
      BY <1>3, ConstantFacts, Zenon
    <3> QED BY <1>5, <1>6, <1>9, <3>1, Zenon
  <2>3. /\ pte'[s][TRAMPOLINE] = pte[s][TRAMPOLINE] /\ pte'[s][TRAP_CONTEXT] = pte[s][TRAP_CONTEXT]
        /\ mem'[pte[s][TRAP_CONTEXT]] = mem[pte[s][TRAP_CONTEXT]]
    <3>1. /\ pte'[s][TRAP_CONTEXT] = pte[s][TRAP_CONTEXT]
          /\ mem'[pte'[s][TRAP_CONTEXT]] = mem[pte[s][TRAP_CONTEXT]]
      BY <1>10, <2>2, Zenon
    <3>2. pte'[s][TRAMPOLINE] = pte[s][TRAMPOLINE]
      BY <1>7, <2>2, Zenon
    <3> QED BY <3>1, <3>2, Zenon
  <2> QED BY <1>1, <2>1, <2>2, <2>3, StaysTidy, Zenon
<1>12. /\ \A t \in Space : Tidy(t)'
       /\ View' = [View EXCEPT ![s] = [v \in P \ gone |-> mem'[pte'[s][v]]]]
  <2>1. \A t \in Space : Held(t) \subseteq Frame /\ (t # s => Held(t) \cap Held(s) = {})
    BY DEF WInv, IInv
  <2>2. \A t \in Space : t # s => \A h \in Held(t) : mem'[h] = mem[h]
    BY <1>8, <1>9, <2>1, Zenon DEF Freed
  <2>3. OnlySpace(s)
    BY <1>1, Zenon DEF OnlySpace, WInv, IInv
  <2> QED BY <1>6, <1>11, <2>2, <2>3, OthersStay, Zenon
<1>13. VM!Unmap(s, gone)
  <2>1. DOMAIN View[s] = P /\ gone \subseteq P \ {TRAP_CONTEXT}
    BY <1>3, <1>5, <1>9, Zenon
  <2>2. [v \in P \ gone |-> mem'[pte'[s][v]]] = [v \in DOMAIN View[s] \ gone |-> View[s][v]]
    <3>1. \A v \in P : View[s][v] = mem[pte[s][v]]
      BY <1>3, Zenon
    <3> QED BY <1>10, <2>1, <3>1, Zenon
  <2>3. s \in Live
    BY <1>3, Zenon
  <2> QED BY <1>11, <1>12, <2>1, <2>2, <2>3, Zenon DEF VM!Unmap, Live, View
<1>14. A[i].start \in Int /\ A[i].end \in Int /\ gone = A[i].start..(A[i].end - 1)
  <2>1. A[i].start \in Page /\ A[i].end \in 0..NPages
    BY <1>2, Zenon
  <2>2. A[i].start \in Int /\ A[i].end \in Int
    <3>1. \A v \in Page : v \in Int
      BY DEF Page
    <3>2. \A v \in 0..NPages : v \in Int
      OBVIOUS
    <3> QED BY <2>1, <3>1, <3>2, Zenon
  <2> QED BY <2>2, Zenon DEF gone, Span
<1>15. CASE A[i].start < A[i].end
  <2>1. A[i].start \in Page /\ A[i].end - 1 \in Page
    <3>1. A[i].start \in Page /\ A[i].end \in 0..NPages
      BY <1>2, Zenon
    <3>2. ASSUME NEW x \in Page, NEW y \in 0..NPages, x < y PROVE y - 1 \in Page
      BY <3>2, ConstantFacts DEF Page
    <3> QED BY <1>15, <3>1, <3>2, Zenon
  <2> QED BY <1>12, <1>13, <1>14, <2>1, Zenon DEF VM!Next
<1>16. CASE ~(A[i].start < A[i].end)
  <2>1. gone = {}
    <3> HIDE DEF A, n, gone, P
    <3> QED BY <1>14, <1>16
  <2>2. [v \in P \ gone |-> mem'[pte'[s][v]]] = View[s]
    BY <1>3, <1>10, <2>1, Zenon
  <2>3. View' = View
    BY <1>12, <2>2, Zenon DEF View
  <2> QED BY <1>11, <1>12, <2>3, Zenon DEF VM!vars, Live
<1> QED BY <1>15, <1>16, Zenon

LEMMA NextTidy ==
    ASSUME WInv, WellBehaved, [Next]_vars
    PROVE  WInv' /\ [VM!Next]_(VM!vars)
<1>1. IInv'
  BY NextIInv DEF WInv
<1> SUFFICES (\A t \in Space : Tidy(t)') /\ [VM!Next]_(VM!vars)
  BY <1>1 DEF WInv
<1>2. ASSUME NEW s \in Space, NEW k \in ElfPages, SpawnSpace(s, k) \/ Exec(s, k)
      PROVE  (\A t \in Space : Tidy(t)') /\ [VM!Next]_(VM!vars)
  BY <1>2, LoadTidy DEF SpawnSpace, Exec
<1>3. ASSUME NEW p \in Space, NEW c \in Space, Fork(p, c)
      PROVE  (\A t \in Space : Tidy(t)') /\ [VM!Next]_(VM!vars)
  BY <1>3, ForkTidy
<1>4. ASSUME NEW s \in Space, Exit(s) \/ Reap(s) \/ MmapWraps(s)
      PROVE  (\A t \in Space : Tidy(t)') /\ [VM!Next]_(VM!vars)
  BY <1>4, ExitTidy, ReapTidy, StopTidy DEF MmapWraps
<1>5. ASSUME NEW s \in Space, NEW r \in Ranges, Mmap(s, r[1], r[2]) \/ Munmap(s, r[1], r[2])
      PROVE  (\A t \in Space : Tidy(t)') /\ [VM!Next]_(VM!vars)
  <2>1. r[1] \in Page /\ r[2] \in 0..NPages /\ r[1] <= r[2]
    BY MemorySetAssumption
  <2> QED BY <1>5, <2>1, MmapTidy, MunmapTidy
<1>6. ASSUME NEW s \in Space, NEW v \in Stored, NEW x \in Value, Store(s, v, x)
      PROVE  (\A t \in Space : Tidy(t)') /\ [VM!Next]_(VM!vars)
  BY <1>6, StoreTidy
<1>7. CASE UNCHANGED vars
  <2>1. \A t \in Space : Mapped(t)' = Mapped(t)
    BY <1>7 DEF vars, Mapped
  <2>2. UNCHANGED View
    BY <1>7, <2>1, Zenon DEF vars, View
  <2>3. \A t \in Space : Tidy(t)'
    <3> SUFFICES ASSUME NEW t \in Space PROVE Tidy(t)'
      OBVIOUS
    <3>1. Tidy(t)
      BY DEF WInv
    <3>2. /\ state'[t] = state[t] /\ pte'[t] = pte[t] /\ trap_cx_ppn'[t] = trap_cx_ppn[t]
          /\ mem' = mem
      BY <1>7 DEF vars
    <3> QED BY <2>1, <3>1, <3>2, TidyKept, Zenon
  <2> QED BY <1>7, <2>2, <2>3 DEF vars, VM!vars
<1> QED BY <1>2, <1>3, <1>4, <1>5, <1>6, <1>7, Zenon DEF Next, Halted

LEMMA InitTidy == Init => WInv /\ VM!Init
<1> SUFFICES ASSUME Init PROVE WInv /\ VM!Init OBVIOUS
<1>1. WInv
  BY InitIInv DEF Init, WInv, Tidy
<1>2. \A s \in Space : Mapped(s) = {}
  BY DEF Init, Mapped
<1>3. View = [s \in Space |-> VM!Empty]
  BY <1>2 DEF View, VM!Empty
<1>4. {s \in Space : state[s] = "live"} = {}
  BY DEF Init
<1> QED BY <1>1, <1>3, <1>4 DEF VM!Init

\* The inductive invariant, for programs that are well behaved.
THEOREM WellBehavedInvariance ==
    ASSUME WellBehaved
    PROVE  Spec => []WInv
<1>1. Init => WInv
  BY InitTidy
<1>2. WInv /\ [Next]_vars => WInv'
  BY NextTidy
<1> QED BY <1>1, <1>2, PTL DEF Spec

\* No entry of the page table of a running task outlives the tracker of its frame, if
\* programs map only unmapped pages (sys_mmap is not undone when it fails half way).
THEOREM NoEntryOutlivesTracker ==
    ASSUME WellBehaved
    PROVE  Spec => []NoStaleMapping
<1>1. WInv => NoStaleMapping
  BY WInvImplies
<1> QED BY <1>1, WellBehavedInvariance, PTL

\* No store of a program reaches a table page or a trap context of a running task.
KernelIntact == halt # "corrupt"

\* KernelIntact holds, if programs map only unmapped pages: every entry a store can use
\* leads to a frame that the program's own areas hold.
THEOREM StoresMissKernel ==
    ASSUME WellBehaved
    PROVE  Spec => []KernelIntact
<1>1. Init => KernelIntact
  BY DEF Init, KernelIntact
<1>2. WInv /\ KernelIntact /\ [Next]_vars => KernelIntact'
  <2> SUFFICES ASSUME WInv, halt # "corrupt", [Next]_vars PROVE halt' # "corrupt"
    BY DEF KernelIntact
  <2>1. ASSUME NEW s \in Space, NEW k \in ElfPages, SpawnSpace(s, k) \/ Exec(s, k)
        PROVE  halt' # "corrupt"
    BY <2>1 DEF SpawnSpace, Exec, Load, Oom, Stop
  <2>2. ASSUME NEW p \in Space, NEW c \in Space, Fork(p, c) PROVE halt' # "corrupt"
    BY <2>2 DEF Fork, Oom, Stop
  <2>3. ASSUME NEW s \in Space, Exit(s) \/ Reap(s) \/ MmapWraps(s) PROVE halt' # "corrupt"
    BY <2>3 DEF Exit, Reap, MmapWraps, Stop
  <2>4. ASSUME NEW s \in Space, NEW a, NEW b, Mmap(s, a, b) \/ Munmap(s, a, b)
        PROVE  halt' # "corrupt"
    BY <2>4 DEF Mmap, Munmap, Oom, Stop
  <2>5. ASSUME NEW s \in Space, NEW v \in Stored, NEW x \in Value, Store(s, v, x)
        PROVE  halt' # "corrupt"
    BY <2>5, StoreMisses DEF Store
  <2>6. CASE UNCHANGED vars
    BY <2>6 DEF vars
  <2> QED BY <2>1, <2>2, <2>3, <2>4, <2>5, <2>6 DEF Next, Halted
<1> QED BY <1>1, <1>2, WellBehavedInvariance, PTL DEF Spec

\* The kernel finds the trap context of every running task, and in it the task's own
\* kernel stack, through trap_cx_ppn.
THEOREM TrapContextFound ==
    ASSUME WellBehaved
    PROVE  Spec => []TrapContextPlaced
<1>1. WInv => TrapContextPlaced
  BY WInvImplies
<1> QED BY <1>1, WellBehavedInvariance, PTL

\* MemorySet implements VirtualMemory: whatever frames the allocator hands out, every
\* step of the kernel is a step of private memories or shows in none.
THEOREM Isolation ==
    ASSUME WellBehaved
    PROVE  Spec => PrivateMemory
<1>1. Init => VM!Init
  BY InitTidy
<1>2. WInv /\ [Next]_vars => [VM!Next]_(VM!vars)
  BY NextTidy
<1> QED BY <1>1, <1>2, WellBehavedInvariance, PTL DEF Spec, PrivateMemory, VM!Spec
=============================================================================
