------------------------- MODULE BlockCache_proofs -------------------------
(***************************************************************************)
(* Proofs about BlockCache, for any number of blocks, values and objects,  *)
(* any cache size and any nesting below it: the cache never runs out, a    *)
(* block has one object, an unmodified object equals its block on the      *)
(* device, and the cache implements BlockStore.                            *)
(***************************************************************************)
EXTENDS BlockCache, SeqLemmas, FiniteSetTheorems, TLAPS

BlockObject == [block_id : Block, cache : Value, modified : BOOLEAN]

\* The invariants hold together: HandlesCurrent is needed to know that a dropped
\* object is the only one of its block, CleanIsDurable that dropping it loses
\* nothing.  While block_cache_sync_all runs, queue[syncing] exists, no closure runs,
\* and the objects before it are clean.
IInv ==
    /\ TypeOK /\ HandlesCurrent /\ CleanIsDurable /\ NoRunOut
    /\ syncing <= Len(queue)
    /\ syncing > 0 => held = <<>>
    /\ \A k \in 1..(syncing - 1) : ~obj[queue[k]].modified

LEMMA EmptyFacts ==
    ASSUME NEW S
    PROVE  <<>> \in Seq(S) /\ Len(<<>>) = 0 /\ ToSet(<<>>) = {} /\ IsInjective(<<>>)
BY DEF ToSet, IsInjective

LEMMA InitIInv == Init => IInv
<1> SUFFICES ASSUME Init PROVE IInv OBVIOUS
<1>1. /\ <<>> \in Seq(Object) /\ Len(<<>>) = 0 /\ ToSet(<<>>) = {} /\ IsInjective(<<>>)
  BY EmptyFacts
<1>2. obj \in [DOMAIN obj -> BlockObject] /\ DOMAIN obj = {}
  BY DEF Init
<1>3. queue = <<>> /\ held = <<>> /\ syncing = 0 /\ panic = FALSE /\ disk \in [Block -> Value]
  BY DEF Init
<1>4. 0 <= BLOCK_CACHE_SIZE /\ 0 <= Nesting /\ 0 \in 0..BLOCK_CACHE_SIZE
  BY BlockCacheAssumption
<1>5. TypeOK
  BY <1>1, <1>2, <1>3, <1>4 DEF TypeOK, BlockObject
<1>6. HandlesCurrent /\ CleanIsDurable /\ NoRunOut
  BY <1>1, <1>3, Zenon DEF HandlesCurrent, CleanIsDurable, NoRunOut
<1> QED
  BY <1>1, <1>3, <1>5, <1>6 DEF IInv

\* What IInv says of the objects, in the form the steps below use.
LEMMA ObjectFacts ==
    ASSUME IInv
    PROVE  /\ DOMAIN obj = ToSet(queue)
           /\ \A o \in ToSet(queue) : obj[o] \in BlockObject /\ o \in Object
           /\ obj \in [ToSet(queue) -> BlockObject]
           /\ queue \in Seq(Object) /\ IsInjective(queue)
           /\ held \in Seq(Object) /\ IsInjective(held) /\ ToSet(held) \subseteq ToSet(queue)
           /\ Len(queue) \in Nat /\ Len(held) \in Nat
           /\ Len(queue) <= BLOCK_CACHE_SIZE /\ Len(held) <= Nesting
           /\ ~panic /\ syncing \in 0..BLOCK_CACHE_SIZE /\ disk \in [Block -> Value]
<1>1. /\ queue \in Seq(Object) /\ held \in Seq(Object)
      /\ IsInjective(queue) /\ IsInjective(held)
  BY DEF IInv, TypeOK
<1>2. ToSet(queue) \subseteq Object
  BY <1>1, ToSetFacts, Zenon
<1>3. DOMAIN obj = ToSet(queue)
  BY DEF IInv, TypeOK, HandlesCurrent
<1>4. obj \in [DOMAIN obj -> BlockObject]
  BY DEF IInv, TypeOK, BlockObject
<1>5. Len(queue) \in Nat /\ Len(held) \in Nat
  BY <1>1
<1> QED
  BY <1>1, <1>2, <1>3, <1>4, <1>5 DEF IInv, TypeOK, HandlesCurrent, NoRunOut

LEMMA IntervalFacts ==
    ASSUME NEW n \in Nat
    PROVE  IsFiniteSet(1..n) /\ Cardinality(1..n) = n
<1>1. IsFiniteSet(1..n) /\ Cardinality(1..n) = IF 1 > n THEN 0 ELSE n - 1 + 1
  BY FS_Interval
<1> QED BY <1>1

\* While a caller may still nest, the queue, when full, holds an object no caller
\* refers to: more objects are queued than callers hold.
LEMMA SomeIdle ==
    ASSUME IInv, Len(held) < Nesting, Len(queue) = BLOCK_CACHE_SIZE
    PROVE  \E i \in DOMAIN queue : CanEvict(i)
<1> SUFFICES ASSUME \A i \in DOMAIN queue : queue[i] \in ToSet(held) PROVE FALSE
  BY DEF CanEvict
<1>1. /\ queue \in Seq(Object) /\ held \in Seq(Object) /\ IsInjective(queue)
      /\ Len(queue) \in Nat /\ Len(held) \in Nat /\ Len(held) < Len(queue)
  BY ObjectFacts, BlockCacheAssumption
<1>2. DOMAIN queue = 1..Len(queue) /\ DOMAIN held = 1..Len(held)
  BY <1>1
<1>3. \A i \in 1..Len(queue) : \E j \in 1..Len(held) : held[j] = queue[i]
  BY <1>1, <1>2, ToSetFacts
<1> DEFINE f == [i \in 1..Len(queue) |-> CHOOSE j \in 1..Len(held) : held[j] = queue[i]]
<1>4. f \in [1..Len(queue) -> 1..Len(held)] /\ \A i \in 1..Len(queue) : held[f[i]] = queue[i]
  BY <1>3
<1> HIDE DEF f
<1>5. /\ IsFiniteSet(1..Len(queue)) /\ Cardinality(1..Len(queue)) = Len(queue)
      /\ IsFiniteSet(1..Len(held)) /\ Cardinality(1..Len(held)) = Len(held)
  BY <1>1, IntervalFacts
<1>6. \E x, y \in 1..Len(queue) : x # y /\ f[x] = f[y]
  <2>1. Cardinality(1..Len(held)) < Cardinality(1..Len(queue))
    BY <1>1, <1>5
  <2> DEFINE S == 1..Len(queue)
             T == 1..Len(held)
  <2>2. f \in [S -> T] /\ IsFiniteSet(S) /\ IsFiniteSet(T) /\ Cardinality(T) < Cardinality(S)
    BY <1>4, <1>5, <2>1
  <2> HIDE DEF S, T
  <2>3. \E x, y \in S : x # y /\ f[x] = f[y]
    BY <2>2, FS_PigeonHole
  <2> QED BY <2>3 DEF S
<1>7. \E x, y \in 1..Len(queue) : x # y /\ queue[x] = queue[y]
  BY <1>4, <1>6
<1> QED
  BY <1>1, <1>2, <1>7 DEF IsInjective

LEMMA GetHitIInv ==
    ASSUME IInv, NEW b \in Block, GetBlockCache(b), GetHit(b)
    PROVE  IInv'
<1>1. PICK o \in Cached(b) : held' = Append(held, o) /\ UNCHANGED <<disk, queue, obj, panic, syncing>>
  BY DEF GetHit, GetBlockCache
<1>2. o \in ToSet(queue) /\ o \in Object /\ o \notin ToSet(held)
  BY ObjectFacts DEF Cached, GetBlockCache
<1>3. held \in Seq(Object) /\ IsInjective(held) /\ Len(held) \in Nat /\ Len(held) < Nesting /\ syncing = 0
  BY ObjectFacts DEF GetBlockCache
<1>4. /\ held' \in Seq(Object) /\ IsInjective(held') /\ ToSet(held') = ToSet(held) \cup {o}
      /\ Len(held') = Len(held) + 1
  BY <1>1, <1>2, <1>3, AppendSet, AppendProperties
<1>5. Len(held') <= Nesting
  BY <1>3, <1>4, BlockCacheAssumption
<1>6. ToSet(held') \subseteq ToSet(queue)
  BY <1>2, <1>4, ObjectFacts
<1>7. TypeOK'
  <2>1. DOMAIN obj = ToSet(queue) \cup ToSet(held')
    BY <1>6, ObjectFacts
  <2> QED BY <1>1, <1>4, <1>5, <2>1 DEF IInv, TypeOK
<1> QED
  BY <1>1, <1>3, <1>6, <1>7 DEF IInv, HandlesCurrent, CleanIsDurable, NoRunOut

\* A block is read into a new object o once the queue is q, the old one without the
\* objects `gone': GetMiss, and GetEvict when it has made room.
LEMMA LoadIInv ==
    ASSUME IInv, NEW b \in Block, GetBlockCache(b), Cached(b) = {},
           NEW o \in Object \ DOMAIN obj, NEW q \in Seq(Object), NEW gone \in SUBSET ToSet(queue),
           IsInjective(q), Len(q) < BLOCK_CACHE_SIZE,
           ToSet(q) = ToSet(queue) \ gone, gone \cap ToSet(held) = {},
           queue' = Append(q, o), LoadBlock(o, b, disk', gone), panic' = panic,
           disk' \in [Block -> Value],
           \A p \in ToSet(q) : disk'[obj[p].block_id] = disk[obj[p].block_id]
    PROVE  IInv'
<1>1. /\ held \in Seq(Object) /\ IsInjective(held) /\ Len(held) \in Nat /\ Len(held) < Nesting
      /\ syncing = 0 /\ syncing' = 0 /\ ~panic' /\ ToSet(held) \subseteq ToSet(queue)
  BY ObjectFacts DEF GetBlockCache
<1>2. o \notin ToSet(queue) /\ o \notin ToSet(q) /\ o \notin ToSet(held)
  BY ObjectFacts
<1>3. /\ queue' \in Seq(Object) /\ IsInjective(queue') /\ ToSet(queue') = ToSet(q) \cup {o}
      /\ Len(queue') = Len(q) + 1 /\ Len(q) \in Nat
  BY <1>2, AppendSet, AppendProperties
<1>4. held' = Append(held, o)
  BY DEF LoadBlock
<1>5. /\ held' \in Seq(Object) /\ IsInjective(held') /\ ToSet(held') = ToSet(held) \cup {o}
      /\ Len(held') = Len(held) + 1
  BY <1>1, <1>2, <1>4, AppendSet, AppendProperties
<1>6. Len(held') <= Nesting /\ Len(queue') <= BLOCK_CACHE_SIZE /\ 0 <= Len(queue')
  BY <1>1, <1>3, <1>5, BlockCacheAssumption
<1>7. ToSet(held') \subseteq ToSet(queue')
  BY <1>1, <1>3, <1>5
<1>8. (DOMAIN obj \cup {o}) \ gone = ToSet(queue')
  BY <1>2, <1>3, ObjectFacts
<1>9. /\ DOMAIN obj' = ToSet(queue')
      /\ obj'[o] = [block_id |-> b, cache |-> disk'[b], modified |-> FALSE]
      /\ \A p \in ToSet(q) : obj'[p] = obj[p]
  BY <1>2, <1>3, <1>8 DEF LoadBlock
<1>10. \A p \in ToSet(q) : obj[p] \in BlockObject /\ obj[p].block_id # b
  BY ObjectFacts DEF Cached
<1>11. obj' \in [DOMAIN obj' -> BlockObject]
  <2>1. obj'[o] \in BlockObject
    BY <1>9 DEF BlockObject
  <2>2. obj' = [p \in DOMAIN obj' |-> obj'[p]]
    BY DEF LoadBlock
  <2>3. \A p \in DOMAIN obj' : obj'[p] \in BlockObject
    BY <1>3, <1>9, <1>10, <2>1
  <2> QED BY <2>2, <2>3
<1>12. TypeOK'
  <2>1. DOMAIN obj' = ToSet(queue') \cup ToSet(held')
    BY <1>7, <1>9
  <2>2. syncing' \in 0..BLOCK_CACHE_SIZE /\ panic' \in BOOLEAN
    BY <1>1, BlockCacheAssumption DEF IInv, TypeOK
  <2> QED BY <1>3, <1>5, <1>6, <1>11, <2>1, <2>2 DEF TypeOK, BlockObject
<1>13. HandlesCurrent'
  <2>1. \A p, r \in ToSet(q) : obj[p].block_id = obj[r].block_id => p = r
    BY DEF IInv, HandlesCurrent
  <2>2. obj'[o].block_id = b
    BY <1>9
  <2>3. \A p, r \in ToSet(queue') : obj'[p].block_id = obj'[r].block_id => p = r
    BY <1>3, <1>9, <1>10, <2>1, <2>2, Zenon
  <2> QED BY <1>7, <2>3 DEF HandlesCurrent
<1>14. CleanIsDurable'
  <2>1. \A p \in ToSet(q) : ~obj[p].modified => obj[p].cache = disk[obj[p].block_id]
    BY DEF IInv, CleanIsDurable
  <2>2. obj'[o].block_id = b /\ obj'[o].cache = disk'[b]
    BY <1>9
  <2> QED BY <1>3, <1>9, <2>1, <2>2 DEF CleanIsDurable
<1> QED
  BY <1>1, <1>6, <1>12, <1>13, <1>14 DEF IInv, NoRunOut

LEMMA GetMissIInv ==
    ASSUME IInv, NEW b \in Block, GetBlockCache(b), Cached(b) = {}, GetMiss(b)
    PROVE  IInv'
<1>1. PICK o \in Object \ DOMAIN obj :
        /\ Len(queue) < BLOCK_CACHE_SIZE
        /\ queue' = Append(queue, o)
        /\ LoadBlock(o, b, disk, {})
        /\ UNCHANGED <<disk, panic>>
  BY DEF GetMiss
<1>2. LoadBlock(o, b, disk', {})
  BY <1>1
<1>3. /\ queue \in Seq(Object) /\ IsInjective(queue) /\ ToSet(queue) = ToSet(queue) \ {}
      /\ {} \in SUBSET ToSet(queue) /\ {} \cap ToSet(held) = {}
      /\ disk' \in [Block -> Value]
      /\ \A p \in ToSet(queue) : disk'[obj[p].block_id] = disk[obj[p].block_id]
  BY <1>1, ObjectFacts
<1> QED
  BY <1>1, <1>2, <1>3, LoadIInv, Zenon
\* The dropped object is the only one of its block, so the blocks of the objects
\* that stay keep their contents on the device.
LEMMA DropFacts ==
    ASSUME IInv, NEW e \in ToSet(queue)
    PROVE  /\ AfterDrop({e}) = WriteBack(e)
           /\ WriteBack(e) \in [Block -> Value]
           /\ \A c \in Block : c # obj[e].block_id => WriteBack(e)[c] = disk[c]
           /\ WriteBack(e)[obj[e].block_id] = obj[e].cache
<1>1. (CHOOSE o \in {e} : TRUE) = e /\ {e} # {}
  OBVIOUS
<1>2. obj[e] \in BlockObject /\ disk \in [Block -> Value]
  BY ObjectFacts
<1>3. obj[e].block_id \in Block /\ obj[e].cache \in Value
  BY <1>2 DEF BlockObject
<1>4. ~obj[e].modified => obj[e].cache = disk[obj[e].block_id]
  BY DEF IInv, CleanIsDurable
<1>5. AfterDrop({e}) = WriteBack(e)
  BY <1>1 DEF AfterDrop
<1> QED
  BY <1>2, <1>3, <1>4, <1>5 DEF WriteBack

LEMMA GetEvictIInv ==
    ASSUME IInv, NEW b \in Block, GetBlockCache(b), Cached(b) = {}, GetEvict(b)
    PROVE  IInv'
<1>1. Len(held) < Nesting /\ Len(queue) = BLOCK_CACHE_SIZE
  BY DEF GetBlockCache, GetEvict
<1>2. \E i \in DOMAIN queue : CanEvict(i)
  BY <1>1, SomeIdle
<1>3. PICK i \in DOMAIN queue, o \in Object \ DOMAIN obj :
        /\ CanEvict(i)
        /\ queue' = Append(RemoveAt(queue, i), o)
        /\ disk' = AfterDrop({queue[i]} \ ToSet(held))
        /\ LoadBlock(o, b, disk', {queue[i]} \ ToSet(held))
        /\ panic' = panic
  BY <1>2 DEF GetEvict
<1> DEFINE e == queue[i]
           q == RemoveAt(queue, i)
<1>4. queue \in Seq(Object) /\ IsInjective(queue) /\ Len(queue) \in Nat
  BY ObjectFacts
<1>5. i \in 1..Len(queue) /\ e \in ToSet(queue)
  BY <1>4, ToSetFacts
<1>6. /\ q \in Seq(Object) /\ IsInjective(q) /\ ToSet(q) = ToSet(queue) \ {e}
      /\ Len(q) = Len(queue) - 1
  BY <1>4, <1>5, RemoveAtSet, RemoveAtFacts
<1>7. Len(q) < BLOCK_CACHE_SIZE
  BY <1>1, <1>4, <1>6
<1>8. {e} \ ToSet(held) = {e} /\ {e} \cap ToSet(held) = {} /\ {e} \in SUBSET ToSet(queue)
  BY <1>3, <1>5 DEF CanEvict
<1>9. queue' = Append(q, o) /\ LoadBlock(o, b, disk', {e}) /\ disk' = WriteBack(e)
  BY <1>3, <1>5, <1>8, DropFacts
<1>10. disk' \in [Block -> Value]
  BY <1>5, <1>9, DropFacts
<1>11. ASSUME NEW p \in ToSet(q) PROVE disk'[obj[p].block_id] = disk[obj[p].block_id]
  <2>1. p \in ToSet(queue) /\ p # e
    BY <1>6
  <2>2. obj[p].block_id # obj[e].block_id
    BY <1>5, <2>1 DEF IInv, HandlesCurrent
  <2>3. obj[p].block_id \in Block
    BY <2>1, ObjectFacts DEF BlockObject
  <2> QED BY <1>5, <1>9, <2>2, <2>3, DropFacts
<1> HIDE DEF e, q
<1> QED
  BY <1>3, <1>6, <1>7, <1>8, <1>9, <1>10, <1>11, LoadIInv, Zenon

LEMMA GetIInv ==
    ASSUME IInv, NEW b \in Block, GetBlockCache(b)
    PROVE  IInv'
BY GetHitIInv, GetMissIInv, GetEvictIInv DEF GetBlockCache, Find

LEMMA ModifyIInv ==
    ASSUME IInv, NEW v \in Value, Modify(v)
    PROVE  IInv'
<1> DEFINE o == Last(held)
<1>1. o \in ToSet(held)
  BY ObjectFacts, FrontSet DEF Modify
<1>2. o \in ToSet(queue) /\ obj \in [ToSet(queue) -> BlockObject]
  BY <1>1, ObjectFacts
<1>3. obj' = [obj EXCEPT ![o].cache = v, ![o].modified = TRUE]
  BY DEF Modify
<1> HIDE DEF o
<1>4. /\ obj' \in [ToSet(queue) -> BlockObject]
      /\ obj'[o] = [block_id |-> obj[o].block_id, cache |-> v, modified |-> TRUE]
      /\ \A p \in ToSet(queue) : p # o => obj'[p] = obj[p]
  BY <1>2, <1>3 DEF BlockObject
<1>5. UNCHANGED <<disk, queue, held, syncing, panic>> /\ syncing = 0
  BY DEF Modify
<1>6. TypeOK'
  <2>1. DOMAIN obj = ToSet(queue) /\ DOMAIN obj' = ToSet(queue)
    BY <1>2, <1>4
  <2> QED BY <1>4, <1>5, <2>1 DEF IInv, TypeOK, BlockObject
<1>7. obj'[o].block_id = obj[o].block_id /\ obj'[o].modified
  BY <1>4
<1>8. HandlesCurrent'
  BY <1>2, <1>4, <1>5, <1>7 DEF IInv, HandlesCurrent
<1>9. CleanIsDurable'
  BY <1>2, <1>4, <1>5, <1>7 DEF IInv, CleanIsDurable
<1> QED
  BY <1>5, <1>6, <1>8, <1>9 DEF IInv, NoRunOut
\* The queue still refers to what a caller releases: nothing is dropped.
LEMMA ReleaseFacts ==
    ASSUME IInv, Release
    PROVE  /\ UNCHANGED <<disk, queue, obj, syncing, panic>>
           /\ held' = Front(held) /\ held # <<>> /\ syncing = 0
<1>1. Last(held) \in ToSet(held) /\ ToSet(held) \subseteq ToSet(queue)
  BY ObjectFacts, FrontSet DEF Release
<1>2. {Last(held)} \ ToSet(queue) = {}
  BY <1>1
<1>3. obj = [o \in DOMAIN obj |-> obj[o]]
  BY ObjectFacts
<1> QED
  BY <1>2, <1>3 DEF Release, AfterDrop

LEMMA ReleaseIInv ==
    ASSUME IInv, Release
    PROVE  IInv'
<1>1. /\ held \in Seq(Object) /\ IsInjective(held) /\ held # <<>>
      /\ ToSet(held) \subseteq ToSet(queue) /\ Len(held) <= Nesting
  BY ReleaseFacts, ObjectFacts
<1>2. /\ held' \in Seq(Object) /\ IsInjective(held') /\ ToSet(held') \subseteq ToSet(held)
      /\ Len(held') = Len(held) - 1 /\ Len(held) \in Nat
  BY <1>1, ReleaseFacts, FrontSet, FrontLastFacts
<1>3. Len(held') <= Nesting
  BY <1>1, <1>2, BlockCacheAssumption
<1>4. DOMAIN obj = ToSet(queue) \cup ToSet(held')
  BY <1>1, <1>2, ObjectFacts
<1>5. TypeOK'
  BY <1>2, <1>3, <1>4, ReleaseFacts DEF IInv, TypeOK
<1> QED
  BY <1>1, <1>2, <1>5, ReleaseFacts DEF IInv, HandlesCurrent, CleanIsDurable, NoRunOut

LEMMA SyncAllStartIInv ==
    ASSUME IInv, SyncAllStart
    PROVE  IInv'
<1>1. /\ held = <<>> /\ queue # <<>> /\ syncing' = 1
      /\ UNCHANGED <<disk, queue, held, obj, panic>>
  BY DEF SyncAllStart
<1>2. 1 <= Len(queue) /\ Len(queue) \in Nat /\ Len(queue) <= BLOCK_CACHE_SIZE
  BY <1>1, ObjectFacts, FrontLastFacts
<1>3. 1 \in 0..BLOCK_CACHE_SIZE
  BY <1>2, BlockCacheAssumption
<1>4. TypeOK'
  BY <1>1, <1>3 DEF IInv, TypeOK
<1> QED
  BY <1>1, <1>2, <1>4 DEF IInv, HandlesCurrent, CleanIsDurable, NoRunOut

LEMMA SyncAllStepFacts ==
    ASSUME IInv, SyncAllStep
    PROVE  \E o \in ToSet(queue) :
             /\ o = queue[syncing]
             /\ disk' = WriteBack(o)
             /\ obj' \in [ToSet(queue) -> BlockObject]
             /\ obj'[o] = [block_id |-> obj[o].block_id, cache |-> obj[o].cache,
                           modified |-> FALSE]
             /\ \A p \in ToSet(queue) : p # o => obj'[p] = obj[p]
<1> DEFINE o == queue[syncing]
<1>1. syncing \in 1..Len(queue)
  BY ObjectFacts DEF SyncAllStep, IInv
<1>2. o \in ToSet(queue) /\ obj \in [ToSet(queue) -> BlockObject]
  BY <1>1, ObjectFacts, ToSetFacts
<1>3. obj' = [obj EXCEPT ![o].modified = FALSE] /\ disk' = WriteBack(o)
  BY DEF SyncAllStep
<1> HIDE DEF o
<1>4. /\ obj' \in [ToSet(queue) -> BlockObject]
      /\ obj'[o] = [block_id |-> obj[o].block_id, cache |-> obj[o].cache, modified |-> FALSE]
      /\ \A p \in ToSet(queue) : p # o => obj'[p] = obj[p]
  BY <1>2, <1>3 DEF BlockObject
<1> QED
  BY <1>2, <1>3, <1>4 DEF o

LEMMA SyncAllStepIInv ==
    ASSUME IInv, SyncAllStep
    PROVE  IInv'
<1>1. PICK o \in ToSet(queue) :
        /\ o = queue[syncing]
        /\ disk' = WriteBack(o)
        /\ obj' \in [ToSet(queue) -> BlockObject]
        /\ obj'[o] = [block_id |-> obj[o].block_id, cache |-> obj[o].cache, modified |-> FALSE]
        /\ \A p \in ToSet(queue) : p # o => obj'[p] = obj[p]
  BY SyncAllStepFacts
<1>2. /\ UNCHANGED <<queue, held, panic>> /\ syncing > 0 /\ syncing' = SyncNext
      /\ held = <<>> /\ syncing <= Len(queue)
  BY DEF SyncAllStep, IInv
<1>3. syncing' \in 0..BLOCK_CACHE_SIZE /\ syncing' <= Len(queue)
  BY <1>2, ObjectFacts, BlockCacheAssumption DEF SyncNext
<1>4. /\ disk' \in [Block -> Value]
      /\ \A c \in Block : c # obj[o].block_id => disk'[c] = disk[c]
      /\ disk'[obj[o].block_id] = obj[o].cache
  BY <1>1, DropFacts
<1>5. TypeOK'
  <2>1. DOMAIN obj = ToSet(queue) /\ DOMAIN obj' = ToSet(queue)
    BY <1>1, ObjectFacts
  <2> QED BY <1>1, <1>2, <1>3, <1>4, <2>1 DEF IInv, TypeOK, BlockObject
<1>6. obj'[o].block_id = obj[o].block_id /\ obj'[o].cache = obj[o].cache
  BY <1>1
<1>7. HandlesCurrent'
  BY <1>1, <1>2, <1>6 DEF IInv, HandlesCurrent
<1>8. CleanIsDurable'
  <2> SUFFICES ASSUME NEW p \in ToSet(queue), ~obj'[p].modified
               PROVE  obj'[p].cache = disk'[obj'[p].block_id]
    BY <1>2 DEF CleanIsDurable
  <2>1. CASE p = o
    BY <1>4, <1>6, <2>1
  <2>2. CASE p # o
    <3>1. obj[p].block_id # obj[o].block_id /\ obj'[p] = obj[p]
      BY <1>1, <2>2 DEF IInv, HandlesCurrent
    <3>2. obj[p].block_id \in Block
      BY ObjectFacts DEF BlockObject
    <3> QED BY <1>4, <3>1, <3>2 DEF IInv, CleanIsDurable
  <2> QED BY <2>1, <2>2
<1>9. ASSUME NEW k \in 1..(syncing' - 1) PROVE ~obj'[queue[k]].modified
  <2>1. k \in 1..Len(queue) /\ (k = syncing \/ k \in 1..(syncing - 1))
    BY <1>2, <1>3, ObjectFacts DEF SyncNext
  <2>2. queue[k] \in ToSet(queue)
    BY <2>1, ObjectFacts, ToSetFacts
  <2>3. CASE queue[k] = o
    BY <1>1, <2>3
  <2>4. CASE queue[k] # o
    <3>1. k \in 1..(syncing - 1)
      BY <1>1, <2>1, <2>4
    <3> QED BY <1>1, <2>2, <2>4, <3>1 DEF IInv
  <2> QED BY <2>3, <2>4
<1>10. \A k \in 1..(syncing' - 1) : ~obj'[queue'[k]].modified
  BY <1>2, <1>9
<1> QED
  BY <1>2, <1>3, <1>5, <1>7, <1>8, <1>10 DEF IInv, NoRunOut

LEMMA CrashIInv ==
    ASSUME IInv, Crash
    PROVE  IInv'
<1>1. disk' \in [Block -> Value] /\ queue' = <<>> /\ held' = <<>> /\ obj' = <<>>
  BY ObjectFacts DEF Crash
<1>2. syncing' = 0 /\ panic' = FALSE
  BY DEF Crash
<1>3. <<>> \in Seq(Object) /\ Len(<<>>) = 0 /\ ToSet(<<>>) = {} /\ IsInjective(<<>>)
  BY EmptyFacts
<1>4. obj' \in [DOMAIN obj' -> BlockObject] /\ DOMAIN obj' = {}
  BY <1>1
<1>5. 0 <= BLOCK_CACHE_SIZE /\ 0 <= Nesting /\ 0 \in 0..BLOCK_CACHE_SIZE
  BY BlockCacheAssumption
<1>6. TypeOK'
  BY <1>1, <1>2, <1>3, <1>4, <1>5 DEF TypeOK, BlockObject
<1>7. HandlesCurrent' /\ CleanIsDurable' /\ NoRunOut'
  BY <1>1, <1>2, <1>3, Zenon DEF HandlesCurrent, CleanIsDurable, NoRunOut
<1> QED
  BY <1>1, <1>2, <1>3, <1>6, <1>7 DEF IInv

LEMMA NextIInv == IInv /\ [Next]_vars => IInv'
<1> SUFFICES ASSUME IInv, [Next]_vars PROVE IInv' OBVIOUS
<1>1. CASE Next
  BY <1>1, GetIInv, ModifyIInv, ReleaseIInv, SyncAllStartIInv, SyncAllStepIInv, CrashIInv DEF Next
<1>2. CASE UNCHANGED vars
  BY <1>2 DEF vars, IInv, TypeOK, HandlesCurrent, CleanIsDurable, NoRunOut
<1> QED BY <1>1, <1>2

\* The inductive invariant holds in every reachable state.
THEOREM Invariance == Spec => []IInv
BY InitIInv, NextIInv, PTL DEF Spec

\* get_block_cache never holds more than BLOCK_CACHE_SIZE objects, for any cache size.
THEOREM TypeCorrect == Spec => []TypeOK
<1>1. IInv => TypeOK
  BY DEF IInv
<1> QED BY <1>1, Invariance, PTL

\* A caller of get_block_cache always holds the queued, only object of its block.
THEOREM OneObjectPerBlock == Spec => []HandlesCurrent
<1>1. IInv => HandlesCurrent
  BY DEF IInv
<1> QED BY <1>1, Invariance, PTL

\* Dropping an object that is not marked modified loses nothing.
THEOREM UnmodifiedIsDurable == Spec => []CleanIsDurable
<1>1. IInv => CleanIsDurable
  BY DEF IInv
<1> QED BY <1>1, Invariance, PTL

\* The panic "Run out of BlockCache!" is unreachable for every cache larger than the
\* depth to which closures nest.
THEOREM NeverRunsOut == Spec => []NoRunOut
<1>1. IInv => NoRunOut
  BY DEF IInv
<1> QED BY <1>1, Invariance, PTL
\* An object of the queue holds what its block logically holds, and the device
\* holds the rest.
LogicalIs ==
    /\ Logical \in [Block -> Value]
    /\ \A o \in ToSet(queue) : Logical[obj[o].block_id] = obj[o].cache
    /\ \A b \in Block : Cached(b) = {} => Logical[b] = disk[b]

LEMMA LogicalFacts == IInv => LogicalIs
<1> SUFFICES ASSUME IInv PROVE LogicalIs OBVIOUS
<1>1. \A o \in ToSet(queue) : obj[o].block_id \in Block /\ obj[o].cache \in Value
  BY ObjectFacts DEF BlockObject
<1>2. \A o \in ToSet(queue) : Cached(obj[o].block_id) = {o}
  BY DEF Cached, IInv, HandlesCurrent
<1>3. \A b \in Block : Cached(b) # {} =>
        (CHOOSE o \in Cached(b) : TRUE) \in Cached(b)
  OBVIOUS
<1>4. \A b \in Block : Cached(b) \subseteq ToSet(queue)
  BY DEF Cached
<1>5. disk \in [Block -> Value]
  BY ObjectFacts
<1>6. Logical \in [Block -> Value]
  BY <1>1, <1>3, <1>4, <1>5 DEF Logical
<1>7. ASSUME NEW o \in ToSet(queue) PROVE Logical[obj[o].block_id] = obj[o].cache
  <2>1. obj[o].block_id \in Block /\ Cached(obj[o].block_id) = {o} /\ {o} # {}
    BY <1>1, <1>2
  <2>2. (CHOOSE p \in {o} : TRUE) = o
    OBVIOUS
  <2> QED BY <2>1, <2>2 DEF Logical
<1>8. \A b \in Block : Cached(b) = {} => Logical[b] = disk[b]
  BY DEF Logical
<1> QED BY <1>6, <1>7, <1>8 DEF LogicalIs

LEMMA LogicalFactsNext == IInv' => LogicalIs'
BY LogicalFacts, PTL

\* A step makes the blocks logically hold L if every queued object then holds what
\* L says of its block, and the device what L says of the others.
LEMMA LogicalNext ==
    ASSUME IInv', NEW L \in [Block -> Value],
           \A p \in ToSet(queue)' : obj'[p].cache = L[obj'[p].block_id],
           \A c \in Block : Cached(c)' = {} => disk'[c] = L[c]
    PROVE  Logical' = L
<1>1. LogicalIs'
  BY LogicalFactsNext
<1>2. ASSUME NEW c \in Block PROVE Logical'[c] = L[c]
  <2>1. CASE Cached(c)' = {}
    BY <1>1, <2>1 DEF LogicalIs
  <2>2. CASE Cached(c)' # {}
    <3>1. PICK p \in ToSet(queue') : obj'[p].block_id = c
      BY <2>2 DEF Cached
    <3> QED BY <1>1, <3>1 DEF LogicalIs
  <2> QED BY <2>1, <2>2
<1> QED BY <1>1, <1>2 DEF LogicalIs
\* The blocks of the closures that run, as a sequence.
OpenedIs ==
    /\ Opened \in Seq(Block) /\ Len(Opened) = Len(held)
    /\ \A i \in 1..Len(held) : Opened[i] = obj[held[i]].block_id

LEMMA OpenedFacts == IInv => OpenedIs
<1> SUFFICES ASSUME IInv PROVE OpenedIs OBVIOUS
<1>1. held \in Seq(Object) /\ Len(held) \in Nat /\ DOMAIN held = 1..Len(held)
  BY ObjectFacts
<1>2. \A i \in 1..Len(held) : held[i] \in ToSet(held)
  BY <1>1, ToSetFacts, Zenon
<1>3. \A i \in 1..Len(held) : obj[held[i]].block_id \in Block
  BY <1>2, ObjectFacts DEF BlockObject
<1>4. Opened \in [1..Len(held) -> Block]
  BY <1>1, <1>3 DEF Opened
<1> QED BY <1>1, <1>4 DEF Opened, OpenedIs

LEMMA OpenedFactsNext == IInv' => OpenedIs'
BY OpenedFacts, PTL

\* A caller that gets object o of block b opens b.
LEMMA OpenedAppend ==
    ASSUME IInv, IInv', NEW b \in Block, NEW o \in Object,
           held' = Append(held, o), obj'[o].block_id = b,
           \A p \in ToSet(held) : obj'[p].block_id = obj[p].block_id
    PROVE  Opened' = Append(Opened, b)
<1>1. /\ Opened' \in Seq(Block) /\ Len(Opened') = Len(held')
      /\ \A i \in 1..Len(held') : Opened'[i] = obj'[held'[i]].block_id
  BY OpenedFactsNext DEF OpenedIs
<1>2. /\ Opened \in Seq(Block) /\ Len(Opened) = Len(held)
      /\ \A i \in 1..Len(held) : Opened[i] = obj[held[i]].block_id
  BY OpenedFacts DEF OpenedIs
<1>3. held \in Seq(Object) /\ Len(held) \in Nat
  BY ObjectFacts
<1>4. /\ Len(held') = Len(held) + 1 /\ held'[Len(held) + 1] = o
      /\ \A i \in 1..Len(held) : held'[i] = held[i]
  BY <1>3, AppendProperties
<1>5. /\ Append(Opened, b) \in Seq(Block) /\ Len(Append(Opened, b)) = Len(held) + 1
      /\ Append(Opened, b)[Len(held) + 1] = b
      /\ \A i \in 1..Len(held) : Append(Opened, b)[i] = Opened[i]
  BY <1>2, AppendProperties
<1>6. \A i \in 1..Len(held) : held[i] \in ToSet(held)
  BY <1>3, ToSetFacts, Zenon
<1>7. ASSUME NEW i \in 1..(Len(held) + 1) PROVE Opened'[i] = Append(Opened, b)[i]
  <2>1. CASE i \in 1..Len(held)
    BY <1>1, <1>2, <1>4, <1>5, <1>6, <2>1
  <2>2. CASE i = Len(held) + 1
    BY <1>1, <1>4, <1>5, <2>2
  <2>3. \A n \in Nat : \A j \in 1..(n + 1) : j \in 1..n \/ j = n + 1
    OBVIOUS
  <2>4. i \in 1..Len(held) \/ i = Len(held) + 1
    BY <1>3, <2>3, Zenon
  <2> QED BY <2>1, <2>2, <2>4, Zenon
<1> QED BY <1>1, <1>4, <1>5, <1>7, SeqEqual

\* get_block_cache opens the block, changes nothing a closure can read, and writes at
\* most the dropped object, as it logically is, to the device.
LEMMA GetHitRefines ==
    ASSUME IInv, IInv', NEW b \in Block, GetBlockCache(b), GetHit(b)
    PROVE  Store!Open(b)
<1>1. PICK o \in Cached(b) : held' = Append(held, o) /\ UNCHANGED <<disk, queue, obj>>
  BY DEF GetHit
<1>2. o \in Object /\ obj[o].block_id = b
  BY ObjectFacts DEF Cached
<1>3. Opened' = Append(Opened, b)
  BY <1>1, <1>2, OpenedAppend
<1>4. Logical' = Logical
  BY <1>1 DEF Logical, Cached
<1> QED BY <1>1, <1>3, <1>4 DEF Store!Open

LEMMA LoadRefines ==
    ASSUME IInv, IInv', NEW b \in Block, GetBlockCache(b), Cached(b) = {},
           NEW o \in Object \ DOMAIN obj, NEW q \in Seq(Object), NEW gone \in SUBSET ToSet(queue),
           ToSet(q) = ToSet(queue) \ gone, gone \cap ToSet(held) = {},
           queue' = Append(q, o), LoadBlock(o, b, disk', gone),
           \A c \in Block : (\A p \in ToSet(q) : obj[p].block_id # c) => disk'[c] = Logical[c],
           disk' = disk \/ \E c \in Block : disk' = [disk EXCEPT ![c] = Logical[c]]
    PROVE  Store!Open(b)
<1>1. /\ o \notin ToSet(queue) /\ o \notin ToSet(q) /\ o \notin ToSet(held)
      /\ ToSet(held) \subseteq ToSet(q)
  BY ObjectFacts
<1>2. ToSet(queue') = ToSet(q) \cup {o} /\ held' = Append(held, o)
  BY AppendSet DEF LoadBlock
<1>3. (DOMAIN obj \cup {o}) \ gone = ToSet(q) \cup {o}
  BY <1>1, ObjectFacts
<1>4. /\ obj'[o] = [block_id |-> b, cache |-> disk'[b], modified |-> FALSE]
      /\ \A p \in ToSet(q) : obj'[p] = obj[p]
  BY <1>1, <1>3 DEF LoadBlock
<1>5. obj'[o].block_id = b /\ obj'[o].cache = disk'[b]
  BY <1>4
<1>6. Opened' = Append(Opened, b)
  BY <1>1, <1>2, <1>4, <1>5, OpenedAppend
<1>7. LogicalIs
  BY LogicalFacts
<1>8. \A p \in ToSet(q) : obj[p].block_id # b
  BY DEF Cached
<1>9. Logical' = Logical
  <2>1. \A p \in ToSet(queue') : obj'[p].cache = Logical[obj'[p].block_id]
    BY <1>2, <1>4, <1>5, <1>7, <1>8 DEF LogicalIs
  <2>2. ASSUME NEW c \in Block, Cached(c)' = {} PROVE disk'[c] = Logical[c]
    <3>1. \A p \in ToSet(q) : obj[p].block_id # c
      BY <1>2, <1>4, <2>2 DEF Cached
    <3> QED BY <3>1
  <2> QED BY <1>7, <2>1, <2>2, LogicalNext DEF LogicalIs
<1> QED BY <1>6, <1>9 DEF Store!Open, Store!Flush
LEMMA GetMissRefines ==
    ASSUME IInv, IInv', NEW b \in Block, GetBlockCache(b), Cached(b) = {}, GetMiss(b)
    PROVE  Store!Open(b)
<1>1. PICK o \in Object \ DOMAIN obj :
        queue' = Append(queue, o) /\ LoadBlock(o, b, disk, {}) /\ disk' = disk
  BY DEF GetMiss
<1>2. LoadBlock(o, b, disk', {})
  BY <1>1
<1>3. ASSUME NEW c \in Block, \A p \in ToSet(queue) : obj[p].block_id # c
      PROVE  disk'[c] = Logical[c]
  <2>1. Cached(c) = {}
    BY <1>3 DEF Cached
  <2> QED BY <1>1, <2>1, LogicalFacts DEF LogicalIs
<1>4. /\ queue \in Seq(Object) /\ ToSet(queue) = ToSet(queue) \ {}
      /\ {} \in SUBSET ToSet(queue) /\ {} \cap ToSet(held) = {}
  BY ObjectFacts
<1> QED
  BY <1>1, <1>2, <1>3, <1>4, LoadRefines, Zenon

\* The device after a queued object is written back: its block is flushed.
LEMMA WriteBackFlushes ==
    ASSUME IInv, NEW e \in ToSet(queue)
    PROVE  /\ obj[e].block_id \in Block
           /\ WriteBack(e) = [disk EXCEPT ![obj[e].block_id] = Logical[obj[e].block_id]]
<1>1. obj[e].block_id \in Block /\ disk \in [Block -> Value]
  BY ObjectFacts DEF BlockObject
<1>2. Logical[obj[e].block_id] = obj[e].cache
  BY LogicalFacts DEF LogicalIs
<1>3. /\ WriteBack(e) \in [Block -> Value]
      /\ \A c \in Block : c # obj[e].block_id => WriteBack(e)[c] = disk[c]
      /\ WriteBack(e)[obj[e].block_id] = obj[e].cache
  BY DropFacts
<1> QED BY <1>1, <1>2, <1>3

LEMMA GetEvictRefines ==
    ASSUME IInv, IInv', NEW b \in Block, GetBlockCache(b), Cached(b) = {}, GetEvict(b)
    PROVE  Store!Open(b)
<1>1. \E i \in DOMAIN queue : CanEvict(i)
  BY SomeIdle DEF GetBlockCache, GetEvict
<1>2. PICK i \in DOMAIN queue, o \in Object \ DOMAIN obj :
        /\ CanEvict(i)
        /\ queue' = Append(RemoveAt(queue, i), o)
        /\ disk' = AfterDrop({queue[i]} \ ToSet(held))
        /\ LoadBlock(o, b, disk', {queue[i]} \ ToSet(held))
  BY <1>1 DEF GetEvict
<1> DEFINE e == queue[i]
           q == RemoveAt(queue, i)
<1>3. queue \in Seq(Object) /\ IsInjective(queue) /\ Len(queue) \in Nat
  BY ObjectFacts
<1>4. i \in 1..Len(queue) /\ e \in ToSet(queue)
  BY <1>3, ToSetFacts
<1>5. q \in Seq(Object) /\ ToSet(q) = ToSet(queue) \ {e}
  BY <1>3, <1>4, RemoveAtSet
<1>6. {e} \ ToSet(held) = {e} /\ {e} \cap ToSet(held) = {} /\ {e} \in SUBSET ToSet(queue)
  BY <1>2, <1>4 DEF CanEvict
<1>7. queue' = Append(q, o) /\ LoadBlock(o, b, disk', {e}) /\ disk' = WriteBack(e)
  BY <1>2, <1>4, <1>6, DropFacts
<1>8. \E c \in Block : disk' = [disk EXCEPT ![c] = Logical[c]]
  BY <1>4, <1>7, WriteBackFlushes
<1>9. ASSUME NEW c \in Block, \A p \in ToSet(q) : obj[p].block_id # c
      PROVE  disk'[c] = Logical[c]
  <2>1. CASE c = obj[e].block_id
    BY <1>4, <1>7, <2>1, DropFacts, LogicalFacts DEF LogicalIs
  <2>2. CASE c # obj[e].block_id
    <3>1. Cached(c) = {}
      BY <1>5, <1>9, <2>2 DEF Cached
    <3>2. disk'[c] = disk[c]
      BY <1>4, <1>7, <2>2, DropFacts
    <3> QED BY <3>1, <3>2, LogicalFacts DEF LogicalIs
  <2> QED BY <2>1, <2>2
<1> HIDE DEF e, q
<1> QED
  BY <1>2, <1>5, <1>6, <1>7, <1>8, <1>9, LoadRefines, Zenon

LEMMA ModifyRefines ==
    ASSUME IInv, IInv', NEW v \in Value, Modify(v)
    PROVE  Store!Write(v)
<1> DEFINE o == Last(held)
           c == obj[o].block_id
<1>1. held \in Seq(Object) /\ held # <<>> /\ Len(held) \in Nat /\ IsInjective(held)
  BY ObjectFacts DEF Modify
<1>2. o \in ToSet(held) /\ o = held[Len(held)] /\ Len(held) \in 1..Len(held)
  <2>1. Last(held) \in ToSet(held)
    BY <1>1, FrontSet, Zenon
  <2>2. Last(held) = held[Len(held)] /\ Len(held) \in Nat \ {0}
    BY <1>1, FrontLastFacts, Zenon
  <2> QED BY <2>1, <2>2
<1>3. /\ Opened \in Seq(Block) /\ Len(Opened) = Len(held)
      /\ \A i \in 1..Len(held) : Opened[i] = obj[held[i]].block_id
  BY OpenedFacts DEF OpenedIs
<1>4. Opened # <<>> /\ Opened[Len(Opened)] = c
  BY <1>2, <1>3
<1>5. o \in ToSet(queue) /\ obj \in [ToSet(queue) -> BlockObject] /\ c \in Block
  BY <1>2, ObjectFacts DEF BlockObject
<1>6. obj' = [obj EXCEPT ![o].cache = v, ![o].modified = TRUE]
  BY DEF Modify
<1>7. UNCHANGED <<disk, queue, held>>
  BY DEF Modify
<1>8. /\ obj'[o] = [block_id |-> c, cache |-> v, modified |-> TRUE]
      /\ \A p \in ToSet(queue) : p # o => obj'[p] = obj[p]
  <2> HIDE DEF o
  <2> QED BY <1>5, <1>6 DEF BlockObject
<1>9. obj'[o].block_id = c /\ obj'[o].cache = v
  BY <1>8
<1> HIDE DEF o, c
<1>10. \A p \in ToSet(queue) : obj'[p].block_id = obj[p].block_id
  BY <1>5, <1>8, <1>9 DEF c
<1>11. Opened' = Opened
  <2>1. \A i \in DOMAIN held : held[i] \in ToSet(queue)
    BY <1>1, ToSetFacts, ObjectFacts
  <2> QED BY <1>7, <1>10, <2>1 DEF Opened
<1>12. LogicalIs
  BY LogicalFacts
<1>13. Logical' = [Logical EXCEPT ![c] = v]
  <2> DEFINE L == [Logical EXCEPT ![c] = v]
  <2>1. L \in [Block -> Value] /\ L[c] = v /\ \A d \in Block : d # c => L[d] = Logical[d]
    BY <1>5, <1>12 DEF LogicalIs
  <2> HIDE DEF L
  <2>2. ASSUME NEW p \in ToSet(queue') PROVE obj'[p].cache = L[obj'[p].block_id]
    <3>1. CASE p = o
      BY <1>9, <2>1, <3>1
    <3>2. CASE p # o
      <4>1. p \in ToSet(queue) /\ obj'[p] = obj[p]
        BY <1>7, <1>8, <3>2
      <4>2. obj[p].block_id \in Block /\ obj[p].block_id # c
        BY <1>5, <3>2, <4>1, ObjectFacts DEF BlockObject, IInv, HandlesCurrent, c
      <4> QED BY <1>12, <2>1, <4>1, <4>2 DEF LogicalIs
    <3> QED BY <3>1, <3>2
  <2>3. ASSUME NEW d \in Block, Cached(d)' = {} PROVE disk'[d] = L[d]
    <3>1. Cached(d) = {} /\ d # c
      BY <1>5, <1>7, <1>9, <1>10, <2>3 DEF Cached
    <3> QED BY <1>7, <1>12, <2>1, <3>1 DEF LogicalIs
  <2>4. Logical' = L
    BY <2>1, <2>2, <2>3, LogicalNext
  <2> QED BY <2>4 DEF L
<1> QED BY <1>4, <1>7, <1>11, <1>13 DEF Store!Write
LEMMA ReleaseRefines ==
    ASSUME IInv, IInv', Release
    PROVE  Store!Close
<1>1. UNCHANGED <<disk, queue, obj>> /\ held' = Front(held) /\ held # <<>>
  BY ReleaseFacts
<1>2. held \in Seq(Object) /\ Len(held) \in Nat
  BY ObjectFacts
<1>3. /\ Len(held) \in Nat \ {0} /\ Len(held') = Len(held) - 1
      /\ \A j \in 1..(Len(held) - 1) : held'[j] = held[j]
  BY <1>1, <1>2, FrontLastFacts, Zenon
<1>4. /\ Opened \in Seq(Block) /\ Len(Opened) = Len(held)
      /\ \A i \in 1..Len(held) : Opened[i] = obj[held[i]].block_id
  BY OpenedFacts DEF OpenedIs
<1>5. /\ Opened' \in Seq(Block) /\ Len(Opened') = Len(held')
      /\ \A i \in 1..Len(held') : Opened'[i] = obj'[held'[i]].block_id
  BY OpenedFactsNext DEF OpenedIs
<1>6. Opened # <<>>
  BY <1>3, <1>4
<1>7. /\ Front(Opened) \in Seq(Block) /\ Len(Front(Opened)) = Len(held) - 1
      /\ \A j \in 1..(Len(held) - 1) : Front(Opened)[j] = Opened[j]
  BY <1>4, <1>6, FrontLastFacts
<1>8. \A j \in 1..(Len(held) - 1) : j \in 1..Len(held)
  BY <1>3
<1>9. ASSUME NEW j \in 1..(Len(held) - 1) PROVE Opened'[j] = Front(Opened)[j]
  <2>1. Opened'[j] = obj[held[j]].block_id
    BY <1>1, <1>3, <1>5
  <2>2. Front(Opened)[j] = obj[held[j]].block_id
    BY <1>4, <1>7, <1>8, Zenon
  <2> QED BY <2>1, <2>2
<1>10. Opened' = Front(Opened)
  BY <1>3, <1>5, <1>7, <1>9, SeqEqual
<1>11. Logical' = Logical
  BY <1>1 DEF Logical, Cached
<1> QED BY <1>1, <1>6, <1>10, <1>11 DEF Store!Close, Front

LEMMA SyncAllStepLogical ==
    ASSUME IInv, IInv', SyncAllStep
    PROVE  Logical' = Logical
<1>1. PICK o \in ToSet(queue) :
        /\ disk' = WriteBack(o)
        /\ obj'[o] = [block_id |-> obj[o].block_id, cache |-> obj[o].cache, modified |-> FALSE]
        /\ \A p \in ToSet(queue) : p # o => obj'[p] = obj[p]
  BY SyncAllStepFacts
<1>2. queue' = queue
  BY DEF SyncAllStep
<1>3. obj'[o].block_id = obj[o].block_id /\ obj'[o].cache = obj[o].cache
  BY <1>1
<1>4. \A p \in ToSet(queue) : obj'[p].block_id = obj[p].block_id /\ obj'[p].cache = obj[p].cache
  BY <1>1, <1>3
<1>5. LogicalIs
  BY LogicalFacts
<1>6. \A p \in ToSet(queue') : obj'[p].cache = Logical[obj'[p].block_id]
  BY <1>2, <1>4, <1>5 DEF LogicalIs
<1>7. ASSUME NEW c \in Block, Cached(c)' = {} PROVE disk'[c] = Logical[c]
  <2>1. Cached(c) = {} /\ c # obj[o].block_id
    BY <1>2, <1>4, <1>7 DEF Cached
  <2> QED BY <1>1, <1>5, <2>1, DropFacts DEF LogicalIs
<1> QED BY <1>5, <1>6, <1>7, LogicalNext DEF LogicalIs

LEMMA SyncAllStepRefines ==
    ASSUME IInv, IInv', SyncAllStep
    PROVE  \E b \in Block : Store!Sync(b)
<1>1. PICK o \in ToSet(queue) : disk' = WriteBack(o)
  BY SyncAllStepFacts
<1>2. held = <<>> /\ held' = held
  BY DEF SyncAllStep, IInv
<1>3. Opened = <<>> /\ Opened' = <<>>
  BY <1>2 DEF Opened
<1> QED
  BY <1>1, <1>3, SyncAllStepLogical, WriteBackFlushes DEF Store!Sync, Store!Flush

LEMMA CrashRefines ==
    ASSUME IInv, IInv', Crash
    PROVE  Store!Crash
<1>1. disk' = disk /\ queue' = <<>> /\ held' = <<>> /\ disk \in [Block -> Value]
  BY ObjectFacts DEF Crash
<1>2. ToSet(queue') = {}
  BY <1>1, EmptyFacts
<1>3. Logical' = disk
  BY <1>1, <1>2, LogicalNext
<1>4. Opened' = <<>>
  BY <1>1 DEF Opened
<1> QED BY <1>1, <1>3, <1>4 DEF Store!Crash

LEMMA NextRefines == IInv /\ IInv' /\ [Next]_vars => [Store!Next]_(Store!vars)
<1> SUFFICES ASSUME IInv, IInv', [Next]_vars PROVE [Store!Next]_(Store!vars)
  OBVIOUS
<1>1. ASSUME NEW b \in Block, GetBlockCache(b) PROVE Store!Open(b)
  BY <1>1, GetHitRefines, GetMissRefines, GetEvictRefines DEF GetBlockCache, Find
<1>2. CASE SyncAllStart
  BY <1>2 DEF SyncAllStart, Store!vars, Logical, Cached, Opened
<1>3. CASE UNCHANGED vars
  BY <1>3 DEF vars, Store!vars, Logical, Cached, Opened
<1>4. CASE Next /\ ~SyncAllStart
  BY <1>1, <1>4, ModifyRefines, ReleaseRefines, SyncAllStepRefines, CrashRefines
     DEF Next, Store!Next
<1> QED BY <1>2, <1>3, <1>4

\* The cache implements an array of blocks (BlockStore): evictions are invisible to the
\* closures, and the device only ever receives what was written.
THEOREM Refinement == Spec => ActsAsBlockStore
<1>1. Init => Store!Init
  <2> SUFFICES ASSUME Init PROVE Store!Init OBVIOUS
  <2>1. disk \in [Block -> Value] /\ queue = <<>> /\ held = <<>>
    BY DEF Init
  <2>2. \A b \in Block : Cached(b) = {}
    BY <2>1, EmptyFacts DEF Cached
  <2>3. Logical = disk
    BY <2>1, <2>2 DEF Logical
  <2>4. Opened = <<>>
    BY <2>1 DEF Opened
  <2> QED BY <2>1, <2>3, <2>4 DEF Store!Init
<1> QED
  BY <1>1, NextRefines, Invariance, PTL DEF Spec, ActsAsBlockStore, Store!Spec

\* When block_cache_sync_all has written its last object, the device holds every
\* block as the closures last wrote it.
THEOREM SyncIsDurable == Spec => SyncMakesDurable
<1>1. IInv /\ IInv' /\ [Next]_vars => [SyncAllStep /\ syncing' = 0 => disk' = Logical]_vars
  <2> SUFFICES ASSUME IInv, IInv', SyncAllStep, syncing' = 0 PROVE disk' = Logical
    OBVIOUS
  <2>1. PICK o \in ToSet(queue) : o = queue[syncing] /\ disk' = WriteBack(o)
    BY SyncAllStepFacts
  <2>2. syncing = Len(queue)
    BY ObjectFacts DEF SyncAllStep, SyncNext, IInv
  <2>3. ASSUME NEW p \in ToSet(queue), p # o PROVE ~obj[p].modified
    <3>1. PICK k \in 1..Len(queue) : queue[k] = p
      BY ObjectFacts, ToSetFacts
    <3>2. k \in 1..(syncing - 1)
      BY <2>1, <2>2, <2>3, <3>1, ObjectFacts
    <3> QED BY <3>1, <3>2 DEF IInv
  <2>4. LogicalIs /\ disk' \in [Block -> Value]
    BY LogicalFacts, <2>1, DropFacts
  <2>5. ASSUME NEW c \in Block PROVE disk'[c] = Logical[c]
    <3>1. CASE c = obj[o].block_id
      BY <2>1, <2>4, <3>1, DropFacts DEF LogicalIs
    <3>2. CASE c # obj[o].block_id
      <4>1. disk'[c] = disk[c]
        BY <2>1, <3>2, DropFacts
      <4>2. CASE Cached(c) = {}
        BY <2>4, <4>1, <4>2 DEF LogicalIs
      <4>3. CASE Cached(c) # {}
        <5>1. PICK p \in ToSet(queue) : obj[p].block_id = c
          BY <4>3 DEF Cached
        <5>2. p # o
          BY <3>2, <5>1
        <5>3. obj[p].cache = disk[c]
          BY <2>3, <5>1, <5>2 DEF IInv, CleanIsDurable
        <5> QED BY <2>4, <4>1, <5>1, <5>3 DEF LogicalIs
      <4> QED BY <4>2, <4>3
    <3> QED BY <3>1, <3>2
  <2> QED BY <2>4, <2>5 DEF LogicalIs
<1> QED
  BY <1>1, Invariance, PTL DEF Spec, SyncMakesDurable
=============================================================================
