----------------------------- MODULE BlockCache -----------------------------
(***************************************************************************)
(* The block cache of easy-fs (easy-fs/src/block_cache.rs).                *)
(*                                                                         *)
(* A BlockCache object is reference counted: the manager's queue holds one *)
(* reference, and a caller of get_block_cache one more while its closure   *)
(* runs.  Closures nest (an inode's closure reads the bitmap, for one), so *)
(* the references of callers form a stack.  Callers never ask for a block  *)
(* they have locked: Mutex would spin for ever.  The machine may stop at   *)
(* any step; the objects are lost then and the device remains.             *)
(***************************************************************************)
EXTENDS Integers, FiniteSets, SequencesExt

CONSTANTS
    Block,              \* block ids
    Value,              \* contents of a block
    Object,             \* BlockCache objects in memory
    BLOCK_CACHE_SIZE,
    Nesting             \* bound: closures that nest

ASSUME BlockCacheAssumption ==
    /\ BLOCK_CACHE_SIZE \in Nat /\ Nesting \in Nat /\ Nesting < BLOCK_CACHE_SIZE
    /\ IsFiniteSet(Object) /\ Cardinality(Object) >= BLOCK_CACHE_SIZE + Nesting

VARIABLES
    disk,      \* the block device
    queue,     \* BlockCacheManager::queue
    held,      \* the objects callers hold, innermost last
    obj,       \* the fields of each object in memory
    syncing,   \* where block_cache_sync_all is in the queue; 0 outside it
    panic      \* "Run out of BlockCache!"

vars == <<disk, queue, held, obj, syncing, panic>>

Init ==
    /\ disk \in [Block -> Value]
    /\ queue = <<>> /\ held = <<>>
    /\ obj = <<>>
    /\ syncing = 0 /\ panic = FALSE

-----------------------------------------------------------------------------

\* The queued object of block b, when there is one.
Cached(b) == {o \in ToSet(queue) : obj[o].block_id = b}

\* BlockCache::sync on object o, as it changes the device.
WriteBack(o) ==
    IF obj[o].modified THEN [disk EXCEPT ![obj[o].block_id] = obj[o].cache] ELSE disk

AfterDrop_without_sync(gone) == disk

\* The device once the object in `gone', if any, is dropped: Drop calls sync.
AfterDrop(gone) == IF gone = {} THEN disk ELSE WriteBack(CHOOSE o \in gone : TRUE)

CanEvict_any(i) == TRUE

CanEvict_front_only(i) == i = 1 /\ queue[i] \notin ToSet(held)

\* Arc::strong_count == 1: only the queue holds the object.
CanEvict(i) == queue[i] \notin ToSet(held)

\* BlockCache::new with device contents d, handed to the caller; the objects in
\* `gone' are dropped.
LoadBlock(o, b, d, gone) ==
    /\ obj' = [p \in (DOMAIN obj \cup {o}) \ gone |->
                  IF p = o THEN [block_id |-> b, cache |-> d[b], modified |-> FALSE]
                  ELSE obj[p]]
    /\ held' = Append(held, o)

GetHit(b) ==
    \E o \in Cached(b) :
        /\ held' = Append(held, o)
        /\ UNCHANGED <<disk, queue, obj, panic>>

GetMiss_one_too_many(b) ==
    \E o \in Object \ DOMAIN obj :
        /\ Len(queue) <= BLOCK_CACHE_SIZE
        /\ queue' = Append(queue, o)
        /\ LoadBlock(o, b, disk, {})
        /\ UNCHANGED <<disk, panic>>

GetMiss(b) ==
    \E o \in Object \ DOMAIN obj :
        /\ Len(queue) < BLOCK_CACHE_SIZE
        /\ queue' = Append(queue, o)
        /\ LoadBlock(o, b, disk, {})
        /\ UNCHANGED <<disk, panic>>

\* The first object nobody uses is dropped, which writes it back if modified.
GetEvict(b) ==
    LET idle == {i \in DOMAIN queue : CanEvict(i)} IN
    /\ Len(queue) = BLOCK_CACHE_SIZE
    /\ IF idle = {}
       THEN panic' = TRUE /\ UNCHANGED <<disk, queue, held, obj>>
       ELSE \E i \in idle, o \in Object \ DOMAIN obj :
                LET gone == {queue[i]} \ ToSet(held) IN
                /\ \A k \in idle : i <= k
                /\ queue' = Append(RemoveAt(queue, i), o)
                /\ disk' = AfterDrop(gone)
                /\ LoadBlock(o, b, disk', gone)
                /\ UNCHANGED panic

Find_never(b) == GetMiss(b) \/ GetEvict(b)

\* The search of the queue in get_block_cache.
Find(b) == IF Cached(b) # {} THEN GetHit(b) ELSE GetMiss(b) \/ GetEvict(b)

GetBlockCache(b) ==
    /\ ~panic /\ syncing = 0
    /\ Len(held) < Nesting
    /\ b \notin {obj[o].block_id : o \in ToSet(held)}
    /\ Find(b)
    /\ UNCHANGED syncing

Modify_clean(v) ==
    /\ ~panic /\ syncing = 0 /\ held # <<>>
    /\ obj' = [obj EXCEPT ![Last(held)].cache = v]
    /\ UNCHANGED <<disk, queue, held, syncing, panic>>

\* BlockCache::modify in the innermost closure.
Modify(v) ==
    /\ ~panic /\ syncing = 0 /\ held # <<>>
    /\ obj' = [obj EXCEPT ![Last(held)].cache = v, ![Last(held)].modified = TRUE]
    /\ UNCHANGED <<disk, queue, held, syncing, panic>>

\* The innermost closure returns; the last reference to an object drops it.
Release ==
    LET gone == {Last(held)} \ ToSet(queue) IN
    /\ ~panic /\ syncing = 0 /\ held # <<>>
    /\ held' = Front(held)
    /\ disk' = AfterDrop(gone)
    /\ obj' = [o \in DOMAIN obj \ gone |-> obj[o]]
    /\ UNCHANGED <<queue, syncing, panic>>

\* block_cache_sync_all runs when no closure does, one object after the other.
SyncAllStart ==
    /\ ~panic /\ syncing = 0 /\ held = <<>> /\ queue # <<>>
    /\ syncing' = 1
    /\ UNCHANGED <<disk, queue, held, obj, panic>>

SyncNext_skips_last == IF syncing + 1 < Len(queue) THEN syncing + 1 ELSE 0

SyncNext == IF syncing < Len(queue) THEN syncing + 1 ELSE 0

SyncAllStep ==
    LET o == queue[syncing] IN
    /\ syncing > 0
    /\ disk' = WriteBack(o)
    /\ obj' = [obj EXCEPT ![o].modified = FALSE]
    /\ syncing' = SyncNext
    /\ UNCHANGED <<queue, held, panic>>

\* The machine stops and starts again.
Crash ==
    /\ queue' = <<>> /\ held' = <<>> /\ obj' = <<>>
    /\ syncing' = 0 /\ panic' = FALSE
    /\ UNCHANGED disk

Next ==
    \/ \E b \in Block : GetBlockCache(b)
    \/ \E v \in Value : Modify(v)
    \/ Release
    \/ SyncAllStart
    \/ SyncAllStep
    \/ Crash

Spec == Init /\ [][Next]_vars

-----------------------------------------------------------------------------

\* The queue never exceeds BLOCK_CACHE_SIZE, and an object exists as long as the
\* queue or a caller of get_block_cache refers to it.
TypeOK ==
    /\ disk \in [Block -> Value]
    /\ queue \in Seq(Object) /\ IsInjective(queue) /\ Len(queue) <= BLOCK_CACHE_SIZE
    /\ held \in Seq(Object) /\ IsInjective(held) /\ Len(held) <= Nesting
    /\ DOMAIN obj = ToSet(queue) \cup ToSet(held)
    /\ obj \in [DOMAIN obj -> [block_id : Block, cache : Value, modified : BOOLEAN]]
    /\ syncing \in 0..BLOCK_CACHE_SIZE /\ panic \in BOOLEAN

\* A caller's reference is to the queued object of its block, and a block has
\* one object (get_block_cache): what one closure modifies, all others see.
HandlesCurrent ==
    /\ ToSet(held) \subseteq ToSet(queue)
    /\ \A o, p \in ToSet(queue) : obj[o].block_id = obj[p].block_id => o = p

\* An object not marked modified equals the block on the device, so dropping
\* it without writing (sync) loses nothing.
CleanIsDurable ==
    \A o \in ToSet(queue) : ~obj[o].modified => obj[o].cache = disk[obj[o].block_id]

\* The panic of get_block_cache cannot happen while closures nest less deep
\* than the cache is large.
NoRunOut == ~panic

Logical == [b \in Block |->
    IF Cached(b) # {} THEN obj[CHOOSE o \in Cached(b) : TRUE].cache ELSE disk[b]]

\* When block_cache_sync_all returns the device holds every block as written.
SyncMakesDurable == [][SyncAllStep /\ syncing' = 0 => disk' = Logical]_vars

Opened == [i \in DOMAIN held |-> obj[held[i]].block_id]

Store == INSTANCE BlockStore WITH logical <- Logical, durable <- disk, open <- Opened

\* get_block_cache with its evictions, modify and sync behave as an array of
\* blocks that only modify changes, and of which a crash keeps a possibly
\* older, never an invented, version.
ActsAsBlockStore == Store!Spec
=============================================================================
