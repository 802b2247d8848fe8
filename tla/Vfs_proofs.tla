----------------------------- MODULE Vfs_proofs -----------------------------
(***************************************************************************)
(* Proofs about Vfs, for any number of names, inodes, data blocks and open *)
(* files: every data block has one owner, a free block is zero, and, while *)
(* names are distinct, links are counted exactly and data lives as long as *)
(* a name does.                                                            *)
(***************************************************************************)
EXTENDS Vfs, SeqLemmas, FiniteSetTheorems, TLAPS

Dirent == [name : Name \cup {Empty}, ino : Ino]

\* Inode::unlink writes an empty entry, which names inode 0, the root.
EmptiedNamesRoot == \A i \in DOMAIN dirents : dirents[i].name = Empty => dirents[i].ino = 0

\* Ownership is needed to know that clearing one file frees and zeroes no block of
\* another, and EmptiedNamesRoot that an emptied entry counts for no file.
IInv == TypeOK /\ BlocksOwnedOnce /\ FreeBlocksZero /\ EmptiedNamesRoot

\* The bits of the data bitmap.
Bits == 0..(DataBits - 1)

LEMMA ConstantFacts == 0 \in Ino /\ IsFiniteSet(Bits) /\ Bits \subseteq Nat
<1>1. 0 \in Ino /\ DataBits - 1 \in Int
  BY VfsAssumption DEF Ino
<1>2. IsFiniteSet(Bits)
  BY <1>1, FS_Interval DEF Bits
<1> QED BY <1>1, <1>2 DEF Bits

LEMMA InitIInv == Init => IInv
<1> SUFFICES ASSUME Init PROVE IInv OBVIOUS
<1>1. /\ <<>> \in Seq(Data) /\ <<>> \in Seq(Dirent) /\ IsInjective(<<>>) /\ ToSet(<<>>) = {}
  BY DEF IsInjective, ToSet
<1>2. /\ \A i \in Ino : blocks[i] = <<>> /\ ToSet(blocks[i]) = {}
      /\ blocks \in [Ino -> Seq(Data)]
  BY <1>1 DEF Init
<1>3. TypeOK
  BY <1>1, <1>2, ConstantFacts DEF Init, TypeOK, Closed, Dirent
<1>4. BlocksOwnedOnce
  BY <1>1, <1>2 DEF Init, BlocksOwnedOnce
<1> QED BY <1>3, <1>4 DEF Init, IInv, FreeBlocksZero, EmptiedNamesRoot

\* Ownership read block by block.
LEMMA OwnerFacts ==
    ASSUME IInv
    PROVE  /\ blocks \in [Ino -> Seq(Data)] /\ data_bitmap \subseteq Data
           /\ \A i \in Ino : blocks[i] \in Seq(Data) /\ Len(blocks[i]) \in Nat
           /\ \A i \in Ino : ToSet(blocks[i]) \subseteq data_bitmap /\ IsInjective(blocks[i])
           /\ \A b \in data_bitmap : \E i \in Ino : b \in ToSet(blocks[i])
           /\ \A i, j \in Ino : \A b : b \in ToSet(blocks[i]) /\ b \in ToSet(blocks[j]) => i = j
<1>1. blocks \in [Ino -> Seq(Data)] /\ data_bitmap \subseteq Data
  BY DEF IInv, TypeOK
<1>2. \A i \in Ino : blocks[i] \in Seq(Data) /\ Len(blocks[i]) \in Nat
  BY <1>1
<1>3. /\ data_bitmap = UNION {ToSet(blocks[i]) : i \in Ino}
      /\ \A i \in Ino : IsInjective(blocks[i])
      /\ \A i, j \in Ino : i # j => ToSet(blocks[i]) \cap ToSet(blocks[j]) = {}
  BY DEF IInv, BlocksOwnedOnce
<1> QED BY <1>1, <1>2, <1>3

\* The increasing sequence of a set enumerates it.
LEMMA AscendingFacts ==
    ASSUME NEW S \in SUBSET Bits, NEW q \in Ascending(S)
    PROVE  /\ q \in Seq(Bits) /\ ToSet(q) = S /\ IsInjective(q) /\ Len(q) = Cardinality(S)
           /\ \A j, k \in 1..Len(q) : j < k => q[j] < q[k]
<1> DEFINE n == Cardinality(S)
<1>1. IsFiniteSet(S) /\ n \in Nat
  BY ConstantFacts, FS_Subset, FS_CardinalityType
<1>2. q \in [1..n -> S] /\ \A j, k \in 1..n : j < k => q[j] < q[k]
  BY DEF Ascending
<1>3. IsFiniteSet(1..n) /\ Cardinality(1..n) = n
  <2>1. IsFiniteSet(1..n) /\ Cardinality(1..n) = IF 1 > n THEN 0 ELSE n - 1 + 1
    BY <1>1, FS_Interval
  <2> QED BY <1>1, <2>1
<1> HIDE DEF n
<1>4. \A j \in 1..n : q[j] \in Nat
  BY <1>2, ConstantFacts
<1>5. \A j, k \in 1..n : q[j] = q[k] => j = k
  BY <1>1, <1>2, <1>4
<1>6. q \in Seq(Bits) /\ Len(q) = n /\ DOMAIN q = 1..n
  BY <1>1, <1>2
<1>7. IsInjective(q)
  BY <1>5, <1>6 DEF IsInjective
<1>8. q \in Injection(1..n, S)
  BY <1>2, <1>7 DEF Injection
<1>9. q \in Surjection(1..n, S)
  BY <1>1, <1>3, <1>8, FS_Injection, Zenon DEF n
<1>10. ToSet(q) = S
  BY <1>2, <1>6, <1>9 DEF ToSet, Surjection
<1> QED BY <1>2, <1>6, <1>7, <1>10 DEF n

\* increase_size takes free blocks and appends them, enough for n blocks.  The last
\* block is the highest of those it takes, so if the device has it, it has them all.
LEMMA GrownFacts ==
    ASSUME IInv, NEW i \in Ino, NEW n \in Nat, NEW g \in Grown(i, n)
    PROVE  /\ g.taken \subseteq Data \ data_bitmap
           /\ g.list \in Seq(Data) /\ IsInjective(g.list)
           /\ ToSet(g.list) = ToSet(blocks[i]) \cup g.taken
           /\ n <= Len(g.list) /\ Len(g.list) \in Nat
<1>0. PICK S \in AllocBits(Needed(i, n), data_bitmap, DataBits) :
        /\ \E q \in Ascending(S) : g = [taken |-> S, list |-> blocks[i] \o q]
        /\ g.list[n] \in Data
  BY Zenon DEF Grown
<1>1. PICK q \in Ascending(S) : g = [taken |-> S, list |-> blocks[i] \o q]
  BY <1>0
<1>2. S \subseteq Bits \ data_bitmap /\ Cardinality(S) = Needed(i, n) /\ S \in SUBSET Bits
  BY DEF AllocBits, Bits
<1>3. /\ q \in Seq(Bits) /\ ToSet(q) = S /\ IsInjective(q) /\ Len(q) = Cardinality(S)
      /\ \A j, k \in 1..Len(q) : j < k => q[j] < q[k]
  BY <1>2, AscendingFacts
<1>4. /\ blocks[i] \in Seq(Data) /\ Len(blocks[i]) \in Nat
      /\ ToSet(blocks[i]) \subseteq data_bitmap /\ IsInjective(blocks[i])
  BY OwnerFacts
<1>5. ToSet(blocks[i]) \cap ToSet(q) = {}
  BY <1>2, <1>3, <1>4
<1> DEFINE m == Len(blocks[i])
           d == IF n > m THEN n - m ELSE 0
<1>6. Len(q) = d
  BY <1>2, <1>3 DEF Needed
<1>7. d \in Nat /\ n <= m + d /\ m + d \in Nat /\ (n > m => n = m + d) /\ (d # 0 => n > m)
  <2>1. m \in Nat
    BY <1>4
  <2> HIDE DEF m
  <2> QED BY <2>1
<1> HIDE DEF d
<1>8. /\ Len(blocks[i] \o q) = Len(blocks[i]) + Len(q)
      /\ \A j \in 1..Len(q) : (blocks[i] \o q)[Len(blocks[i]) + j] = q[j]
  <2>1. blocks[i] \in Seq(Bits \cup Data) /\ q \in Seq(Bits \cup Data)
    BY <1>3, <1>4
  <2>2. /\ Len(blocks[i] \o q) = Len(blocks[i]) + Len(q)
        /\ \A k \in 1..(Len(blocks[i]) + Len(q)) : (blocks[i] \o q)[k] =
              IF k <= Len(blocks[i]) THEN blocks[i][k] ELSE q[k - Len(blocks[i])]
    BY <2>1, ConcatProperties, Zenon
  <2>3. Len(q) \in Nat
    BY <1>6, <1>7
  <2> SUFFICES ASSUME NEW j \in 1..Len(q)
               PROVE  (blocks[i] \o q)[Len(blocks[i]) + j] = q[j]
    BY <2>2
  <2> DEFINE k == Len(blocks[i]) + j
  <2>4. k \in 1..(Len(blocks[i]) + Len(q)) /\ ~(k <= Len(blocks[i])) /\ k - Len(blocks[i]) = j
    BY <1>4, <2>3
  <2> HIDE DEF k
  <2>5. (blocks[i] \o q)[k] = q[j]
    BY <2>2, <2>4, Zenon
  <2> QED BY <2>5 DEF k
<1>9. g.taken = S /\ g.list = blocks[i] \o q /\ (blocks[i] \o q)[n] \in Data
  BY <1>0, <1>1
<1>10. \A j \in 1..Len(q) : q[j] \in Data
  <2> SUFFICES ASSUME NEW j \in 1..Len(q) PROVE q[j] \in Data
    OBVIOUS
  <2>1. d \in 1..Len(q) /\ n = m + d /\ (j = d \/ j < d)
    <3> HIDE DEF m
    <3> QED BY <1>6, <1>7
  <2>2. (blocks[i] \o q)[m + d] = q[d]
    BY <1>8, <2>1, Zenon
  <2>3. q[d] \in 0..(DataBlocks - 1)
    BY <1>9, <2>1, <2>2, Zenon DEF Data
  <2>4. q[j] \in Nat /\ (j = d \/ q[j] < q[d])
    <3>1. q[j] \in Bits
      BY <1>3
    <3> QED BY <1>3, <2>1, <3>1, ConstantFacts
  <2> QED BY <2>3, <2>4, VfsAssumption DEF Data
<1>11. q \in Seq(Data) /\ S \subseteq Data
  BY <1>3, <1>10 DEF ToSet
<1>12. /\ blocks[i] \o q \in Seq(Data) /\ IsInjective(blocks[i] \o q)
       /\ ToSet(blocks[i] \o q) = ToSet(blocks[i]) \cup S
  BY <1>3, <1>4, <1>5, <1>11, ConcatSet
<1>13. Len(blocks[i] \o q) = m + d
  BY <1>6, <1>8, Zenon
<1> QED BY <1>2, <1>7, <1>9, <1>11, <1>12, <1>13, Zenon

\* A file that grows by free blocks leaves every block with one owner.
LEMMA GrowKeepsOwners ==
    ASSUME IInv, NEW i \in Ino, NEW n \in Nat, NEW g \in Grown(i, n),
           data_bitmap' = data_bitmap \cup g.taken, blocks' = [blocks EXCEPT ![i] = g.list]
    PROVE  /\ BlocksOwnedOnce'
           /\ data_bitmap' \subseteq Data /\ blocks' \in [Ino -> Seq(Data)]
<1>1. /\ g.taken \subseteq Data \ data_bitmap
      /\ g.list \in Seq(Data) /\ IsInjective(g.list)
      /\ ToSet(g.list) = ToSet(blocks[i]) \cup g.taken
  BY GrownFacts
<1>2. /\ blocks' \in [Ino -> Seq(Data)] /\ blocks'[i] = g.list
      /\ \A j \in Ino : j # i => blocks'[j] = blocks[j]
  BY <1>1, OwnerFacts
<1>3. data_bitmap' \subseteq Data
  BY <1>1, OwnerFacts
<1>4. \A j \in Ino : IsInjective(blocks'[j])
  BY <1>1, <1>2, OwnerFacts
<1>5. \A j \in Ino : ToSet(blocks'[j]) = ToSet(blocks[j]) \cup (IF j = i THEN g.taken ELSE {})
  BY <1>1, <1>2
<1>6. data_bitmap' = UNION {ToSet(blocks'[j]) : j \in Ino}
  <2>1. \A b \in data_bitmap' : \E j \in Ino : b \in ToSet(blocks'[j])
    BY <1>5, OwnerFacts
  <2>2. \A j \in Ino : ToSet(blocks'[j]) \subseteq data_bitmap'
    BY <1>5, OwnerFacts
  <2> QED BY <2>1, <2>2
<1>7. \A j, k \in Ino : j # k => ToSet(blocks'[j]) \cap ToSet(blocks'[k]) = {}
  BY <1>1, <1>5, OwnerFacts
<1> QED BY <1>2, <1>3, <1>4, <1>6, <1>7 DEF BlocksOwnedOnce
\* Inode::clear gives back and zeroes the blocks of one file only.
LEMMA ClearKeepsOwners ==
    ASSUME IInv, NEW i \in Ino, Clear(i)
    PROVE  /\ BlocksOwnedOnce' /\ FreeBlocksZero'
           /\ data_bitmap' \subseteq Data /\ blocks' \in [Ino -> Seq(Data)]
           /\ content' \in [Data -> Value \cup {Zero}]
           /\ blocks'[i] = <<>>
           /\ \A j \in Ino : j # i =>
                 /\ blocks'[j] = blocks[j]
                 /\ \A b \in ToSet(blocks[j]) : content'[b] = content[b]
<1>1. <<>> \in Seq(Data) /\ IsInjective(<<>>) /\ ToSet(<<>>) = {}
  BY DEF IsInjective, ToSet
<1>2. /\ blocks' = [blocks EXCEPT ![i] = <<>>]
      /\ data_bitmap' = data_bitmap \ ToSet(blocks[i])
      /\ content' = [b \in Data |-> IF b \in ToSet(blocks[i]) THEN Zero ELSE content[b]]
  BY DEF Clear, Zeroed
<1>3. /\ blocks' \in [Ino -> Seq(Data)] /\ blocks'[i] = <<>>
      /\ \A j \in Ino : j # i => blocks'[j] = blocks[j]
  BY <1>1, <1>2, OwnerFacts
<1>4. content \in [Data -> Value \cup {Zero}]
  BY DEF IInv, TypeOK
<1>5. content' \in [Data -> Value \cup {Zero}]
  BY <1>2, <1>4
<1>6. data_bitmap' \subseteq Data
  BY <1>2, OwnerFacts
<1>7. \A j \in Ino : ToSet(blocks'[j]) = IF j = i THEN {} ELSE ToSet(blocks[j])
  BY <1>1, <1>3
<1>8. BlocksOwnedOnce'
  <2>1. \A j \in Ino : IsInjective(blocks'[j])
    BY <1>1, <1>3, OwnerFacts
  <2>2. \A b \in data_bitmap' : \E j \in Ino : b \in ToSet(blocks'[j])
    BY <1>2, <1>7, OwnerFacts
  <2>3. \A j \in Ino : ToSet(blocks'[j]) \subseteq data_bitmap'
    BY <1>2, <1>7, OwnerFacts
  <2>4. data_bitmap' = UNION {ToSet(blocks'[j]) : j \in Ino}
    BY <2>2, <2>3
  <2>5. \A j, k \in Ino : j # k => ToSet(blocks'[j]) \cap ToSet(blocks'[k]) = {}
    BY <1>7, OwnerFacts
  <2> QED BY <2>1, <2>4, <2>5 DEF BlocksOwnedOnce
<1>9. FreeBlocksZero'
  BY <1>2 DEF IInv, FreeBlocksZero
<1>10. ASSUME NEW j \in Ino, j # i, NEW b \in ToSet(blocks[j])
       PROVE  content'[b] = content[b]
  <2>1. b \in Data /\ b \notin ToSet(blocks[i])
    BY <1>10, OwnerFacts
  <2> QED BY <1>2, <2>1
<1> QED BY <1>3, <1>5, <1>6, <1>8, <1>9, <1>10

LEMMA EntryFacts ==
    ASSUME IInv, NEW name, NEW j \in Entry(name)
    PROVE  j \in DOMAIN dirents /\ dirents[j] \in Dirent /\ dirents[j].ino \in Ino
           /\ dirents[j].name = name
<1>1. dirents \in Seq(Dirent)
  BY DEF IInv, TypeOK, Dirent
<1>2. j \in DOMAIN dirents /\ dirents[j].name = name
  BY DEF Entry
<1>3. dirents[j] \in Dirent
  BY <1>1, <1>2
<1> QED BY <1>2, <1>3 DEF Dirent

LEMMA LookupFacts ==
    ASSUME IInv, NEW name, NEW i \in Lookup(name)
    PROVE  i \in Ino
BY EntryFacts DEF Lookup

\* What a step that touches neither entries nor blocks keeps.
LEMMA FdStepIInv ==
    ASSUME IInv, UNCHANGED <<dirents, inode_bitmap, data_bitmap, blocks, content, panic>>,
           fds' \in [Fd -> [ino : Ino, offset : Nat]]
    PROVE  IInv'
BY DEF IInv, TypeOK, BlocksOwnedOnce, FreeBlocksZero, EmptiedNamesRoot

LEMMA OpensType ==
    ASSUME IInv, NEW f \in Fd, NEW i \in Ino, Opens(f, i)
    PROVE  fds' \in [Fd -> [ino : Ino, offset : Nat]]
BY DEF IInv, TypeOK, Opens

LEMMA OpenTruncatedIInv ==
    ASSUME IInv, NEW f \in Fd, NEW name \in Name, OpenTruncated(f, name)
    PROVE  IInv'
<1>1. PICK i \in Lookup(name) : Clear(i) /\ Opens(f, i)
  BY DEF OpenTruncated
<1>2. i \in Ino
  BY LookupFacts
<1>3. UNCHANGED <<dirents, inode_bitmap, panic>>
  BY DEF OpenTruncated
<1>4. /\ BlocksOwnedOnce' /\ FreeBlocksZero'
      /\ data_bitmap' \subseteq Data /\ blocks' \in [Ino -> Seq(Data)]
      /\ content' \in [Data -> Value \cup {Zero}]
  BY <1>1, <1>2, ClearKeepsOwners
<1>5. fds' \in [Fd -> [ino : Ino, offset : Nat]]
  BY <1>1, <1>2, OpensType
<1>6. TypeOK' /\ EmptiedNamesRoot'
  BY <1>3, <1>4, <1>5 DEF IInv, TypeOK, EmptiedNamesRoot
<1> QED BY <1>4, <1>6 DEF IInv

LEMMA OpenFileIInv ==
    ASSUME IInv, NEW f \in Fd, NEW name \in Name, OpenFile(f, name)
    PROVE  IInv'
<1>1. PICK i \in Lookup(name) : Opens(f, i)
  BY DEF OpenFile
<1>2. fds' \in [Fd -> [ino : Ino, offset : Nat]]
  BY <1>1, LookupFacts, OpensType
<1> QED BY <1>2, FdStepIInv DEF OpenFile

LEMMA AdvanceType ==
    ASSUME IInv, NEW f \in Fd, fds' = [fds EXCEPT ![f].offset = @ + 1]
    PROVE  fds' \in [Fd -> [ino : Ino, offset : Nat]]
<1>1. fds \in [Fd -> [ino : Ino, offset : Nat]]
  BY DEF IInv, TypeOK
<1>2. fds[f].offset + 1 \in Nat
  BY <1>1
<1> DEFINE n == fds[f].offset + 1
<1> HIDE DEF n
<1>3. fds' = [fds EXCEPT ![f].offset = n] /\ n \in Nat
  BY <1>2 DEF n
<1> QED BY <1>1, <1>3

LEMMA ReadIInv ==
    ASSUME IInv, NEW f \in Fd, Read(f)
    PROVE  IInv'
<1>1. fds' \in [Fd -> [ino : Ino, offset : Nat]]
  BY AdvanceType DEF Read
<1> QED BY <1>1, FdStepIInv DEF Read

LEMMA CloseIInv ==
    ASSUME IInv, NEW f \in Fd, Close(f)
    PROVE  IInv'
<1>1. fds' \in [Fd -> [ino : Ino, offset : Nat]]
  BY ConstantFacts DEF IInv, TypeOK, Close, Closed
<1> QED BY <1>1, FdStepIInv DEF Close

LEMMA PanicsIInv ==
    ASSUME IInv, Panics
    PROVE  IInv'
BY DEF IInv, TypeOK, BlocksOwnedOnce, FreeBlocksZero, EmptiedNamesRoot, Panics
\* A new entry may take a block for the directory, and empties nothing.
LEMMA AppendEntryFacts ==
    ASSUME IInv, NEW name \in Name, NEW ino \in Ino, AppendEntry(name, ino), content' = content
    PROVE  /\ BlocksOwnedOnce' /\ FreeBlocksZero' /\ EmptiedNamesRoot'
           /\ data_bitmap' \subseteq Data /\ blocks' \in [Ino -> Seq(Data)]
           /\ dirents' \in Seq(Dirent)
           /\ content' \in [Data -> Value \cup {Zero}]
<1>1. dirents \in Seq(Dirent) /\ Len(dirents) \in Nat
  BY DEF IInv, TypeOK, Dirent
<1>2. DirBlocks(Len(dirents) + 1) \in Nat
  <2> DEFINE x == Len(dirents) + 1 + DirentsPerBlock - 1
  <2>1. x \in Nat /\ DirentsPerBlock \in Nat \ {0}
    BY <1>1, VfsAssumption
  <2> HIDE DEF x
  <2>2. x \div DirentsPerBlock \in Nat
    BY <2>1
  <2> QED BY <2>2 DEF DirBlocks, x
<1>3. PICK g \in Grown(0, DirBlocks(Len(dirents) + 1)) :
        /\ dirents' = Append(dirents, [name |-> name, ino |-> ino])
        /\ data_bitmap' = data_bitmap \cup g.taken
        /\ blocks' = [blocks EXCEPT ![0] = g.list]
  BY DEF AppendEntry
<1>4. /\ BlocksOwnedOnce' /\ data_bitmap' \subseteq Data /\ blocks' \in [Ino -> Seq(Data)]
  BY <1>2, <1>3, ConstantFacts, GrowKeepsOwners
<1>5. FreeBlocksZero'
  BY <1>3 DEF IInv, FreeBlocksZero
<1>6. [name |-> name, ino |-> ino] \in Dirent /\ name # Empty
  BY VfsAssumption DEF Dirent
<1>7. /\ dirents' \in Seq(Dirent) /\ Len(dirents') = Len(dirents) + 1
      /\ \A j \in 1..Len(dirents) : dirents'[j] = dirents[j]
      /\ dirents'[Len(dirents) + 1] = [name |-> name, ino |-> ino]
  BY <1>1, <1>3, <1>6, AppendProperties
<1>8. EmptiedNamesRoot'
  <2> SUFFICES ASSUME NEW j \in DOMAIN dirents', dirents'[j].name = Empty
               PROVE  dirents'[j].ino = 0
    BY DEF EmptiedNamesRoot
  <2>1. j \in 1..Len(dirents) \/ j = Len(dirents) + 1
    BY <1>1, <1>7
  <2>2. j # Len(dirents) + 1
    BY <1>6, <1>7
  <2> QED BY <1>1, <1>7, <2>1, <2>2 DEF IInv, EmptiedNamesRoot
<1> QED BY <1>4, <1>5, <1>7, <1>8 DEF IInv, TypeOK

LEMMA CreateIInv ==
    ASSUME IInv, NEW f \in Fd, NEW name \in Name, Create(f, name)
    PROVE  IInv'
<1>1. CASE Panics
  BY <1>1, PanicsIInv
<1>2. ASSUME NEW i \in UNION AllocBits(1, inode_bitmap, Inodes),
             inode_bitmap' = inode_bitmap \cup {i}, AppendEntry(name, i), Opens(f, i),
             UNCHANGED <<content, panic>>
      PROVE  IInv'
  <2>1. i \in Ino
    BY DEF AllocBits, Ino
  <2>2. inode_bitmap' \subseteq Ino
    BY <1>2, <2>1 DEF IInv, TypeOK
  <2>3. /\ BlocksOwnedOnce' /\ FreeBlocksZero' /\ EmptiedNamesRoot'
        /\ data_bitmap' \subseteq Data /\ blocks' \in [Ino -> Seq(Data)]
        /\ dirents' \in Seq(Dirent)
        /\ content' \in [Data -> Value \cup {Zero}]
    BY <1>2, <2>1, AppendEntryFacts
  <2>4. fds' \in [Fd -> [ino : Ino, offset : Nat]]
    BY <1>2, <2>1, OpensType
  <2>5. TypeOK'
    BY <1>2, <2>2, <2>3, <2>4 DEF IInv, TypeOK, Dirent
  <2> QED BY <2>3, <2>5 DEF IInv
<1> QED BY <1>1, <1>2 DEF Create

LEMMA LinkIInv ==
    ASSUME IInv, NEW old \in Name, NEW new \in Name, Link(old, new)
    PROVE  IInv'
<1>1. CASE Panics
  BY <1>1, PanicsIInv
<1>2. ASSUME NEW i \in Lookup(old), AppendEntry(new, i),
             UNCHANGED <<inode_bitmap, content, fds, panic>>
      PROVE  IInv'
  <2>1. i \in Ino
    BY LookupFacts
  <2>2. /\ BlocksOwnedOnce' /\ FreeBlocksZero' /\ EmptiedNamesRoot'
        /\ data_bitmap' \subseteq Data /\ blocks' \in [Ino -> Seq(Data)]
        /\ dirents' \in Seq(Dirent)
        /\ content' \in [Data -> Value \cup {Zero}]
    BY <1>2, <2>1, AppendEntryFacts
  <2>3. TypeOK'
    BY <1>2, <2>2 DEF IInv, TypeOK, Dirent
  <2> QED BY <2>2, <2>3 DEF IInv
<1> QED BY <1>1, <1>2 DEF Link

LEMMA UnlinkIInv ==
    ASSUME IInv, NEW name \in Name, Unlink(name)
    PROVE  IInv'
<1>1. UNCHANGED <<inode_bitmap, fds, panic>>
  BY DEF Unlink
<1>2. CASE UNCHANGED <<dirents, data_bitmap, blocks, content>>
  BY <1>1, <1>2 DEF IInv, TypeOK, BlocksOwnedOnce, FreeBlocksZero, EmptiedNamesRoot
<1>3. ASSUME NEW i \in Entry(name),
             Clear(dirents[i].ino) \/ UNCHANGED <<data_bitmap, blocks, content>>,
             dirents' = [dirents EXCEPT ![i] = [name |-> Empty, ino |-> 0]]
      PROVE  IInv'
  <2>1. i \in DOMAIN dirents /\ dirents[i].ino \in Ino /\ dirents \in Seq(Dirent)
    BY EntryFacts DEF IInv, TypeOK, Dirent
  <2>2. [name |-> Empty, ino |-> 0] \in Dirent
    BY ConstantFacts DEF Dirent
  <2>3. dirents' \in Seq(Dirent)
    BY <1>3, <2>1, <2>2
  <2>4. EmptiedNamesRoot'
    BY <1>3, <2>1 DEF IInv, EmptiedNamesRoot
  <2>5. /\ BlocksOwnedOnce' /\ FreeBlocksZero'
        /\ data_bitmap' \subseteq Data /\ blocks' \in [Ino -> Seq(Data)]
        /\ content' \in [Data -> Value \cup {Zero}]
    <3>1. CASE Clear(dirents[i].ino)
      BY <2>1, <3>1, ClearKeepsOwners
    <3>2. CASE UNCHANGED <<data_bitmap, blocks, content>>
      BY <3>2 DEF IInv, TypeOK, BlocksOwnedOnce, FreeBlocksZero
    <3> QED BY <1>3, <3>1, <3>2
  <2>6. TypeOK'
    BY <1>1, <2>3, <2>5 DEF IInv, TypeOK, Dirent
  <2> QED BY <2>4, <2>5, <2>6 DEF IInv
<1> QED BY <1>2, <1>3 DEF Unlink

LEMMA WriteIInv ==
    ASSUME IInv, NEW f \in Fd, NEW v \in Value, Write(f, v)
    PROVE  IInv'
<1> DEFINE i == fds[f].ino
           k == fds[f].offset
<1>1. i \in Ino /\ k \in Nat /\ k + 1 \in Nat
  BY DEF IInv, TypeOK
<1>2. CASE Panics
  BY <1>2, PanicsIInv
<1>3. ASSUME NEW g \in Grown(i, k + 1),
             data_bitmap' = data_bitmap \cup g.taken,
             blocks' = [blocks EXCEPT ![i] = g.list],
             content' = [content EXCEPT ![g.list[k + 1]] = v],
             fds' = [fds EXCEPT ![f].offset = @ + 1],
             UNCHANGED <<dirents, inode_bitmap, panic>>
      PROVE  IInv'
  <2>1. fds' \in [Fd -> [ino : Ino, offset : Nat]]
    BY <1>3, AdvanceType
  <2> HIDE DEF i, k
  <2>2. /\ g.taken \subseteq Data \ data_bitmap
        /\ g.list \in Seq(Data) /\ ToSet(g.list) = ToSet(blocks[i]) \cup g.taken
        /\ k + 1 <= Len(g.list) /\ Len(g.list) \in Nat
    BY <1>1, GrownFacts
  <2>3. BlocksOwnedOnce' /\ data_bitmap' \subseteq Data /\ blocks' \in [Ino -> Seq(Data)]
    BY <1>1, <1>3, GrowKeepsOwners
  <2>4. g.list[k + 1] \in ToSet(g.list) /\ g.list[k + 1] \in Data
    <3>1. k + 1 \in 1..Len(g.list)
      BY <1>1, <2>2
    <3> QED BY <2>2, <3>1, ToSetFacts
  <2>5. g.list[k + 1] \in data_bitmap'
    BY <1>1, <1>3, <2>2, <2>4, OwnerFacts
  <2>6. content' \in [Data -> Value \cup {Zero}]
    BY <1>3, <2>4 DEF IInv, TypeOK
  <2>7. FreeBlocksZero'
    BY <1>3, <2>4, <2>5 DEF IInv, TypeOK, FreeBlocksZero
  <2>8. TypeOK' /\ EmptiedNamesRoot'
    BY <1>3, <2>1, <2>3, <2>6 DEF IInv, TypeOK, EmptiedNamesRoot
  <2> QED BY <2>3, <2>7, <2>8 DEF IInv
<1> QED BY <1>2, <1>3 DEF Write
LEMMA NextIInv == IInv /\ [Next]_vars => IInv'
<1> SUFFICES ASSUME IInv, [Next]_vars PROVE IInv' OBVIOUS
<1>1. CASE UNCHANGED vars
  BY <1>1 DEF vars, IInv, TypeOK, BlocksOwnedOnce, FreeBlocksZero, EmptiedNamesRoot
<1>2. CASE Next
  BY <1>1, <1>2, OpenTruncatedIInv, OpenFileIInv, CreateIInv, LinkIInv, UnlinkIInv, ReadIInv,
     CloseIInv, WriteIInv DEF Next, Halted
<1> QED BY <1>1, <1>2

\* The inductive invariant holds in every reachable state.
THEOREM Invariance == Spec => []IInv
BY InitIInv, NextIInv, PTL DEF Spec

\* Files refer only to inodes and blocks that exist, for areas of any size and a bitmap
\* with any number of bits, more than the device has blocks included.
THEOREM TypeCorrect == Spec => []TypeOK
<1>1. IInv => TypeOK
  BY DEF IInv
<1> QED BY <1>1, Invariance, PTL

\* Whatever is created, written, truncated, linked and unlinked, in any order and
\* through any open files, every data block in use belongs to one file, once.
THEOREM OneOwner == Spec => []BlocksOwnedOnce
<1>1. IInv => BlocksOwnedOnce
  BY DEF IInv
<1> QED BY <1>1, Invariance, PTL

\* A block that increase_size adds without writing it reads as zeros.
THEOREM FreeIsZero == Spec => []FreeBlocksZero
<1>1. IInv => FreeBlocksZero
  BY DEF IInv
<1> QED BY <1>1, Invariance, PTL

\* The entries whose name get_nlink resolves to a file are its links.
LEMMA CountedEntries ==
    ASSUME IInv, DistinctNames, NEW ino \in Ino \ {0}
    PROVE  {i \in DOMAIN dirents : ino \in Lookup(dirents[i].name)} = Links(ino)
<1>1. dirents \in Seq(Dirent) /\ DOMAIN dirents = 1..Len(dirents) /\ Len(dirents) \in Nat
  BY DEF IInv, TypeOK, Dirent
<1>2. ASSUME NEW i \in DOMAIN dirents, ino \in Lookup(dirents[i].name) PROVE i \in Links(ino)
  <2>1. PICK j \in Entry(dirents[i].name) : dirents[j].ino = ino
    BY <1>2 DEF Lookup
  <2>2. j \in DOMAIN dirents /\ dirents[j].name = dirents[i].name
    BY DEF Entry
  <2>3. dirents[i].name # Empty
    BY <2>1, <2>2 DEF IInv, EmptiedNamesRoot
  <2>4. i = j
    BY <2>2, <2>3 DEF DistinctNames
  <2> QED BY <2>1, <2>3, <2>4 DEF Links
<1>3. ASSUME NEW i \in Links(ino) PROVE i \in DOMAIN dirents /\ ino \in Lookup(dirents[i].name)
  <2>1. i \in DOMAIN dirents /\ dirents[i].name # Empty /\ dirents[i].ino = ino
    BY DEF Links
  <2>2. \A k \in 1..(i - 1) : k \in DOMAIN dirents /\ k # i
    BY <1>1, <2>1
  <2>3. i \in Entry(dirents[i].name)
    BY <2>1, <2>2 DEF Entry, DistinctNames
  <2> QED BY <2>1, <2>3 DEF Lookup
<1> QED BY <1>2, <1>3 DEF Links

\* get_nlink counts the links of a file exactly as long as no name is in use twice.
THEOREM NlinkCountsLinks == Spec => []NlinkExactIfDistinct
<1>1. IInv => NlinkExactIfDistinct
  <2> SUFFICES ASSUME IInv, DistinctNames, NEW i \in inode_bitmap \ {0}
               PROVE  Nlink(i) = Cardinality(Links(i))
    BY DEF NlinkExactIfDistinct, NlinkExact
  <2>1. i \in Ino \ {0}
    BY DEF IInv, TypeOK
  <2> QED BY <2>1, CountedEntries DEF Nlink
<1> QED BY <1>1, Invariance, PTL

\* What unlink does when it finds the name, in terms of links.
LEMMA UnlinkFacts ==
    ASSUME IInv, DistinctNames, NEW name \in Name, Unlink(name), Entry(name) # {}
    PROVE  \E j \in DOMAIN dirents :
             /\ j \in Links(dirents[j].ino) /\ dirents[j].ino \in Ino
             /\ \A i \in Ino \ {0} : Links(i)' = Links(i) \ {j}
             /\ dirents[j].ino # 0 =>
                   IF Links(dirents[j].ino) = {j} THEN Clear(dirents[j].ino)
                   ELSE UNCHANGED <<data_bitmap, blocks, content>>
             /\ Clear(dirents[j].ino) \/ UNCHANGED <<data_bitmap, blocks, content>>
<1>1. PICK j \in Entry(name) :
        /\ IF Nlink(dirents[j].ino) = 1 THEN Clear(dirents[j].ino)
           ELSE UNCHANGED <<data_bitmap, blocks, content>>
        /\ dirents' = [dirents EXCEPT ![j] = [name |-> Empty, ino |-> 0]]
  BY DEF Unlink
<1>2. /\ j \in DOMAIN dirents /\ dirents[j].ino \in Ino /\ dirents[j].name = name
      /\ dirents[j].name # Empty
  BY EntryFacts, VfsAssumption
<1>3. j \in Links(dirents[j].ino)
  BY <1>2 DEF Links
<1>4. \A i \in Ino \ {0} : Links(i)' = Links(i) \ {j}
  <2>1. dirents \in Seq(Dirent)
    BY DEF IInv, TypeOK, Dirent
  <2>2. /\ DOMAIN dirents' = DOMAIN dirents
        /\ dirents'[j].name = Empty
        /\ \A k \in DOMAIN dirents : k # j => dirents'[k] = dirents[k]
    BY <1>1, <1>2, <2>1
  <2> QED BY <2>2 DEF Links
<1>5. ASSUME dirents[j].ino # 0
      PROVE  (Nlink(dirents[j].ino) = 1) <=> (Links(dirents[j].ino) = {j})
  <2> DEFINE L == Links(dirents[j].ino)
  <2>1. Nlink(dirents[j].ino) = Cardinality(L)
    BY <1>2, <1>5, CountedEntries DEF Nlink
  <2>2. IsFiniteSet(L)
    <3>1. dirents \in Seq(Dirent) /\ Len(dirents) \in Nat /\ DOMAIN dirents = 1..Len(dirents)
      BY DEF IInv, TypeOK, Dirent
    <3>2. IsFiniteSet(1..Len(dirents))
      BY <3>1, FS_Interval
    <3>3. L \in SUBSET (1..Len(dirents))
      BY <3>1 DEF Links
    <3> QED BY <3>2, <3>3, FS_Subset, Zenon
  <2> HIDE DEF L
  <2>3. Cardinality(L) = 1 <=> \E x : L = {x}
    BY <2>2, FS_Singleton
  <2>4. j \in L
    BY <1>3 DEF L
  <2> QED BY <2>1, <2>3, <2>4 DEF L
<1> QED BY <1>1, <1>2, <1>3, <1>4, <1>5

\* Only unlink takes a name away from a file.
LEMMA LinksKept ==
    ASSUME IInv, [Next]_vars, NEW i \in Ino, \A n \in Name : ~Unlink(n)
    PROVE  Links(i) \subseteq Links(i)'
<1>1. CASE dirents' = dirents
  BY <1>1 DEF Links
<1>2. ASSUME NEW e, dirents' = Append(dirents, e) PROVE Links(i) \subseteq Links(i)'
  <2>1. dirents \in Seq(Dirent) /\ Len(dirents) \in Nat /\ DOMAIN dirents = 1..Len(dirents)
    BY DEF IInv, TypeOK, Dirent
  <2>2. /\ DOMAIN dirents' = 1..(Len(dirents) + 1)
        /\ \A j \in 1..Len(dirents) : dirents'[j] = dirents[j]
    BY <1>2, <2>1
  <2>3. \A j \in 1..Len(dirents) : j \in 1..(Len(dirents) + 1)
    BY <2>1
  <2> QED BY <2>1, <2>2, <2>3 DEF Links
<1>3. dirents' = dirents \/ \E e : dirents' = Append(dirents, e)
  BY DEF Next, vars, OpenTruncated, OpenFile, Create, Link, Read, Write, Close, Halted, Panics,
         AppendEntry
<1> QED BY <1>1, <1>2, <1>3

\* While no name is in use twice, the unlink that takes the last name of a file frees its
\* data; no other step takes a name.
THEOREM LastNameFreesData == Spec => LastNameTakesData
<1>1. IInv /\ [Next]_vars =>
        [\A i \in inode_bitmap \ {0} :
            DistinctNames /\ Links(i) # {} /\ Links(i)' = {} => blocks'[i] = <<>>]_vars
  <2> SUFFICES ASSUME IInv, [Next]_vars, DistinctNames, NEW i \in inode_bitmap \ {0},
                      Links(i) # {}, Links(i)' = {}
               PROVE  blocks'[i] = <<>>
    OBVIOUS
  <2>1. i \in Ino \ {0}
    BY DEF IInv, TypeOK
  <2>2. PICK n \in Name : Unlink(n)
    BY <2>1, LinksKept
  <2>3. Entry(n) # {}
    <3>1. CASE Entry(n) = {}
      <4>1. dirents' = dirents
        BY <2>2, <3>1 DEF Unlink
      <4> QED BY <4>1 DEF Links
    <3> QED BY <3>1
  <2>4. PICK j \in DOMAIN dirents :
          /\ j \in Links(dirents[j].ino)
          /\ Links(i)' = Links(i) \ {j}
          /\ dirents[j].ino # 0 =>
                   IF Links(dirents[j].ino) = {j} THEN Clear(dirents[j].ino)
                   ELSE UNCHANGED <<data_bitmap, blocks, content>>
    BY <2>1, <2>2, <2>3, UnlinkFacts
  <2>5. Links(i) = {j} /\ dirents[j].ino = i
    BY <2>4 DEF Links
  <2>6. Clear(i)
    BY <2>1, <2>4, <2>5
  <2> QED BY <2>1, <2>6, ClearKeepsOwners
<1> QED BY <1>1, Invariance, PTL DEF Spec, LastNameTakesData

\* While no name is in use twice, unlink leaves the data of every file that keeps a name
\* as it is.
THEOREM NamedDataSurvives == Spec => DataOutlivesName
<1>1. IInv => [\A n \in Name : DistinctNames /\ Unlink(n) =>
        \A i \in inode_bitmap \ {0} : Links(i)' # {} =>
            /\ blocks'[i] = blocks[i]
            /\ \A b \in ToSet(blocks[i]) : content'[b] = content[b]]_vars
  <2> SUFFICES ASSUME IInv, DistinctNames, NEW n \in Name, Unlink(n),
                      NEW i \in inode_bitmap \ {0}, Links(i)' # {}
               PROVE  /\ blocks'[i] = blocks[i]
                      /\ \A b \in ToSet(blocks[i]) : content'[b] = content[b]
    OBVIOUS
  <2>1. i \in Ino \ {0}
    BY DEF IInv, TypeOK
  <2>2. CASE Entry(n) = {}
    BY <2>2 DEF Unlink
  <2>3. CASE Entry(n) # {}
    <3>1. PICK j \in DOMAIN dirents :
            /\ dirents[j].ino \in Ino
            /\ Links(i)' = Links(i) \ {j}
            /\ dirents[j].ino # 0 =>
                     IF Links(dirents[j].ino) = {j} THEN Clear(dirents[j].ino)
                     ELSE UNCHANGED <<data_bitmap, blocks, content>>
            /\ Clear(dirents[j].ino) \/ UNCHANGED <<data_bitmap, blocks, content>>
      BY <2>1, <2>3, UnlinkFacts
    <3>2. CASE dirents[j].ino # i
      BY <2>1, <3>1, <3>2, ClearKeepsOwners
    <3>3. CASE dirents[j].ino = i
      <4>1. Links(i) # {j}
        BY <3>1
      <4> QED BY <2>1, <3>1, <3>3, <4>1
    <3> QED BY <3>2, <3>3
  <2> QED BY <2>2, <2>3
<1> QED BY <1>1, Invariance, PTL DEF Spec, DataOutlivesName
=============================================================================
