-------------------------- MODULE DiskInode_proofs --------------------------
(***************************************************************************)
(* Proofs about DiskInode, for any number of files, any sizes asked of     *)
(* them, any block size, any number of direct blocks and of entries in an  *)
(* index block, and any bitmap: the index and the bitmap agree, the kernel *)
(* stops only at the limits of the disk and of the index, every byte of a  *)
(* file has a place of its own, and DiskInode implements FileBlocks.       *)
(***************************************************************************)
EXTENDS DiskInode, WellFoundedInduction, TLAPS

-----------------------------------------------------------------------------
(* Numbers and recursion.                                                  *)

\* A set of numbers has a least member.
LEMMA NatMin ==
    ASSUME NEW T, T \subseteq Nat, T # {}
    PROVE  \E x \in T : \A y \in T : x <= y
<1> DEFINE R == {ss \in Nat \X Nat : ss[1] < ss[2]}
<1>1. IsWellFoundedOn(R, Nat)
  BY NatLessThanWellFounded, Zenon DEF OpToRel
<1>2. \A x, y \in Nat : <<y, x>> \in R <=> y < x
  OBVIOUS
<1> HIDE DEF R
<1>3. PICK x \in T : \A y \in T : ~ (<<y, x>> \in R)
  BY <1>1, WFMin, Zenon
<1>4. \A y \in T : x \in Nat /\ y \in Nat /\ ~(y < x)
  BY <1>2, <1>3, Zenon
<1>5. \A y \in T : x <= y
  BY <1>4
<1> QED BY <1>5, Zenon

\* Induction: a set that has 0 and the successor of each member has every number.
LEMMA SetInduction ==
    ASSUME NEW T, 0 \in T, \A n \in Nat : n \in T => n + 1 \in T
    PROVE  Nat \subseteq T
<1>1. SUFFICES ASSUME Nat \ T # {} PROVE FALSE
  OBVIOUS
<1>2. PICK x \in Nat \ T : \A y \in Nat \ T : x <= y
  BY <1>1, NatMin, Zenon
<1>3. x # 0 /\ x - 1 \in Nat /\ x - 1 \in T
  BY <1>2
<1> QED BY <1>3

\* g goes from v by the steps of h.
Iterates(g, v, h) == g[0] = v /\ \A n \in Nat : g[n + 1] = h[n][g[n]]

\* A loop that starts with v and goes on by the steps of h has a sequence of states, so
\* a function on Nat that is defined by the loop satisfies its definition.
LEMMA Iteration ==
    ASSUME NEW V, NEW v \in V, NEW h \in [Nat -> [V -> V]]
    PROVE  \E g \in [Nat -> V] : Iterates(g, v, h)
<1> DEFINE Upto(g, n) == g[0] = v /\ \A k \in Nat : k < n => g[k + 1] = h[k][g[k]]
           S == {n \in Nat : \E g \in [Nat -> V] : Upto(g, n)}
           U == {n \in Nat : \A g1, g2 \in [Nat -> V] :
                    Upto(g1, n) /\ Upto(g2, n) => g1[n] = g2[n]}
<1>1. Nat \subseteq S
  <2>1. 0 \in S
    <3>1. Upto([k \in Nat |-> v], 0)
      OBVIOUS
    <3> QED BY <3>1
  <2>2. ASSUME NEW n \in Nat, n \in S PROVE n + 1 \in S
    <3>1. PICK g \in [Nat -> V] : Upto(g, n)
      BY <2>2
    <3> DEFINE f == [k \in Nat |-> IF k <= n THEN g[k] ELSE h[n][g[n]]]
    <3>2. f \in [Nat -> V]
      OBVIOUS
    <3>3. Upto(f, n + 1)
      <4>1. ASSUME NEW k \in Nat, k < n + 1 PROVE f[k + 1] = h[k][f[k]]
        <5>1. CASE k = n
          BY <5>1
        <5>2. CASE k < n
          BY <3>1, <5>2
        <5> QED BY <4>1, <5>2
      <4> QED BY <3>1, <4>1
    <3>4. n + 1 \in Nat
      OBVIOUS
    <3> QED BY <3>2, <3>3, <3>4, Zenon
  <2> HIDE DEF S
  <2> QED BY <2>1, <2>2, SetInduction
<1>2. Nat \subseteq U
  <2>1. 0 \in U
    OBVIOUS
  <2>2. ASSUME NEW n \in Nat, n \in U PROVE n + 1 \in U
    <3> SUFFICES ASSUME NEW g1 \in [Nat -> V], NEW g2 \in [Nat -> V],
                        Upto(g1, n + 1), Upto(g2, n + 1)
                 PROVE  g1[n + 1] = g2[n + 1]
      OBVIOUS
    <3>2. g1[n] = g2[n]
      BY <2>2
    <3> QED BY <3>2
  <2> HIDE DEF U
  <2> QED BY <2>1, <2>2, SetInduction
<1> DEFINE gg == [n \in Nat |-> CHOOSE g \in [Nat -> V] : Upto(g, n)]
           f == [n \in Nat |-> gg[n][n]]
<1>3. \A n \in Nat : gg[n] \in [Nat -> V] /\ Upto(gg[n], n)
  <2> HIDE DEF Upto
  <2> QED BY <1>1
<1> USE <1>3
<1> HIDE DEF gg
<1>4. f \in [Nat -> V] /\ \A n \in Nat : f[n] = gg[n][n]
  OBVIOUS
<1> HIDE DEF f
<1>5. f[0] = v
  BY <1>4
<1>6. ASSUME NEW n \in Nat PROVE f[n + 1] = h[n][f[n]]
  <2>1. n + 1 \in Nat /\ n < n + 1
    OBVIOUS
  <2>2. gg[n + 1][n + 1] = h[n][gg[n + 1][n]] /\ Upto(gg[n + 1], n)
    BY <2>1
  <2>3. gg[n + 1][n] = gg[n][n]
    <3>1. n \in U /\ gg[n] \in [Nat -> V] /\ gg[n + 1] \in [Nat -> V] /\ Upto(gg[n], n)
      BY <1>2, <2>1, Zenon
    <3> QED BY <2>2, <3>1, Zenon
  <2> QED BY <1>4, <2>3
<1> QED BY <1>4, <1>5, <1>6, Zenon DEF Iterates

\* A number is a quotient and a remainder.
LEMMA DivModBounds ==
    ASSUME NEW B \in Nat \ {0}, NEW a \in Nat
    PROVE  /\ a \div B \in Nat /\ (a % B) \in 0..(B - 1)
           /\ a = (a \div B) * B + (a % B)
OBVIOUS

\* A quotient and a remainder are one number.
LEMMA DivModUnique ==
    ASSUME NEW B \in Nat \ {0}, NEW q \in Nat, NEW r \in 0..(B - 1)
    PROVE  /\ q * B + r \in Nat
           /\ (q * B + r) \div B = q /\ (q * B + r) % B = r
OBVIOUS

\* Multiples keep the order.
LEMMA MulMono ==
    ASSUME NEW B \in Nat, NEW a \in Int, NEW b \in Int, a <= b
    PROVE  a * B <= b * B
OBVIOUS

-----------------------------------------------------------------------------
(* The bitmap.                                                             *)

BitmapType == [0..(BitmapBlocks - 1) -> [0..(Words - 1) -> SUBSET Full]]

\* The number alloc gives to a bit.
Number(b, w, i) == b * BLOCK_BITS + w * Bits + i

\* The sizes of a bitmap.
LEMMA BitmapSizes ==
    /\ Words \in Nat \ {0} /\ Bits \in Nat \ {0} /\ BLOCK_BITS \in Nat \ {0}
    /\ BitmapBlocks \in Nat /\ maximum \in Nat
<1>1. Words \in Nat \ {0} /\ Bits \in Nat \ {0} /\ BitmapBlocks \in Nat
  BY BitmapAssumption
<1> QED BY <1>1 DEF BLOCK_BITS, maximum

\* The place of a bit in its block.
LEMMA InBlock ==
    ASSUME NEW w \in 0..(Words - 1), NEW i \in Full
    PROVE  w * Bits + i \in 0..(BLOCK_BITS - 1)
<1>1. Words \in Nat /\ Bits \in Nat /\ i \in 0..(Bits - 1)
  BY BitmapSizes DEF Full
<1> QED BY <1>1 DEF BLOCK_BITS

\* dealloc finds the bit that alloc numbered.
LEMMA NumberTakenApart ==
    ASSUME NEW b \in Nat, NEW w \in 0..(Words - 1), NEW i \in Full
    PROVE  /\ Number(b, w, i) \in Nat
           /\ decomposition(Number(b, w, i)) = [block |-> b, word |-> w, inner |-> i]
<1> DEFINE r == w * Bits + i
<1>1. r \in 0..(BLOCK_BITS - 1) /\ BLOCK_BITS \in Nat \ {0} /\ Bits \in Nat \ {0}
  BY InBlock, BitmapSizes
<1>2. Number(b, w, i) = b * BLOCK_BITS + r
  BY BitmapSizes DEF Number, Full
<1>3. r \div Bits = w /\ r % Bits = i
  BY BitmapSizes DEF Full
<1> HIDE DEF r
<1>4. /\ b * BLOCK_BITS + r \in Nat /\ (b * BLOCK_BITS + r) \div BLOCK_BITS = b
      /\ (b * BLOCK_BITS + r) % BLOCK_BITS = r
  BY <1>1, DivModUnique, Zenon
<1> QED BY <1>2, <1>3, <1>4, Zenon DEF decomposition

\* A number is that of the bit that decomposition names.
LEMMA Decomposed ==
    ASSUME NEW bit \in Nat
    PROVE  \E b \in Nat, w \in 0..(Words - 1), i \in Full : bit = Number(b, w, i)
<1> DEFINE b == bit \div BLOCK_BITS
           r == bit % BLOCK_BITS
           w == r \div Bits
           i == r % Bits
<1>1. b \in Nat /\ r \in 0..(BLOCK_BITS - 1) /\ bit = b * BLOCK_BITS + r
  BY DivModBounds, BitmapSizes, Zenon
<1> USE <1>1
<1> HIDE DEF b, r
<1>2. r \in Nat /\ BLOCK_BITS \in Nat /\ Bits \in Nat \ {0} /\ Words \in Nat
  BY BitmapSizes
<1> USE <1>2
<1>3. w \in Nat /\ i \in 0..(Bits - 1) /\ r = w * Bits + i
  BY DivModBounds, Zenon
<1> USE <1>3
<1> HIDE DEF w, i
<1>4. w \in 0..(Words - 1)
  <2>1. SUFFICES ASSUME Words <= w PROVE FALSE
    OBVIOUS
  <2>2. Words * Bits <= w * Bits
    BY <2>1
  <2>3. w * Bits \in Int /\ Words * Bits \in Int /\ r < Words * Bits
    BY DEF BLOCK_BITS
  <2> QED BY <2>2, <2>3
<1>5. bit = Number(b, w, i)
  BY DEF Number
<1> QED BY <1>4, <1>5, Zenon DEF Full

\* One bit is before another.
Before(b, w, i, c, v, j) == b < c \/ (b = c /\ (w < v \/ (w = v /\ i < j)))

\* Numbers are in the order of block, word and position.
LEMMA NumbersOrdered ==
    ASSUME NEW b \in Nat, NEW w \in 0..(Words - 1), NEW i \in Full,
           NEW c \in Nat, NEW v \in 0..(Words - 1), NEW j \in Full,
           Before(b, w, i, c, v, j)
    PROVE  Number(b, w, i) < Number(c, v, j)
<1> DEFINE B == BLOCK_BITS
           r == w * Bits + i
           s == v * Bits + j
<1>1. r \in 0..(B - 1) /\ s \in 0..(B - 1) /\ B \in Nat /\ Bits \in Nat
  BY InBlock, BitmapSizes
<1> USE <1>1
<1>2. Number(b, w, i) = b * B + r /\ Number(c, v, j) = c * B + s
  BY DEF Number, Full
<1>3. CASE b < c
  <2> HIDE DEF B, r, s
  <2>1. (b + 1) * B <= c * B
    BY <1>3
  <2> QED BY <1>2, <2>1
<1>4. CASE b = c /\ w < v
  <2>1. (w + 1) * Bits <= v * Bits
    BY <1>4
  <2>3. r < s
    BY <2>1 DEF Full
  <2> HIDE DEF B, r, s
  <2> QED BY <1>2, <1>4, <2>3
<1>5. CASE b = c /\ w = v /\ i < j
  <2>1. r < s
    BY <1>5 DEF Full
  <2> HIDE DEF B, r, s
  <2> QED BY <1>2, <1>5, <2>1
<1> QED BY <1>3, <1>4, <1>5 DEF Before

\* The bits of a block of the bitmap, and no others, have numbers below maximum.
LEMMA NumberInRange ==
    ASSUME NEW b \in Nat, NEW w \in 0..(Words - 1), NEW i \in Full
    PROVE  Number(b, w, i) < maximum <=> b < BitmapBlocks
<1> DEFINE B == BLOCK_BITS
           r == w * Bits + i
<1>1. r \in 0..(B - 1) /\ B \in Nat /\ BitmapBlocks \in Nat
  BY InBlock, BitmapSizes
<1> USE <1>1
<1>2. Number(b, w, i) = b * B + r /\ maximum = BitmapBlocks * B
  BY BitmapSizes DEF Number, Full, maximum
<1> HIDE DEF B, r
<1>4. CASE b < BitmapBlocks
  <2> QED BY <1>2
<1>5. CASE ~(b < BitmapBlocks)
  <2> QED BY <1>2
<1> QED BY <1>4, <1>5

\* Ones is the set of the numbers of the bits that are set.
LEMMA OnesNumbers ==
    ASSUME NEW bm \in BitmapType
    PROVE  /\ Ones(bm) \subseteq 0..(maximum - 1)
           /\ \A b \in 0..(BitmapBlocks - 1), w \in 0..(Words - 1), i \in Full :
                /\ Number(b, w, i) \in Ones(bm) <=> i \in bm[b][w]
                /\ IsSet(bm, Number(b, w, i)) <=> i \in bm[b][w]
<1>1. /\ DOMAIN bm = 0..(BitmapBlocks - 1) /\ BitmapBlocks \in Nat
      /\ \A b \in 0..(BitmapBlocks - 1), w \in 0..(Words - 1) : bm[b][w] \subseteq Full
  BY BitmapSizes DEF BitmapType
<1>2. \A x : x \in Ones(bm) <=>
        \E b \in 0..(BitmapBlocks - 1), w \in 0..(Words - 1) : \E i \in bm[b][w] :
            x = Number(b, w, i)
  <2>1. \A x : x \in Ones(bm) <=>
        \E b \in DOMAIN bm, w \in 0..(Words - 1) : x \in {Number(b, w, i) : i \in bm[b][w]}
    BY DEF Ones, Number
  <2> QED BY <1>1, <2>1, Zenon
<1>3. ASSUME NEW x \in Ones(bm) PROVE x \in 0..(maximum - 1)
  <2>1. PICK b \in 0..(BitmapBlocks - 1), w \in 0..(Words - 1), i \in Full : x = Number(b, w, i)
    BY <1>1, <1>2, Zenon
  <2>2. b \in Nat /\ b < BitmapBlocks
    BY <1>1
  <2>3. x \in Nat /\ x < maximum
    BY <2>1, <2>2, NumberInRange, NumberTakenApart
  <2> QED BY <2>3, BitmapSizes
<1>4. ASSUME NEW b \in 0..(BitmapBlocks - 1), NEW w \in 0..(Words - 1), NEW i \in Full
      PROVE  /\ Number(b, w, i) \in Ones(bm) <=> i \in bm[b][w]
             /\ IsSet(bm, Number(b, w, i)) <=> i \in bm[b][w]
  <2>2. decomposition(Number(b, w, i)) = [block |-> b, word |-> w, inner |-> i]
    BY NumberTakenApart
  <2>3. ASSUME NEW c \in 0..(BitmapBlocks - 1), NEW v \in 0..(Words - 1), NEW j \in bm[c][v],
               Number(b, w, i) = Number(c, v, j)
        PROVE  b = c /\ w = v /\ i = j
    <3>1. decomposition(Number(c, v, j)) = [block |-> c, word |-> v, inner |-> j]
      BY <1>1, NumberTakenApart
    <3> QED BY <2>2, <2>3, <3>1
  <2>4. Number(b, w, i) \in Ones(bm) <=> i \in bm[b][w]
    <3>1. ASSUME i \in bm[b][w] PROVE Number(b, w, i) \in Ones(bm)
      BY <1>2, <3>1
    <3>2. ASSUME Number(b, w, i) \in Ones(bm) PROVE i \in bm[b][w]
      <4>1. PICK c \in 0..(BitmapBlocks - 1), v \in 0..(Words - 1) : \E j \in bm[c][v] :
                Number(b, w, i) = Number(c, v, j)
        BY <1>2, <3>2
      <4> QED BY <2>3, <4>1, Zenon
    <3> QED BY <3>1, <3>2
  <2>5. IsSet(bm, Number(b, w, i)) <=> i \in bm[b][w]
    BY <2>2 DEF IsSet
  <2> QED BY <2>4, <2>5
<1> QED BY <1>3, <1>4

\* A number below maximum is that of a bit of the bitmap.
LEMMA BitOfNumber ==
    ASSUME NEW bit \in 0..(maximum - 1)
    PROVE  \E b \in 0..(BitmapBlocks - 1), w \in 0..(Words - 1), i \in Full :
                bit = Number(b, w, i)
<1>1. bit \in Nat /\ bit < maximum
  BY BitmapSizes
<1>2. PICK b \in Nat, w \in 0..(Words - 1), i \in Full : bit = Number(b, w, i)
  BY <1>1, Decomposed, Zenon
<1>3. b < BitmapBlocks
  BY <1>1, <1>2, NumberInRange
<1>4. b \in 0..(BitmapBlocks - 1)
  BY <1>3, BitmapSizes
<1> QED BY <1>2, <1>4, Zenon

\* What becomes of Ones when one bit may change.
Flips(bm, b, w, i) ==
    \A X \in SUBSET Full :
        LET bm2 == [bm EXCEPT ![b][w] = X]
            bit == Number(b, w, i)
        IN  X \ {i} = bm[b][w] \ {i} =>
                /\ bm2 \in BitmapType
                /\ Ones(bm2) = IF i \in X THEN Ones(bm) \cup {bit} ELSE Ones(bm) \ {bit}

\* Bitmaps that differ in one bit.
LEMMA OneBit ==
    ASSUME NEW bm \in BitmapType, NEW b \in 0..(BitmapBlocks - 1), NEW w \in 0..(Words - 1),
           NEW i \in Full
    PROVE  Flips(bm, b, w, i)
<1> SUFFICES ASSUME NEW X \in SUBSET Full, X \ {i} = bm[b][w] \ {i},
                    NEW bm2, bm2 = [bm EXCEPT ![b][w] = X], NEW bit, bit = Number(b, w, i)
             PROVE  /\ bm2 \in BitmapType
                    /\ Ones(bm2) = IF i \in X THEN Ones(bm) \cup {bit} ELSE Ones(bm) \ {bit}
  BY Zenon DEF Flips
<1>1. /\ bm2 \in BitmapType
      /\ \A c \in 0..(BitmapBlocks - 1), v \in 0..(Words - 1) :
            bm2[c][v] = IF c = b /\ v = w THEN X ELSE bm[c][v]
  BY Zenon DEF BitmapType
<1> USE <1>1
<1>2. ASSUME NEW c \in 0..(BitmapBlocks - 1), NEW v \in 0..(Words - 1), NEW j \in Full
      PROVE  Number(c, v, j) \in Ones(bm2) <=>
                IF i \in X THEN Number(c, v, j) \in Ones(bm) \cup {bit}
                ELSE Number(c, v, j) \in Ones(bm) \ {bit}
  <2>1. /\ Number(c, v, j) \in Ones(bm2) <=> j \in bm2[c][v]
        /\ Number(c, v, j) \in Ones(bm) <=> j \in bm[c][v]
    BY OnesNumbers, Zenon
  <2>2. Number(c, v, j) = bit <=> c = b /\ v = w /\ j = i
    <3>2. /\ decomposition(Number(c, v, j)) = [block |-> c, word |-> v, inner |-> j]
          /\ decomposition(bit) = [block |-> b, word |-> w, inner |-> i]
      BY NumberTakenApart
    <3>3. Number(c, v, j) = bit => c = b /\ v = w /\ j = i
      BY <3>2
    <3> QED BY <3>3
  <2> QED BY <2>1, <2>2
<1>3. Ones(bm) \subseteq 0..(maximum - 1) /\ Ones(bm2) \subseteq 0..(maximum - 1)
  BY OnesNumbers
<1>4. bit \in 0..(maximum - 1)
  <2> QED BY NumberInRange, NumberTakenApart, BitmapSizes
<1>5. \A x \in 0..(maximum - 1) :
        x \in Ones(bm2) <=> IF i \in X THEN x \in Ones(bm) \cup {bit} ELSE x \in Ones(bm) \ {bit}
  <2> TAKE x \in 0..(maximum - 1)
  <2>1. PICK c \in 0..(BitmapBlocks - 1), v \in 0..(Words - 1), j \in Full : x = Number(c, v, j)
    BY BitOfNumber, Zenon
  <2> QED BY <1>2, <2>1, Zenon
<1>6. Ones(bm2) = IF i \in X THEN Ones(bm) \cup {bit} ELSE Ones(bm) \ {bit}
  BY <1>3, <1>4, <1>5, Zenon
<1> QED BY <1>6

\* u64::trailing_ones of a word that is not full.
LEMMA TrailingOnes ==
    ASSUME NEW word \in SUBSET Full, word # Full
    PROVE  /\ trailing_ones(word) \in Full /\ trailing_ones(word) \notin word
           /\ \A i \in Full : i < trailing_ones(word) => i \in word
<1>1. Full \subseteq Nat
  BY DEF Full
<1>2. PICK n \in Full \ word : \A m \in Full \ word : n <= m
  <2>1. Full \ word \subseteq Nat /\ Full \ word # {}
    BY <1>1, Zenon
  <2> QED BY <2>1, NatMin, Zenon
<1>3. 0..(n - 1) \subseteq word
  <2> SUFFICES ASSUME NEW i \in 0..(n - 1) PROVE i \in word
    OBVIOUS
  <2>1. i \in Full /\ i \in Int /\ n \in Int /\ i < n
    BY BitmapSizes DEF Full
  <2> QED BY <1>2, <2>1
<1> DEFINE t == trailing_ones(word)
<1>4. t \in Full \ word /\ 0..(t - 1) \subseteq word
  BY <1>3, Zenon DEF trailing_ones
<1> HIDE DEF t
<1>5. ASSUME NEW i \in Full, i < t PROVE i \in word
  <2>1. i \in 0..(t - 1)
    BY <1>1, <1>4, <1>5
  <2> QED BY <1>4, <2>1
<1> QED BY <1>4, <1>5 DEF t

\* A number that is not in Ones is that of a clear bit.
LEMMA ClearBit ==
    ASSUME NEW bm \in BitmapType, NEW c \in (0..(maximum - 1)) \ Ones(bm)
    PROVE  \E b \in 0..(BitmapBlocks - 1), w \in 0..(Words - 1), i \in Full :
                c = Number(b, w, i) /\ i \notin bm[b][w]
<1>1. PICK b \in 0..(BitmapBlocks - 1), w \in 0..(Words - 1), i \in Full : c = Number(b, w, i)
  BY BitOfNumber, Zenon
<1>2. i \notin bm[b][w]
  BY <1>1, OnesNumbers
<1> QED BY <1>1, <1>2, Zenon

\* Bitmap::alloc takes the lowest clear bit.
LEMMA AllocFacts ==
    ASSUME NEW bm \in BitmapType, NEW a \in alloc(bm)
    PROVE  /\ a.bitmap \in BitmapType /\ a.bit \in (0..(maximum - 1)) \ Ones(bm)
           /\ Ones(a.bitmap) = Ones(bm) \cup {a.bit}
           /\ \A c \in (0..(maximum - 1)) \ Ones(bm) : a.bit <= c
<1>1. PICK p \in FirstClear(bm) :
        a = [bit |-> p.block * BLOCK_BITS + p.word * Bits + p.inner,
             bitmap |-> [bm EXCEPT ![p.block][p.word] = @ \cup {p.inner}]]
  BY Zenon DEF alloc
<1> DEFINE c0 == p.block
           w0 == p.word
           i0 == p.inner
           X == bm[c0][w0] \cup {i0}
<1>2. /\ c0 \in 0..(BitmapBlocks - 1) /\ w0 \in 0..(Words - 1) /\ i0 \in Full
      /\ i0 \notin bm[c0][w0]
      /\ \A b \in 0..(BitmapBlocks - 1), w \in 0..(Words - 1), i \in Full :
            i \notin bm[b][w] =>
                c0 < b \/ (c0 = b /\ (w0 < w \/ (w0 = w /\ i0 <= i)))
  <2>1. /\ p.block \in 0..(BitmapBlocks - 1) /\ p.word \in 0..(Words - 1) /\ p.inner \in Full
        /\ bm[p.block][p.word] # Full /\ bm[p.block][p.word] \in SUBSET Full
        /\ p.inner = trailing_ones(bm[p.block][p.word])
        /\ \A v \in 0..(p.word - 1) : bm[p.block][v] = Full
        /\ \A c \in 0..(p.block - 1) : \A v \in 0..(Words - 1) : bm[c][v] = Full
    <3>1. DOMAIN bm = 0..(BitmapBlocks - 1)
      BY DEF BitmapType
    <3>2. /\ p \in [block : 0..(BitmapBlocks - 1), word : 0..(Words - 1), inner : Full]
          /\ bm[p.block][p.word] # Full
          /\ p.inner = trailing_ones(bm[p.block][p.word])
          /\ \A v \in 0..(p.word - 1) : bm[p.block][v] = Full
          /\ \A c \in 0..(p.block - 1) : \A v \in 0..(Words - 1) : bm[c][v] = Full
      BY <3>1, Zenon DEF FirstClear
    <3>3. p.block \in 0..(BitmapBlocks - 1) /\ p.word \in 0..(Words - 1) /\ p.inner \in Full
      BY <3>2
    <3>4. bm[p.block][p.word] \in SUBSET Full
      BY <3>3, Zenon DEF BitmapType
    <3> QED BY <3>2, <3>4, Zenon
  <2>2. /\ p.inner \notin bm[p.block][p.word]
        /\ \A i \in Full : i < p.inner => i \in bm[p.block][p.word]
    <3> DEFINE word == bm[p.block][p.word]
    <3>1. word \in SUBSET Full /\ word # Full /\ p.inner = trailing_ones(word)
      BY <2>1, Zenon
    <3> HIDE DEF word
    <3>2. p.inner \notin word /\ \A i \in Full : i < p.inner => i \in word
      BY <3>1, TrailingOnes
    <3> QED BY <3>2 DEF word
  <2>3. ASSUME NEW b \in 0..(BitmapBlocks - 1), NEW w \in 0..(Words - 1), NEW i \in Full,
               i \notin bm[b][w]
        PROVE  \/ p.block < b
               \/ p.block = b /\ (p.word < w \/ (p.word = w /\ p.inner <= i))
    <3>1. /\ b \in Int /\ w \in Int /\ i \in Int /\ p.block \in Int /\ p.word \in Int
          /\ p.inner \in Int
      BY <2>1 DEF Full
    <3>2. ~(b < p.block)
      <4> QED BY <2>1, <2>3
    <3>3. ~(b = p.block /\ w < p.word)
      <4> QED BY <2>1, <2>3
    <3>4. ~(b = p.block /\ w = p.word /\ i < p.inner)
      BY <2>2, <2>3
    <3> QED BY <3>1, <3>2, <3>3, <3>4
  <2> QED BY <2>1, <2>2, <2>3
<1>3. a.bit = Number(c0, w0, i0) /\ a.bitmap = [bm EXCEPT ![c0][w0] = @ \cup {i0}]
  BY <1>1 DEF Number
<1> HIDE DEF c0, w0, i0
<1>4. X \in SUBSET Full /\ X \ {i0} = bm[c0][w0] \ {i0} /\ i0 \in X
  BY <1>2, Zenon DEF BitmapType
<1>5. a.bitmap = [bm EXCEPT ![c0][w0] = X]
  BY <1>3 DEF BitmapType
<1> HIDE DEF X
<1>6. a.bitmap \in BitmapType /\ Ones(a.bitmap) = Ones(bm) \cup {a.bit}
  <2>1. Flips(bm, c0, w0, i0)
    BY <1>2, OneBit, Zenon
  <2> QED BY <1>3, <1>4, <1>5, <2>1, Zenon DEF Flips
<1>7. a.bit \in 0..(maximum - 1) /\ a.bit \notin Ones(bm)
  <2>1. a.bit \in Ones(a.bitmap) /\ Ones(a.bitmap) \subseteq 0..(maximum - 1)
    BY <1>6, OnesNumbers
  <2>2. a.bit \notin Ones(bm)
    BY <1>2, <1>3, OnesNumbers
  <2> QED BY <2>1, <2>2
<1>8. ASSUME NEW c \in (0..(maximum - 1)) \ Ones(bm) PROVE a.bit <= c
  <2>1. PICK b \in 0..(BitmapBlocks - 1), w \in 0..(Words - 1), i \in Full :
            c = Number(b, w, i) /\ i \notin bm[b][w]
    BY ClearBit, Zenon
  <2>2. \/ c0 < b
        \/ c0 = b /\ (w0 < w \/ (w0 = w /\ i0 <= i))
    BY <1>2, <2>1, Zenon
  <2>3. b \in Nat /\ c0 \in Nat /\ i \in Int /\ i0 \in Int
    BY <1>2 DEF Full
  <2>4. CASE c0 = b /\ w0 = w /\ i0 = i
    BY <1>3, <2>1, <2>4
  <2>5. CASE c0 < b \/ (c0 = b /\ (w0 < w \/ (w0 = w /\ i0 < i)))
    <3>1. Before(c0, w0, i0, b, w, i)
      BY <2>5 DEF Before
    <3>2. Number(c0, w0, i0) < Number(b, w, i)
      BY <1>2, <3>1, NumbersOrdered
    <3> QED BY <1>3, <1>7, <2>1, <3>2
  <2> QED BY <2>2, <2>3, <2>4, <2>5
<1> QED BY <1>6, <1>7, <1>8

\* Bitmap::alloc finds a clear bit if there is one.
LEMMA AllocFinds ==
    ASSUME NEW bm \in BitmapType, NEW c \in (0..(maximum - 1)) \ Ones(bm)
    PROVE  alloc(bm) # {}
<1> DEFINE Has(b, w) == bm[b][w] # Full
           T == {b \in 0..(BitmapBlocks - 1) : \E w \in 0..(Words - 1) : Has(b, w)}
<1>1. T # {} /\ T \subseteq Nat
  <2>1. PICK b \in 0..(BitmapBlocks - 1), w \in 0..(Words - 1), i \in Full : i \notin bm[b][w]
    BY ClearBit, Zenon
  <2>2. Has(b, w)
    BY <2>1
  <2> QED BY <2>2
<1>2. PICK b \in T : \A x \in T : b <= x
  BY <1>1, NatMin, Zenon
<1> DEFINE U == {w \in 0..(Words - 1) : Has(b, w)}
<1>3. U # {} /\ U \subseteq Nat
  OBVIOUS
<1>4. PICK w \in U : \A x \in U : w <= x
  BY <1>3, NatMin, Zenon
<1> DEFINE p == [block |-> b, word |-> w, inner |-> trailing_ones(bm[b][w])]
<1>5. /\ b \in 0..(BitmapBlocks - 1) /\ w \in 0..(Words - 1)
      /\ bm[b][w] \in SUBSET Full /\ bm[b][w] # Full /\ DOMAIN bm = 0..(BitmapBlocks - 1)
  <2> QED BY Zenon DEF BitmapType
<1> USE <1>5
<1>6. p.inner \in Full
  BY TrailingOnes, Zenon
<1>7. ASSUME NEW v \in 0..(w - 1) PROVE bm[b][v] = Full
  <2>1. v \in 0..(Words - 1) /\ v < w /\ v \in Int /\ w \in Int
    BY BitmapSizes
  <2> QED BY <1>4, <2>1
<1>8. ASSUME NEW x \in 0..(b - 1), NEW v \in 0..(Words - 1) PROVE bm[x][v] = Full
  <2>1. x \in 0..(BitmapBlocks - 1) /\ x < b /\ x \in Int /\ b \in Int
    BY BitmapSizes
  <2> QED BY <1>2, <2>1
<1>9. p \in FirstClear(bm)
  BY <1>6, <1>7, <1>8 DEF FirstClear
<1> QED BY <1>9, Zenon DEF alloc

\* Bitmap::dealloc finds the bit and clears no other.
LEMMA DeallocFacts ==
    ASSUME NEW bm \in BitmapType, NEW bit \in Ones(bm)
    PROVE  /\ IsSet(bm, bit) /\ dealloc(bm, bit) \in BitmapType
           /\ Ones(dealloc(bm, bit)) = Ones(bm) \ {bit}
<1>1. PICK b \in 0..(BitmapBlocks - 1), w \in 0..(Words - 1), i \in Full : bit = Number(b, w, i)
  BY OnesNumbers, BitOfNumber, Zenon
<1>2. i \in bm[b][w] /\ IsSet(bm, bit)
  BY <1>1, OnesNumbers
<1>3. decomposition(bit) = [block |-> b, word |-> w, inner |-> i]
  <2> QED BY <1>1, NumberTakenApart
<1> DEFINE X == bm[b][w] \ {i}
<1>4. X \in SUBSET Full /\ X \ {i} = bm[b][w] \ {i} /\ i \notin X
  BY Zenon DEF BitmapType
<1>5. dealloc(bm, bit) = [bm EXCEPT ![b][w] = X]
  BY <1>3 DEF dealloc
<1> HIDE DEF X
<1>6. Flips(bm, b, w, i)
  BY OneBit, Zenon
<1> QED BY <1>1, <1>2, <1>4, <1>5, <1>6, Zenon DEF Flips

\* What a bitmap promises.
LEMMA LowestFirst ==
    ASSUME NEW bm \in BitmapType
    PROVE  AllocatesLowest(bm)
<1>1. alloc(bm) = {} <=> (0..(maximum - 1)) \ Ones(bm) = {}
  BY AllocFacts, AllocFinds
<1> QED BY <1>1, AllocFacts, DeallocFacts DEF AllocatesLowest

-----------------------------------------------------------------------------
(* Blocks taken from the bitmap.                                           *)

\* The sizes of the disk and of the index.
LEMMA DiskSizes ==
    /\ AreaStart \in Nat \ {0} /\ maximum \in Nat
    /\ BlockIds = 0..(AreaStart + maximum - 1)
BY DiskInodeAssumption, BitmapSizes DEF BlockIds

\* A block from the start of the data area on.
LEMMA InArea ==
    ASSUME NEW b \in BlockIds, AreaStart <= b
    PROVE  b \in AreaStart..(AreaStart + maximum - 1) /\ ~(b < AreaStart)
BY DiskSizes

\* The answer g of n calls of alloc_data.
Taken(g, n) ==
    /\ g.ids \in Seq(BlockIds) /\ Len(g.ids) = n /\ IsInjective(g.ids)
    /\ g.bitmap \in BitmapType
    /\ Ones(g.bitmap) = Ones(bitmap) \cup {x - AreaStart : x \in Range(g.ids)}
    /\ \A x \in Range(g.ids) : AreaStart <= x /\ x - AreaStart \notin Ones(bitmap)

\* One more call of alloc_data after those that gave S.
OneMore(S) ==
    UNION {{[ids |-> Append(p.ids, a.bit + AreaStart), bitmap |-> a.bitmap] :
                a \in alloc(p.bitmap)} : p \in S}

\* AllocData satisfies its definition.
LEMMA AllocDataSteps ==
    ASSUME bitmap \in BitmapType
    PROVE  /\ AllocData[0] = {[ids |-> <<>>, bitmap |-> bitmap]}
           /\ \A n \in Nat : AllocData[n + 1] = OneMore(AllocData[n])
<1> DEFINE Got == [ids : Seq(BlockIds), bitmap : BitmapType]
           V == SUBSET Got
           v == {[ids |-> <<>>, bitmap |-> bitmap]}
           h == [n \in Nat |-> [S \in V |-> OneMore(S)]]
           Eq(g) == [n \in Nat |-> IF n = 0 THEN v ELSE OneMore(g[n - 1])]
<1>1. v \in V
  OBVIOUS
<1>2. \A S \in V : OneMore(S) \in V
  <2> SUFFICES ASSUME NEW S \in V, NEW x \in OneMore(S) PROVE x \in Got
    OBVIOUS
  <2>1. PICK p \in S : x \in {[ids |-> Append(p.ids, a.bit + AreaStart), bitmap |-> a.bitmap] :
                                a \in alloc(p.bitmap)}
    BY Zenon DEF OneMore
  <2>2. PICK a \in alloc(p.bitmap) :
            x = [ids |-> Append(p.ids, a.bit + AreaStart), bitmap |-> a.bitmap]
    BY <2>1, Zenon
  <2>4. a.bit \in 0..(maximum - 1) /\ a.bitmap \in BitmapType
    BY AllocFacts
  <2>5. a.bit + AreaStart \in BlockIds
    BY <2>4, DiskSizes
  <2>6. Append(p.ids, a.bit + AreaStart) \in Seq(BlockIds)
    BY <2>5
  <2> QED BY <2>2, <2>4, <2>6
<1> HIDE DEF V
<1>3. h \in [Nat -> [V -> V]] /\ \A n \in Nat, S \in V : h[n][S] = OneMore(S)
  BY <1>2
<1> HIDE DEF h, v
<1>4. PICK g \in [Nat -> V] : Iterates(g, v, h)
  BY <1>1, <1>3, Iteration, Zenon
<1>5. g[0] = v /\ \A n \in Nat : g[n + 1] = OneMore(g[n])
  BY <1>3, <1>4 DEF Iterates
<1>6. g = Eq(g)
  <2>2. \A n \in Nat : g[n] = Eq(g)[n]
    BY <1>5
  <2> QED BY <2>2, Zenon
<1>7. AllocData = CHOOSE f : f = Eq(f)
  BY Zenon DEF AllocData, OneMore, v
<1>8. AllocData = Eq(AllocData)
  <2> HIDE DEF Eq
  <2> QED BY <1>6, <1>7, Zenon
<1>9. \A n \in Nat : AllocData[n] = IF n = 0 THEN v ELSE OneMore(AllocData[n - 1])
  BY <1>8, Zenon
<1>10. \A n \in Nat : n + 1 \in Nat /\ n + 1 # 0 /\ (n + 1) - 1 = n
  OBVIOUS
<1> QED BY <1>9, <1>10, Zenon DEF v

\* One more block taken.
LEMMA TakeOne ==
    ASSUME NEW n \in Nat, NEW p, Taken(p, n), NEW a \in alloc(p.bitmap)
    PROVE  Taken([ids |-> Append(p.ids, a.bit + AreaStart), bitmap |-> a.bitmap], n + 1)
<1> DEFINE s == p.ids
           x == a.bit + AreaStart
           t == Append(s, x)
<1>1. /\ a.bitmap \in BitmapType /\ a.bit \in 0..(maximum - 1) /\ a.bit \notin Ones(p.bitmap)
      /\ Ones(a.bitmap) = Ones(p.bitmap) \cup {a.bit}
  BY AllocFacts DEF Taken
<1>2. x \in BlockIds /\ AreaStart <= x /\ x - AreaStart = a.bit
  BY <1>1, DiskSizes
<1>3. /\ s \in Seq(BlockIds) /\ Len(s) = n /\ IsInjective(s)
      /\ Ones(p.bitmap) = Ones(bitmap) \cup {y - AreaStart : y \in Range(s)}
      /\ \A y \in Range(s) : AreaStart <= y /\ y - AreaStart \notin Ones(bitmap)
  BY DEF Taken
<1> HIDE DEF s, x
<1>4. /\ t \in Seq(BlockIds) /\ Len(t) = n + 1 /\ t[n + 1] = x
      /\ \A k \in 1..n : t[k] = s[k]
  BY <1>2, <1>3
<1>5. DOMAIN t = 1..(n + 1) /\ DOMAIN s = 1..n
  BY <1>4
<1> HIDE DEF t
<1>6. Range(t) = Range(s) \cup {x}
  <2> QED BY <1>4, <1>5 DEF Range
<1>7. x \notin Range(s)
  BY <1>1, <1>2, <1>3
<1>8. IsInjective(t)
  <2>1. \A k \in 1..n : s[k] \in Range(s)
    BY <1>5 DEF Range
  <2>2. \A j, k \in 1..n : s[j] = s[k] => j = k
    BY <1>3 DEF IsInjective
  <2>3. \A k \in 1..(n + 1) : k \in 1..n \/ k = n + 1
    OBVIOUS
  <2> QED BY <1>4, <1>5, <1>7, <2>1, <2>2, <2>3, Zenon DEF IsInjective
<1>9. Ones(a.bitmap) = Ones(bitmap) \cup {y - AreaStart : y \in Range(t)}
  BY <1>1, <1>2, <1>3, <1>6
<1>10. \A y \in Range(t) : AreaStart <= y /\ y - AreaStart \notin Ones(bitmap)
  BY <1>1, <1>2, <1>3, <1>6
<1> QED BY <1>1, <1>4, <1>8, <1>9, <1>10 DEF Taken, t, s, x

\* The blocks that increase_size is given were free and are different, and the bitmap
\* has them set.
LEMMA AllocDataTakes ==
    ASSUME bitmap \in BitmapType
    PROVE  \A n \in Nat : \A g \in AllocData[n] : Taken(g, n)
<1> DEFINE T == {n \in Nat : \A g \in AllocData[n] : Taken(g, n)}
<1>1. 0 \in T
  <2>1. AllocData[0] = {[ids |-> <<>>, bitmap |-> bitmap]}
    BY AllocDataSteps
  <2>2. Range(<<>>) = {} /\ IsInjective(<<>>)
    BY DEF Range, IsInjective
  <2>3. Taken([ids |-> <<>>, bitmap |-> bitmap], 0)
    BY <2>2 DEF Taken
  <2> QED BY <2>1, <2>3
<1>2. ASSUME NEW n \in Nat, n \in T PROVE n + 1 \in T
  <2> SUFFICES ASSUME NEW g \in AllocData[n + 1] PROVE Taken(g, n + 1)
    OBVIOUS
  <2>1. AllocData[n + 1] = OneMore(AllocData[n])
    BY AllocDataSteps
  <2>2. PICK p \in AllocData[n] : g \in
            {[ids |-> Append(p.ids, a.bit + AreaStart), bitmap |-> a.bitmap] :
                a \in alloc(p.bitmap)}
    BY <2>1, Zenon DEF OneMore
  <2>3. PICK a \in alloc(p.bitmap) :
            g = [ids |-> Append(p.ids, a.bit + AreaStart), bitmap |-> a.bitmap]
    BY <2>2, Zenon
  <2>4. Taken(p, n)
    BY <1>2
  <2> QED BY <2>3, <2>4, TakeOne, Zenon
<1> HIDE DEF T
<1>3. Nat \subseteq T
  BY <1>1, <1>2, SetInduction
<1> QED BY <1>3 DEF T

-----------------------------------------------------------------------------
(* Where in the index a block is.                                          *)

D == INODE_DIRECT_COUNT
N == INODE_INDIRECT1_COUNT

\* The indirect block below the doubly indirect one that has data block k, and the entry.
Tab(k) == (k - INDIRECT1_BOUND) \div INODE_INDIRECT1_COUNT
Ent(k) == (k - INDIRECT1_BOUND) % INODE_INDIRECT1_COUNT

\* A file of n data blocks needs indirect block a below the doubly indirect one.
HasTable(n, a) == a \in Nat /\ D + N + a * N < n

\* The sizes of the index.
LEMMA IndexSizes ==
    /\ D \in Nat /\ N \in Nat \ {0} /\ N * N \in Nat /\ Entries = 0..(N - 1)
    /\ INODE_DIRECT_COUNT = D /\ INODE_INDIRECT1_COUNT = N
    /\ INDIRECT1_BOUND = D + N /\ INODE_INDIRECT2_COUNT = N * N
<1>1. D \in Nat /\ N \in Nat \ {0}
  BY DiskInodeAssumption DEF D, N
<1> QED BY <1>1 DEF D, N, Entries, INDIRECT1_BOUND, INODE_INDIRECT2_COUNT

\* A data block beyond the indirect ones is at one entry.
LEMMA EntryOf ==
    ASSUME NEW k \in Nat, D + N <= k
    PROVE  Tab(k) \in Nat /\ Ent(k) \in 0..(N - 1) /\ k = D + N + Tab(k) * N + Ent(k)
<1> DEFINE last == k - (D + N)
<1>1. last \in Nat /\ N \in Nat \ {0}
  BY IndexSizes
<1> USE <1>1
<1>2. Tab(k) = last \div N /\ Ent(k) = last % N
  BY IndexSizes, Zenon DEF Tab, Ent
<1>3. Tab(k) \in Nat /\ Ent(k) \in 0..(N - 1) /\ last = Tab(k) * N + Ent(k)
  <2> HIDE DEF last
  <2> QED BY <1>2, DivModBounds, Zenon
<1>4. D \in Nat /\ Tab(k) * N \in Nat /\ Ent(k) \in Nat
  BY <1>3, IndexSizes
<1>5. k = D + N + last
  BY <1>4
<1> HIDE DEF last
<1> QED BY <1>3, <1>4, <1>5

\* The indirect blocks of a file of k + 1 data blocks are those up to that of block k.
LEMMA TablesUpto ==
    ASSUME NEW k \in Nat, D + N <= k, NEW a \in Nat
    PROVE  HasTable(k + 1, a) <=> a <= Tab(k)
<1>1. /\ Tab(k) \in Nat /\ Ent(k) \in 0..(N - 1) /\ k = D + N + Tab(k) * N + Ent(k)
      /\ D \in Nat /\ N \in Nat
  BY EntryOf, IndexSizes, Zenon
<1> USE <1>1
<1>3. CASE a <= Tab(k)
  <2> QED BY DEF HasTable
<1>4. CASE Tab(k) + 1 <= a
  <2> QED BY DEF HasTable
<1> QED BY <1>3, <1>4

\* A file without data blocks beyond the indirect ones has no such blocks.
LEMMA NoTables ==
    ASSUME NEW n \in Nat, n <= D + N, NEW a
    PROVE  ~HasTable(n, a)
<1> QED BY IndexSizes DEF HasTable

\* An indirect block is needed from its first entry on.
LEMMA TablesGrow ==
    ASSUME NEW k \in Nat, D + N <= k, NEW a
    PROVE  /\ HasTable(k + 1, a) <=> HasTable(k, a) \/ (a = Tab(k) /\ Ent(k) = 0)
           /\ HasTable(k, Tab(k)) <=> Ent(k) # 0
<1>1. /\ Tab(k) \in Nat /\ Ent(k) \in 0..(N - 1) /\ k = D + N + Tab(k) * N + Ent(k)
      /\ D \in Nat /\ N \in Nat
  BY EntryOf, IndexSizes, Zenon
<1> USE <1>1
<1>3. HasTable(k, Tab(k)) <=> Ent(k) # 0
  BY DEF HasTable
<1>4. ASSUME a \in Nat PROVE HasTable(k + 1, a) <=> HasTable(k, a) \/ (a = Tab(k) /\ Ent(k) = 0)
  <2>1. HasTable(k + 1, a) <=> a <= Tab(k)
    BY <1>4, TablesUpto
  <2>2. ASSUME a < Tab(k) PROVE HasTable(k, a)
    <3>1. (a + 1) * N <= Tab(k) * N /\ (a + 1) * N = a * N + N /\ a * N \in Nat
      BY <1>4, <2>2
    <3> QED BY <1>4, <3>1 DEF HasTable
  <2>3. HasTable(k, a) => HasTable(k + 1, a)
    <3> QED BY DEF HasTable
  <2> QED BY <1>3, <1>4, <2>1, <2>2, <2>3
<1> QED BY <1>4 DEF HasTable

\* The indirect blocks that a file needs have an entry in the doubly indirect one.
LEMMA TableInIndex ==
    ASSUME NEW n \in Nat, n <= D + N + N * N, NEW a, HasTable(n, a)
    PROVE  a \in Entries
<1>1. a \in Nat /\ D \in Nat /\ N \in Nat /\ Entries = 0..(N - 1) /\ N * N \in Nat
  BY IndexSizes DEF HasTable
<1>2. SUFFICES ASSUME N <= a PROVE FALSE
  BY <1>1
<1>3. N * N <= a * N /\ a * N \in Nat
  BY <1>1, <1>2
<1> QED BY <1>1, <1>3 DEF HasTable

\* The data blocks of a file are below indirect blocks that it has, each at its own entry.
LEMMA EntriesOfFile ==
    ASSUME NEW n \in Nat, NEW k \in Nat, D + N <= k, k < n
    PROVE  /\ HasTable(n, Tab(k))
           /\ \A j \in Nat : D + N <= j /\ Tab(j) = Tab(k) /\ Ent(j) = Ent(k) => j = k
<1>1. /\ Tab(k) \in Nat /\ Ent(k) \in 0..(N - 1) /\ k = D + N + Tab(k) * N + Ent(k)
      /\ D \in Nat /\ N \in Nat
  BY EntryOf, IndexSizes, Zenon
<1>3. HasTable(n, Tab(k))
  BY <1>1 DEF HasTable
<1>4. ASSUME NEW j \in Nat, D + N <= j, Tab(j) = Tab(k), Ent(j) = Ent(k) PROVE j = k
  <2>1. j = D + N + Tab(j) * N + Ent(j)
    BY <1>4, EntryOf
  <2> QED BY <1>1, <1>4, <2>1
<1> QED BY <1>3, <1>4

\* How many indirect blocks a file of n data blocks needs below the doubly indirect one.
Tables(n) == (n - INDIRECT1_BOUND + INODE_INDIRECT1_COUNT - 1) \div INODE_INDIRECT1_COUNT

\* total_blocks, of the number of data blocks.
Total(n) ==
    n + (IF n > INODE_DIRECT_COUNT THEN 1 ELSE 0)
      + (IF n > INDIRECT1_BOUND THEN 1 + Tables(n) ELSE 0)

\* How many blocks increase_size takes for data block k.
Need(k) ==
    1 + (IF k = D THEN 1 ELSE 0) + (IF k = D + N THEN 1 ELSE 0)
      + (IF D + N <= k /\ Ent(k) = 0 THEN 1 ELSE 0)

\* total_blocks counts indirect blocks by division, increase_size by entries.
LEMMA TablesCounted ==
    ASSUME NEW k \in Nat, D + N <= k
    PROVE  /\ Tables(k + 1) = Tab(k) + 1
           /\ Tables(k) = Tab(k) + (IF Ent(k) = 0 THEN 0 ELSE 1)
<1> DEFINE t == Tab(k)
           e == Ent(k)
<1>1. /\ t \in Nat /\ e \in 0..(N - 1) /\ k = D + N + t * N + e
      /\ D \in Nat /\ N \in Nat \ {0}
  BY EntryOf, IndexSizes, Zenon
<1> USE <1>1
<1>2. \A n : Tables(n) = (n - (D + N) + N - 1) \div N
  BY IndexSizes, Zenon DEF Tables
<1> HIDE DEF t, e
<1>4. Tables(k + 1) = t + 1
  <2> QED BY <1>2
<1>5. CASE e = 0
  <2>1. k - (D + N) + N - 1 = t * N + (N - 1) /\ N - 1 \in 0..(N - 1)
    BY <1>5
  <2>2. (t * N + (N - 1)) \div N = t
    BY <2>1, DivModUnique, Zenon
  <2> QED BY <1>2, <1>4, <1>5, <2>2 DEF t, e
<1>6. CASE e # 0
  <2>1. k - (D + N) + N - 1 = (t + 1) * N + (e - 1) /\ e - 1 \in 0..(N - 1) /\ t + 1 \in Nat
    BY <1>6
  <2>2. ((t + 1) * N + (e - 1)) \div N = t + 1
    BY <2>1, DivModUnique, Zenon
  <2> QED BY <1>2, <1>4, <2>2 DEF t, e
<1> QED BY <1>5, <1>6

\* total_blocks is the sum of what increase_size takes.
LEMMA TotalStep ==
    ASSUME NEW k \in Nat
    PROVE  /\ Total(k) \in Nat /\ Need(k) \in Nat \ {0} /\ Total(k + 1) = Total(k) + Need(k)
<1>1. D \in Nat /\ N \in Nat \ {0}
  BY IndexSizes
<1> USE <1>1
<1>2. \A n : Total(n) = n + (IF n > D THEN 1 ELSE 0) + (IF n > D + N THEN 1 + Tables(n) ELSE 0)
  BY IndexSizes, Zenon DEF Total
<1>4. CASE k < D + N
  <2>1. Total(k) = k + (IF k > D THEN 1 ELSE 0)
    BY <1>2, <1>4
  <2>2. Total(k + 1) = k + 1 + (IF k + 1 > D THEN 1 ELSE 0)
    BY <1>2, <1>4
  <2>3. Need(k) = 1 + (IF k = D THEN 1 ELSE 0)
    BY <1>4 DEF Need
  <2> QED BY <2>1, <2>2, <2>3
<1>5. CASE D + N <= k
  <2> DEFINE t == Tab(k)
             e == Ent(k)
  <2>1. /\ Tables(k + 1) = t + 1 /\ Tables(k) = t + (IF e = 0 THEN 0 ELSE 1)
    BY <1>5, TablesCounted
  <2>2. t \in Nat /\ e \in 0..(N - 1) /\ k = D + N + t * N + e
    BY <1>5, EntryOf
  <2> USE <2>2
  <2>3. Need(k) = 1 + (IF k = D + N THEN 1 ELSE 0) + (IF e = 0 THEN 1 ELSE 0)
    BY DEF Need
  <2> HIDE DEF t, e
  <2>6. Total(k + 1) = k + 1 + 1 + (1 + (t + 1))
    BY <1>2, <2>1
  <2>7. CASE k = D + N
    <3>1. Total(k) = k + 1
      BY <1>2, <2>7
    <3> QED BY <2>3, <2>6, <2>7, <3>1
  <2>8. CASE k > D + N
    <3>1. Total(k) = k + 1 + (1 + (t + (IF e = 0 THEN 0 ELSE 1)))
      BY <1>2, <2>1, <2>8
    <3> QED BY <2>3, <2>6, <2>8, <3>1
  <2> QED BY <2>7, <2>8
<1> QED BY <1>4, <1>5

\* A larger file has no fewer blocks, and an empty one has none.
LEMMA TotalMono ==
    /\ Total(0) = 0
    /\ \A n, m \in Nat : n <= m => Total(n) <= Total(m)
<1>1. Total(0) = 0
  BY IndexSizes DEF Total
<1> DEFINE T == {d \in Nat : \A n \in Nat : Total(n) <= Total(n + d)}
<1>2. 0 \in T
  BY TotalStep
<1>3. ASSUME NEW d \in Nat, d \in T PROVE d + 1 \in T
  <2> SUFFICES ASSUME NEW n \in Nat PROVE Total(n) <= Total(n + (d + 1))
    OBVIOUS
  <2>1. Total(n) <= Total(n + d) /\ n + d \in Nat /\ n + (d + 1) = (n + d) + 1
    BY <1>3
  <2>2. /\ Total(n) \in Nat /\ Total(n + d) \in Nat /\ Need(n + d) \in Nat
        /\ Total((n + d) + 1) = Total(n + d) + Need(n + d)
    BY TotalStep
  <2> QED BY <2>1, <2>2
<1>4. Nat \subseteq T
  <2> HIDE DEF T
  <2> QED BY <1>2, <1>3, SetInduction
<1>5. ASSUME NEW n \in Nat, NEW m \in Nat, n <= m PROVE Total(n) <= Total(m)
  <2>1. m - n \in Nat /\ n + (m - n) = m
    BY <1>5
  <2>2. m - n \in T
    BY <1>4, <2>1
  <2> QED BY <2>2
<1> QED BY <1>1, <1>5

-----------------------------------------------------------------------------
(* The blocks of a file.                                                   *)

\* The places for blocks in a file of n data blocks: a number from 0 on is that of a data
\* block, -1 and -2 are the indirect and the doubly indirect block, and -3 - a is indirect
\* block a below the latter.
Slots(n) ==
    {s \in Int : \/ 0 <= s /\ s < n
                 \/ s = -1 /\ D < n
                 \/ s = -2 /\ D + N < n
                 \/ s < -2 /\ HasTable(n, -3 - s)}

\* The block at a place, for disk inode ino and the index blocks dev.
At(ino, dev, s) ==
    IF s >= 0 THEN get_block_id(ino, dev, s)
    ELSE IF s = -1 THEN ino.indirect1
    ELSE IF s = -2 THEN ino.indirect2 ELSE dev[ino.indirect2][-3 - s]

Blocks(ino, dev, n) == {At(ino, dev, s) : s \in Slots(n)}

\* No block is at two places.
Distinct(ino, dev, n) ==
    \A s, t \in Slots(n) : At(ino, dev, s) = At(ino, dev, t) => s = t

\* The file grows from n to m data blocks by the blocks X, which go to its new places; what
\* it had stays in place and no block outside the file changes.
Grown(ino, dev, n, ino2, dev2, m, X) ==
    /\ Slots(n) \subseteq Slots(m)
    /\ \A s \in Slots(n) : At(ino2, dev2, s) = At(ino, dev, s)
    /\ \A s \in Slots(m) \ Slots(n) : At(ino2, dev2, s) \in X
    /\ \A s, t \in Slots(m) \ Slots(n) : At(ino2, dev2, s) = At(ino2, dev2, t) => s = t
    /\ \A x \in X : \E s \in Slots(m) \ Slots(n) : At(ino2, dev2, s) = x
    /\ \A b \in BlockIds : b \notin Blocks(ino2, dev2, m) => dev2[b] = dev[b]

InodeType == [size : Nat, direct : [0..(D - 1) -> BlockIds],
              indirect1 : BlockIds, indirect2 : BlockIds]
IndexType == [BlockIds -> [Entries -> BlockIds]]

\* The places that data block k brings.
LEMMA SlotsGrow ==
    ASSUME NEW k \in Nat
    PROVE  /\ Slots(k) \subseteq Slots(k + 1)
           /\ \A s : s \in Slots(k + 1) \ Slots(k) <=>
                \/ s = k
                \/ s = -1 /\ k = D
                \/ s = -2 /\ k = D + N
                \/ s = -3 - Tab(k) /\ D + N <= k /\ Ent(k) = 0
<1>1. D \in Nat /\ N \in Nat \ {0}
  BY IndexSizes
<1> USE <1>1
<1>2. \A n : \A s : s \in Slots(n) <=>
        /\ s \in Int
        /\ \/ 0 <= s /\ s < n
           \/ s = -1 /\ D < n
           \/ s = -2 /\ D + N < n
           \/ s < -2 /\ HasTable(n, -3 - s)
  BY Zenon DEF Slots
<1> USE <1>2
<1>3. CASE k < D + N
  <2>1. \A a : ~HasTable(k, a) /\ ~HasTable(k + 1, a)
    BY <1>3, NoTables
  <2>2. \A s : s \in Slots(k + 1) <=> s \in Slots(k) \/ s = k \/ (s = -1 /\ k = D)
    BY <1>3, <2>1
  <2>4. ~(D + N <= k) /\ k # D + N
    BY <1>3
  <2> QED BY <2>2, <2>4
<1>4. CASE D + N <= k
  <2>1. /\ \A a : HasTable(k + 1, a) <=> HasTable(k, a) \/ (a = Tab(k) /\ Ent(k) = 0)
        /\ HasTable(k, Tab(k)) <=> Ent(k) # 0
        /\ Tab(k) \in Nat
    BY <1>4, TablesGrow, EntryOf
  <2> USE <2>1
  <2> QED BY <1>4
<1> QED BY <1>3, <1>4

\* Growing in two steps.
LEMMA GrownTwice ==
    ASSUME NEW i0, NEW d0, NEW n, NEW i1, NEW d1, NEW k, NEW i2, NEW d2, NEW m, NEW X, NEW Y,
           Grown(i0, d0, n, i1, d1, k, X), Grown(i1, d1, k, i2, d2, m, Y), X \cap Y = {}
    PROVE  Grown(i0, d0, n, i2, d2, m, X \cup Y)
<1>1. Slots(n) \subseteq Slots(k) /\ Slots(k) \subseteq Slots(m)
  BY DEF Grown
<1> USE <1>1
<1>9. ASSUME NEW b \in BlockIds, b \notin Blocks(i2, d2, m) PROVE d2[b] = d0[b]
  <2>1. Blocks(i1, d1, k) \subseteq Blocks(i2, d2, m)
    <3> SUFFICES ASSUME NEW s \in Slots(k) PROVE At(i1, d1, s) \in Blocks(i2, d2, m)
      BY Zenon DEF Blocks
    <3>1. At(i2, d2, s) = At(i1, d1, s) /\ s \in Slots(m)
      BY Zenon DEF Grown
    <3> QED BY <3>1, Zenon DEF Blocks
  <2>2. b \notin Blocks(i1, d1, k)
    BY <1>9, <2>1, Zenon
  <2> QED BY <1>9, <2>2, Zenon DEF Grown
<1> QED BY <1>9 DEF Grown

\* A file that grows by blocks it does not have has no block twice.
LEMMA GrownBlocks ==
    ASSUME NEW ino, NEW dev, NEW n, NEW ino2, NEW dev2, NEW m, NEW X,
           Grown(ino, dev, n, ino2, dev2, m, X), Distinct(ino, dev, n),
           X \cap Blocks(ino, dev, n) = {}
    PROVE  /\ Distinct(ino2, dev2, m)
           /\ Blocks(ino2, dev2, m) = Blocks(ino, dev, n) \cup X
<1>1. \A s \in Slots(n) : At(ino2, dev2, s) = At(ino, dev, s) /\ At(ino2, dev2, s) \notin X
  <2>1. \A s \in Slots(n) : At(ino2, dev2, s) = At(ino, dev, s) /\ At(ino, dev, s) \in Blocks(ino, dev, n)
    BY Zenon DEF Grown, Blocks
  <2> QED BY <2>1
<1> USE <1>1
<1>2. \A s \in Slots(m) \ Slots(n) : At(ino2, dev2, s) \in X
  BY Zenon DEF Grown
<1>3. Distinct(ino2, dev2, m)
  <2> SUFFICES ASSUME NEW s \in Slots(m), NEW t \in Slots(m),
                      At(ino2, dev2, s) = At(ino2, dev2, t)
               PROVE  s = t
    BY Zenon DEF Distinct
  <2>1. CASE s \in Slots(n) /\ t \in Slots(n)
    BY <2>1, Zenon DEF Distinct
  <2>2. CASE s \notin Slots(n) /\ t \notin Slots(n)
    BY <2>2, Zenon DEF Grown
  <2> QED BY <1>2, <2>1, <2>2
<1>4. ASSUME NEW b PROVE b \in Blocks(ino2, dev2, m) <=> b \in Blocks(ino, dev, n) \cup X
  <2>1. ASSUME b \in Blocks(ino2, dev2, m) PROVE b \in Blocks(ino, dev, n) \cup X
    <3>1. PICK s \in Slots(m) : b = At(ino2, dev2, s)
      BY <2>1, Zenon DEF Blocks
    <3> QED BY <1>2, <3>1, Zenon DEF Blocks
  <2>2. ASSUME b \in Blocks(ino, dev, n) PROVE b \in Blocks(ino2, dev2, m)
    BY <2>2, Zenon DEF Blocks, Grown
  <2>3. ASSUME b \in X PROVE b \in Blocks(ino2, dev2, m)
    BY <2>3, Zenon DEF Blocks, Grown
  <2> QED BY <2>1, <2>2, <2>3
<1> QED BY <1>3, <1>4

\* The block at a place of the direct blocks.
LEMMA AtDirect ==
    ASSUME NEW ino, NEW dev, NEW s \in Int, 0 <= s, s < D
    PROVE  At(ino, dev, s) = ino.direct[s]
BY IndexSizes DEF At, get_block_id

\* The block at a place under the indirect block.
LEMMA AtIndirect1 ==
    ASSUME NEW ino, NEW dev, NEW s \in Int, D <= s, s < D + N
    PROVE  At(ino, dev, s) = dev[ino.indirect1][s - D]
BY IndexSizes DEF At, get_block_id

\* The block at a place under the doubly indirect block.
LEMMA AtIndirect2 ==
    ASSUME NEW ino, NEW dev, NEW s \in Int, D + N <= s
    PROVE  At(ino, dev, s) = dev[dev[ino.indirect2][Tab(s)]][Ent(s)]
BY IndexSizes DEF At, get_block_id, Tab, Ent

\* The indirect and the doubly indirect block are at places -1 and -2.
LEMMA AtIndex ==
    ASSUME NEW ino, NEW dev
    PROVE  At(ino, dev, -1) = ino.indirect1 /\ At(ino, dev, -2) = ino.indirect2
BY DEF At

\* The indirect blocks below the doubly indirect one are at the places after those.
LEMMA AtTable ==
    ASSUME NEW ino, NEW dev, NEW s \in Int, s < -2
    PROVE  At(ino, dev, s) = dev[ino.indirect2][-3 - s]
BY DEF At

\* Which places a file has.
LEMMA SlotFacts ==
    ASSUME NEW n, NEW s
    PROVE  s \in Slots(n) <=>
                /\ s \in Int
                /\ \/ 0 <= s /\ s < n
                   \/ s = -1 /\ D < n
                   \/ s = -2 /\ D + N < n
                   \/ s < -2 /\ HasTable(n, -3 - s)
BY Zenon DEF Slots

\* One more direct block.
LEMMA GrowDirect ==
    ASSUME NEW ino \in InodeType, NEW dev, NEW k \in Nat, k < D, NEW x \in BlockIds,
           NEW ino2, ino2 = [ino EXCEPT !.direct[k] = x]
    PROVE  /\ ino2 \in InodeType /\ ino2.size = ino.size
           /\ Grown(ino, dev, k, ino2, dev, k + 1, {x})
<1>1. D \in Nat /\ N \in Nat \ {0} /\ k \in 0..(D - 1) /\ k < D + N
  BY IndexSizes
<1> USE <1>1
<1>2. /\ ino2 \in InodeType /\ ino2.size = ino.size
      /\ ino2.direct[k] = x /\ \A s \in 0..(D - 1) : s # k => ino2.direct[s] = ino.direct[s]
  BY Zenon DEF InodeType
<1>3. Slots(k) \subseteq Slots(k + 1) /\ \A s : s \in Slots(k + 1) \ Slots(k) <=> s = k
  BY SlotsGrow
<1>4. \A s \in Slots(k) : s \in 0..(D - 1) /\ s # k
  BY SlotFacts, NoTables
<1>5. At(ino2, dev, k) = x
  <2>1. k \in Int /\ 0 <= k
    OBVIOUS
  <2> QED BY <1>2, <2>1, AtDirect, Zenon
<1>6. \A s \in Slots(k) : At(ino2, dev, s) = At(ino, dev, s)
  <2> TAKE s \in Slots(k)
  <2>1. s \in Int /\ 0 <= s /\ s < D /\ s \in 0..(D - 1) /\ s # k
    BY <1>4
  <2>2. At(ino2, dev, s) = ino2.direct[s] /\ At(ino, dev, s) = ino.direct[s]
    BY <2>1, AtDirect, Zenon
  <2> QED BY <2>1, <2>2
<1> QED BY <1>2, <1>3, <1>5, <1>6 DEF Grown

\* One more entry of the indirect block b, which is new for the first one.
LEMMA GrowIndirect1 ==
    ASSUME NEW ino \in InodeType, NEW dev \in IndexType, NEW k \in Nat, D <= k, k < D + N,
           NEW b \in BlockIds, NEW x \in BlockIds, IF k = D THEN b # x ELSE b = ino.indirect1,
           NEW ino2, ino2 = [ino EXCEPT !.indirect1 = b],
           NEW dev2, dev2 = [dev EXCEPT ![b][k - D] = x]
    PROVE  /\ ino2 \in InodeType /\ dev2 \in IndexType /\ ino2.size = ino.size
           /\ Grown(ino, dev, k, ino2, dev2, k + 1, IF k = D THEN {b, x} ELSE {x})
<1>1. /\ D \in Nat /\ N \in Nat \ {0} /\ k - D \in Entries /\ Entries = 0..(N - 1)
      /\ ~(D + N <= k) /\ k # D + N
  BY IndexSizes
<1>2. /\ ino2 \in InodeType /\ ino2.size = ino.size /\ ino2.direct = ino.direct
      /\ ino2.indirect1 = b
  BY DEF InodeType
<1>3. /\ dev2 \in IndexType /\ dev2[b][k - D] = x
      /\ \A e \in Entries : e # k - D => dev2[b][e] = dev[b][e]
      /\ \A c \in BlockIds : c # b => dev2[c] = dev[c]
  BY <1>1 DEF IndexType
<1>4. /\ Slots(k) \subseteq Slots(k + 1)
      /\ \A s : s \in Slots(k + 1) \ Slots(k) <=> s = k \/ (s = -1 /\ k = D)
  BY <1>1, SlotsGrow
<1>5. \A s \in Slots(k) : /\ s \in Int
                         /\ \/ 0 <= s /\ s < D
                            \/ D <= s /\ s < D + N /\ s - D \in Entries /\ s - D # k - D /\ k # D
                            \/ s = -1 /\ k # D
  <2> TAKE s \in Slots(k)
  <2>1. ~HasTable(k, -3 - s)
    BY <1>1, NoTables
  <2>2. /\ s \in Int
        /\ (0 <= s /\ s < k) \/ (s = -1 /\ D < k) \/ (s = -2 /\ D + N < k)
    BY <2>1, SlotFacts
  <2> QED BY <1>1, <2>2
<1>6. At(ino2, dev2, k) = x /\ At(ino2, dev2, -1) = b
  <2>1. k \in Int
    OBVIOUS
  <2>2. At(ino2, dev2, k) = dev2[ino2.indirect1][k - D]
    BY <2>1, AtIndirect1, Zenon
  <2> QED BY <1>2, <1>3, <2>2, AtIndex, Zenon
<1>7. ASSUME NEW s \in Slots(k) PROVE At(ino2, dev2, s) = At(ino, dev, s)
  <2>1. s \in Int
    BY <1>5
  <2>2. CASE 0 <= s /\ s < D
    <3>1. At(ino2, dev2, s) = ino2.direct[s] /\ At(ino, dev, s) = ino.direct[s]
      BY <2>1, <2>2, AtDirect, Zenon
    <3> QED BY <3>1
  <2>3. CASE D <= s /\ s < D + N /\ s - D \in Entries /\ s - D # k - D /\ k # D
    <3>1. /\ At(ino2, dev2, s) = dev2[ino2.indirect1][s - D]
          /\ At(ino, dev, s) = dev[ino.indirect1][s - D]
      BY <2>1, <2>3, AtIndirect1, Zenon
    <3> QED BY <2>3, <3>1
  <2>4. CASE s = -1 /\ k # D
    BY <1>2, <2>4, AtIndex, Zenon
  <2> QED BY <1>5, <2>2, <2>3, <2>4
<1>8. -1 \in Slots(k + 1)
  BY <1>1, SlotFacts
<1>9. \A c \in BlockIds : c \notin Blocks(ino2, dev2, k + 1) => dev2[c] = dev[c]
  BY <1>3, <1>6, <1>8, Zenon DEF Blocks
<1> DEFINE X == IF k = D THEN {b, x} ELSE {x}
<1>10. /\ \A s \in Slots(k + 1) \ Slots(k) : At(ino2, dev2, s) \in X
       /\ \A s, t \in Slots(k + 1) \ Slots(k) : At(ino2, dev2, s) = At(ino2, dev2, t) => s = t
       /\ \A y \in X : \E s \in Slots(k + 1) \ Slots(k) : At(ino2, dev2, s) = y
  <2>1. CASE k = D
    <3>1. Slots(k + 1) \ Slots(k) = {k, -1}
      BY <1>4, <2>1, Zenon
    <3>2. X = {b, x} /\ b # x
      BY <2>1
    <3> HIDE DEF X
    <3> QED BY <1>6, <3>1, <3>2, Zenon
  <2>2. CASE k # D
    <3>1. Slots(k + 1) \ Slots(k) = {k}
      <4>1. \A s : s \in Slots(k + 1) \ Slots(k) <=> s = k
        BY <1>4, <2>2
      <4> QED BY <4>1
    <3>2. X = {x}
      BY <2>2
    <3> HIDE DEF X
    <3> QED BY <1>6, <3>1, <3>2, Zenon
  <2> QED BY <2>1, <2>2, Zenon
<1> HIDE DEF X
<1>11. Grown(ino, dev, k, ino2, dev2, k + 1, X)
  BY <1>4, <1>7, <1>9, <1>10, Zenon DEF Grown
<1> QED BY <1>2, <1>3, <1>11 DEF X

\* Entry f of index block b is now x.
Put(dev, b, f, x, dev2) ==
    /\ dev2[b][f] = x
    /\ \A g \in Entries : g # f => dev2[b][g] = dev[b][g]
    /\ \A d \in BlockIds : d # b => dev2[d] = dev[d]

\* Writing one entry of an index block.
LEMMA PutFacts ==
    ASSUME NEW dev \in IndexType, NEW b \in BlockIds, NEW f \in Entries, NEW x \in BlockIds
    PROVE  LET dev2 == [dev EXCEPT ![b][f] = x] IN dev2 \in IndexType /\ Put(dev, b, f, x, dev2)
BY DEF IndexType, Put

\* One more entry of the indirect block t below the doubly indirect block c, which are new
\* when their first entries are filled.
LEMMA GrowIndirect2 ==
    ASSUME NEW ino \in InodeType, NEW dev \in IndexType,
           NEW k \in Nat, D + N <= k, k < D + N + N * N, Distinct(ino, dev, k),
           NEW c \in BlockIds, NEW t \in BlockIds, NEW x \in BlockIds,
           IF k = D + N THEN c \notin Blocks(ino, dev, k) ELSE c = ino.indirect2,
           IF Ent(k) = 0 THEN t \notin Blocks(ino, dev, k) ELSE t = dev[c][Tab(k)],
           c # t, c # x, t # x,
           NEW ino2, ino2 = [ino EXCEPT !.indirect2 = c],
           NEW dev2, dev2 = [dev EXCEPT ![c][Tab(k)] = t, ![t][Ent(k)] = x]
    PROVE  /\ ino2 \in InodeType /\ dev2 \in IndexType /\ ino2.size = ino.size
           /\ Grown(ino, dev, k, ino2, dev2, k + 1,
                    {x} \cup (IF k = D + N THEN {c} ELSE {})
                        \cup (IF Ent(k) = 0 THEN {t} ELSE {}))
<1> DEFINE a == Tab(k)
           e == Ent(k)
<1>1. D \in Nat /\ N \in Nat \ {0} /\ Entries = 0..(N - 1) /\ N * N \in Nat
  BY IndexSizes
<1>2. a \in Nat /\ e \in Entries /\ a \in Entries
  <2>1. a \in Nat /\ e \in Entries
    BY <1>1, EntryOf
  <2>2. HasTable(k + 1, a)
    BY <2>1, TablesUpto
  <2>3. k + 1 \in Nat /\ k + 1 <= D + N + N * N
    BY <1>1
  <2> QED BY <2>1, <2>2, <2>3, TableInIndex, Zenon
<1>3. /\ ino2 \in InodeType /\ ino2.size = ino.size /\ ino2.direct = ino.direct
      /\ ino2.indirect1 = ino.indirect1 /\ ino2.indirect2 = c
  BY DEF InodeType
<1> HIDE DEF a, e
<1>4. dev2 = [dev EXCEPT ![c][a] = t, ![t][e] = x]
  BY DEF a, e
<1>5. /\ dev2 \in IndexType /\ dev2[c][a] = t /\ dev2[t][e] = x
      /\ \A f \in Entries : f # a => dev2[c][f] = dev[c][f]
      /\ \A f \in Entries : f # e => dev2[t][f] = dev[t][f]
      /\ \A b \in BlockIds : b # c /\ b # t => dev2[b] = dev[b]
  <2> DEFINE dev1 == [dev EXCEPT ![c][a] = t]
  <2>1. dev1 \in IndexType /\ Put(dev, c, a, t, dev1)
    BY <1>2, PutFacts, Zenon
  <2>2. dev2 = [dev1 EXCEPT ![t][e] = x]
    BY <1>4, Zenon
  <2> HIDE DEF dev1
  <2>3. dev2 \in IndexType /\ Put(dev1, t, e, x, dev2)
    <3> DEFINE w == [dev1 EXCEPT ![t][e] = x]
    <3>1. w \in IndexType /\ Put(dev1, t, e, x, w)
      BY <1>2, <2>1, PutFacts, Zenon
    <3> HIDE DEF w
    <3>2. dev2 = w
      BY <2>2, Zenon DEF w
    <3> QED BY <3>1, <3>2, Zenon
  <2> QED BY <2>1, <2>3, Zenon DEF Put
<1>6. /\ Slots(k) \subseteq Slots(k + 1)
      /\ \A s : s \in Slots(k + 1) \ Slots(k) <=>
            s = k \/ (s = -2 /\ k = D + N) \/ (s = -3 - a /\ e = 0)
  BY <1>1, SlotsGrow DEF a, e
<1>7. At(ino2, dev2, k) = x /\ At(ino2, dev2, -2) = c /\ At(ino2, dev2, -3 - a) = t
  <2>1. k \in Int /\ -3 - a \in Int /\ -3 - a < -2 /\ -3 - (-3 - a) = a
    BY <1>2
  <2>2. At(ino2, dev2, k) = dev2[dev2[ino2.indirect2][a]][e]
    BY <2>1, AtIndirect2, Zenon DEF a, e
  <2>3. At(ino2, dev2, -3 - a) = dev2[ino2.indirect2][-3 - (-3 - a)]
    BY <2>1, AtTable, Zenon
  <2> QED BY <1>3, <1>5, <2>1, <2>2, <2>3, AtIndex, Zenon
<1>8. ASSUME NEW b, HasTable(k, b)
      PROVE  /\ k # D + N /\ c = ino.indirect2 /\ b \in Entries /\ -3 - b \in Slots(k)
             /\ At(ino, dev, -3 - b) = dev[c][b] /\ dev2[c][b] = dev[c][b]
  <2>1. b \in Nat /\ -3 - b \in Int /\ -3 - b < -2 /\ -3 - (-3 - b) = b
    BY <1>8 DEF HasTable
  <2>2. k # D + N /\ k <= D + N + N * N
    BY <1>1, <1>8, NoTables
  <2>3. b \in Entries
    BY <1>8, <2>2, TableInIndex, Zenon
  <2>4. -3 - b \in Slots(k)
    BY <1>8, <2>1, SlotFacts
  <2>5. At(ino, dev, -3 - b) = dev[c][b]
    <3>1. At(ino, dev, -3 - b) = dev[ino.indirect2][-3 - (-3 - b)]
      BY <2>1, AtTable, Zenon
    <3> QED BY <2>1, <2>2, <3>1
  <2>6. b = a => e # 0
    BY <1>8, TablesGrow DEF a, e
  <2>7. dev2[c][b] = dev[c][b]
    BY <1>5, <2>3, <2>6, Zenon DEF a, e
  <2> QED BY <2>2, <2>3, <2>4, <2>5, <2>7
<1>9. e # 0 => HasTable(k, a) /\ t = At(ino, dev, -3 - a)
  <2>1. e # 0 => HasTable(k, a)
    BY TablesGrow DEF a, e
  <2> QED BY <1>8, <2>1 DEF a, e
<1>10. e = 0 => \A s \in Slots(k) : At(ino, dev, s) # t
  BY Zenon DEF e, Blocks
<1>11. -1 \in Slots(k) /\ At(ino, dev, -1) = ino.indirect1 /\ -2 < -1 /\ -3 - a # -1
  <2>1. -1 \in Slots(k)
    BY <1>1, SlotFacts
  <2> QED BY <1>2, <2>1, AtIndex
<1>12. ASSUME NEW s \in Slots(k), s # -2 PROVE At(ino, dev, s) # c
  <2>1. CASE k = D + N
    <3>1. c \notin Blocks(ino, dev, k)
      BY <2>1
    <3> QED BY <3>1, Zenon DEF Blocks
  <2>2. CASE k # D + N
    <3>1. -2 \in Slots(k) /\ At(ino, dev, -2) = c
      BY <1>1, <2>2, SlotFacts, AtIndex, SMTT(30)
    <3> QED BY <1>12, <3>1, Zenon DEF Distinct
  <2> QED BY <2>1, <2>2
<1>13. ASSUME NEW s \in Slots(k), s # -3 - a PROVE At(ino, dev, s) # t
  <2>1. CASE e = 0
    BY <1>10, <2>1
  <2>2. CASE e # 0
    <3>1. -3 - a \in Slots(k) /\ t = At(ino, dev, -3 - a)
      BY <1>8, <1>9, <2>2
    <3> QED BY <1>13, <3>1, Zenon DEF Distinct
  <2> QED BY <2>1, <2>2
<1>14. ASSUME NEW s \in Slots(k) PROVE At(ino2, dev2, s) = At(ino, dev, s)
  <2>1. s \in Int
    BY SlotFacts
  <2> USE <2>1
  <2>2. CASE 0 <= s /\ s < D
    <3>1. At(ino2, dev2, s) = ino2.direct[s] /\ At(ino, dev, s) = ino.direct[s]
      BY <2>2, AtDirect, Zenon
    <3> QED BY <3>1
  <2>3. CASE D <= s /\ s < D + N
    <3>1. /\ At(ino2, dev2, s) = dev2[ino2.indirect1][s - D]
          /\ At(ino, dev, s) = dev[ino.indirect1][s - D]
      BY <2>3, AtIndirect1, Zenon
    <3>2. ino.indirect1 # c /\ ino.indirect1 # t /\ ino.indirect1 \in BlockIds
      BY <1>11, <1>12, <1>13 DEF InodeType
    <3> QED BY <1>3, <1>5, <3>1, <3>2, Zenon
  <2>4. CASE D + N <= s
    <3> DEFINE b == Tab(s)
               f == Ent(s)
               r == dev[c][b]
    <3>1. s \in Nat /\ s < k /\ s # k
      <4>1. s \in Nat /\ s # -1 /\ s # -2 /\ ~(s < -2)
        BY <1>1, <2>4
      <4>2. s < k
        BY <4>1, SlotFacts, Zenon
      <4> QED BY <4>1, <4>2
    <3>2. HasTable(k, b) /\ ~(b = a /\ f = e) /\ f \in Entries
      BY <1>1, <2>4, <3>1, EntriesOfFile, EntryOf DEF a, e
    <3>3. /\ c = ino.indirect2 /\ b \in Entries /\ -3 - b \in Slots(k)
          /\ At(ino, dev, -3 - b) = r /\ dev2[c][b] = r
      BY <1>8, <3>2, Zenon
    <3>4. At(ino2, dev2, s) = dev2[dev2[ino2.indirect2][b]][f]
      BY <2>4, AtIndirect2, Zenon
    <3>5. At(ino, dev, s) = dev[dev[ino.indirect2][b]][f]
      BY <2>4, AtIndirect2, Zenon
    <3>6. b \in Nat /\ -3 - b # -2 /\ (-3 - b = -3 - a => b = a)
      BY <1>2, <3>2 DEF HasTable
    <3> HIDE DEF b, f, r
    <3>7. r # c /\ (b # a => r # t)
      BY <1>12, <1>13, <3>3, <3>6
    <3>8. r \in BlockIds
      BY <3>3 DEF r, IndexType
    <3>9. dev2[r][f] = dev[r][f]
      BY <1>5, <3>2, <3>7, <3>8, Zenon
    <3> QED BY <3>3, <3>4, <3>5, <3>9 DEF r
  <2>5. CASE s = -1
    BY <1>3, <2>5, AtIndex, Zenon
  <2>6. CASE s = -2
    <3>1. k # D + N
      <4>1. D + N < k
        BY <2>6, SlotFacts
      <4> QED BY <4>1
    <3> QED BY <1>3, <2>6, <3>1, AtIndex, Zenon
  <2>7. CASE s < -2
    <3>1. HasTable(k, -3 - s) /\ -3 - (-3 - s) = s
      BY <2>7, SlotFacts
    <3>2. c = ino.indirect2 /\ dev2[c][-3 - s] = dev[c][-3 - s]
      BY <1>8, <3>1, Zenon
    <3>3. /\ At(ino2, dev2, s) = dev2[ino2.indirect2][-3 - s]
          /\ At(ino, dev, s) = dev[ino.indirect2][-3 - s]
      BY <2>7, AtTable, Zenon
    <3> QED BY <3>2, <3>3
  <2>8. 0 <= s \/ s = -1 \/ s = -2 \/ s < -2
    OBVIOUS
  <2>9. 0 <= s => s < D \/ (D <= s /\ s < D + N) \/ D + N <= s
    BY <1>1
  <2> QED BY <2>2, <2>3, <2>4, <2>5, <2>6, <2>7, <2>8, <2>9
<1> DEFINE X == {x} \cup (IF k = D + N THEN {c} ELSE {}) \cup (IF e = 0 THEN {t} ELSE {})
           New == Slots(k + 1) \ Slots(k)
<1>15. /\ \A s \in New : At(ino2, dev2, s) \in X
       /\ \A s, r \in New : At(ino2, dev2, s) = At(ino2, dev2, r) => s = r
       /\ \A y \in X : \E s \in New : At(ino2, dev2, s) = y
  <2>1. \A s : s \in New <=> s = k \/ (s = -2 /\ k = D + N) \/ (s = -3 - a /\ e = 0)
    BY <1>6
  <2>2. \A y : y \in X <=> y = x \/ (y = c /\ k = D + N) \/ (y = t /\ e = 0)
    OBVIOUS
  <2> HIDE DEF X, New
  <2>3. \A s \in New : At(ino2, dev2, s) \in X
    BY <1>7, <2>1, <2>2
  <2>4. \A y \in X : \E s \in New : At(ino2, dev2, s) = y
    BY <1>7, <2>1, <2>2, Zenon
  <2>5. \A s, r \in New : At(ino2, dev2, s) = At(ino2, dev2, r) => s = r
    BY <1>7, <2>1
  <2> QED BY <2>3, <2>4, <2>5, Zenon
<1>16. -2 \in Slots(k + 1) /\ -3 - a \in Slots(k + 1)
  <2>1. -2 \in Slots(k + 1)
    BY <1>1, SlotFacts
  <2>2. HasTable(k + 1, a)
    BY <1>2, TablesUpto DEF a
  <2>3. -3 - a \in Int /\ -3 - a < -2 /\ -3 - (-3 - a) = a
    BY <1>2
  <2> QED BY <2>1, <2>2, <2>3, SlotFacts
<1>17. \A b \in BlockIds : b \notin Blocks(ino2, dev2, k + 1) => dev2[b] = dev[b]
  <2>1. c \in Blocks(ino2, dev2, k + 1) /\ t \in Blocks(ino2, dev2, k + 1)
    BY <1>7, <1>16, Zenon DEF Blocks
  <2> QED BY <1>5, <2>1, Zenon
<1> HIDE DEF X
<1>18. Grown(ino, dev, k, ino2, dev2, k + 1, X)
  BY <1>6, <1>14, <1>15, <1>17, Zenon DEF Grown
<1> QED BY <1>3, <1>5, <1>18 DEF X, e

-----------------------------------------------------------------------------
(* increase_size fills the places of a file.                               *)

StateType == [ino : InodeType, index : IndexType, used : Nat]

\* The blocks of the list new after the first u of them, up to number v.
Part(new, u, v) == {new[j] : j \in (u + 1)..v}

\* st2 comes from st by one more data block, with blocks of the list new.
OneBlock(new, st, k, st2) ==
    /\ st2 \in StateType /\ st2.used = st.used + Need(k) /\ st2.ino.size = st.ino.size
    /\ Grown(st.ino, st.index, k, st2.ino, st2.index, k + 1, Part(new, st.used, st.used + Need(k)))

\* One more data block, with blocks that the file does not have.
LEMMA FillOne ==
    ASSUME NEW new \in Seq(BlockIds), IsInjective(new), NEW st \in StateType,
           NEW k \in Nat, k < D + N + N * N, Distinct(st.ino, st.index, k),
           st.used + Need(k) <= Len(new),
           Part(new, st.used, st.used + Need(k)) \cap Blocks(st.ino, st.index, k) = {}
    PROVE  OneBlock(new, st, k, Fill(new, st, k))
<1> DEFINE w == st.used
           X == Part(new, w, w + Need(k))
           st2 == Fill(new, st, k)
<1>1. /\ D \in Nat /\ N \in Nat \ {0} /\ w \in Nat /\ Need(k) \in Nat
      /\ st.ino \in InodeType /\ st.index \in IndexType
  BY IndexSizes, TotalStep DEF StateType
<1> USE <1>1
<1>4. \A i, j \in DOMAIN new : new[i] = new[j] => i = j
  BY DEF IsInjective
<1>5. \A j \in (w + 1)..(w + Need(k)) : new[j] \in X /\ new[j] \notin Blocks(st.ino, st.index, k)
  <2>1. \A j \in (w + 1)..(w + Need(k)) : new[j] \in X
    BY Zenon DEF Part
  <2> QED BY <2>1, Zenon
<1>6. \A y : y \in X <=> \E j \in (w + 1)..(w + Need(k)) : y = new[j]
  BY Zenon DEF Part
<1> HIDE DEF w, X, st2
<1>7. SUFFICES /\ st2 \in StateType /\ st2.used = w + Need(k) /\ st2.ino.size = st.ino.size
               /\ Grown(st.ino, st.index, k, st2.ino, st2.index, k + 1, X)
  BY Zenon DEF OneBlock, w, X, st2
<1>8. CASE k < D
  <2>1. Need(k) = 1
    BY <1>8 DEF Need
  <2>2. w + 1 \in DOMAIN new /\ w + 1 \in (w + 1)..(w + Need(k)) /\ new[w + 1] \in BlockIds
    BY <2>1 DEF w
  <2> DEFINE ino2 == [st.ino EXCEPT !.direct[k] = new[w + 1]]
  <2>3. st2 = [ino |-> ino2, index |-> st.index, used |-> w + 1]
    <3>1. INODE_DIRECT_COUNT = D /\ ~(D <= k)
      BY <1>8, IndexSizes
    <3> QED BY <1>8, <2>2, <3>1, Zenon DEF Fill, w, st2
  <2>4. /\ ino2 \in InodeType /\ ino2.size = st.ino.size
        /\ Grown(st.ino, st.index, k, ino2, st.index, k + 1, {new[w + 1]})
    BY <1>8, <2>2, GrowDirect, Zenon
  <2>5. X = {new[w + 1]}
    <3>2. \A y : y \in X <=> y = new[w + 1]
      BY <1>6, <2>1
    <3> QED BY <3>2
  <2> HIDE DEF ino2
  <2> QED BY <2>1, <2>3, <2>4, <2>5 DEF StateType

<1>9. CASE D <= k /\ k < D + N
  <2> DEFINE u == IF k = D THEN w + 1 ELSE w
             b == IF k = D THEN new[u] ELSE st.ino.indirect1
             x == new[u + 1]
             ino2 == [st.ino EXCEPT !.indirect1 = b]
             dev2 == [st.index EXCEPT ![b][k - D] = x]
  <2>1. /\ u = IF k = D THEN w + 1 ELSE w
        /\ b = IF k = D THEN new[u] ELSE st.ino.indirect1
    OBVIOUS
  <2>2. u + 1 \in DOMAIN new /\ (k = D => u \in DOMAIN new) =>
            st2 = [ino |-> ino2, index |-> dev2, used |-> u + 1]
    <3>1. ~(k < D) /\ INODE_DIRECT_COUNT = D /\ INDIRECT1_BOUND = D + N
      BY <1>9, IndexSizes
    <3>2. CASE k = D
      BY <1>9, <3>1, <3>2 DEF Fill, w, st2
    <3>3. CASE k # D
      BY <1>9, <3>1, <3>3 DEF Fill, w, st2
    <3> QED BY <3>2, <3>3
  <2> HIDE DEF u, b
  <2>3. Need(k) = (IF k = D THEN 2 ELSE 1) /\ u + 1 = w + Need(k)
    BY <1>9, <2>1 DEF Need
  <2>4. u \in Nat /\ u + 1 \in DOMAIN new /\ u + 1 # u /\ (k = D => u \in DOMAIN new /\ u = w + 1)
    BY <2>1, <2>3 DEF w
  <2> USE <2>4
  <2>5. b \in BlockIds /\ x \in BlockIds /\ (k = D => b # x)
    BY <1>4, <2>1 DEF InodeType
  <2>6. X = IF k = D THEN {b, x} ELSE {x}
    <3>1. CASE k = D
      <4>1. \A j : j \in (w + 1)..(w + Need(k)) <=> j = u \/ j = u + 1
        BY <2>3, <3>1
      <4>2. b = new[u]
        BY <2>1, <3>1
      <4>3. \A y : y \in X <=> y = b \/ y = x
        <5>1. \A y : y \in X <=> \E j : (j = u \/ j = u + 1) /\ y = new[j]
          BY <1>6, <4>1, Zenon
        <5> QED BY <4>2, <5>1
      <4> QED BY <3>1, <4>3
    <3>2. CASE k # D
      <4>1. \A j : j \in (w + 1)..(w + Need(k)) <=> j = u + 1
        BY <2>3, <3>2
      <4>2. \A y : y \in X <=> y = x
        BY <1>6, <4>1, Zenon
      <4> QED BY <3>2, <4>2
    <3> QED BY <3>1, <3>2
  <2>7. IF k = D THEN b # x ELSE b = st.ino.indirect1
    BY <2>1, <2>5
  <2> HIDE DEF x
  <2>8. /\ ino2 \in InodeType /\ dev2 \in IndexType /\ ino2.size = st.ino.size
        /\ Grown(st.ino, st.index, k, ino2, dev2, k + 1, IF k = D THEN {b, x} ELSE {x})
    BY <1>9, <2>5, <2>7, GrowIndirect1, Zenon
  <2> HIDE DEF ino2, dev2
  <2> QED BY <2>2, <2>3, <2>6, <2>8 DEF StateType

<1>10. CASE D + N <= k
  <2> DEFINE u == IF k = D + N THEN w + 1 ELSE w
             c == IF k = D + N THEN new[u] ELSE st.ino.indirect2
             v == IF Ent(k) = 0 THEN u + 1 ELSE u
             t == IF Ent(k) = 0 THEN new[v] ELSE st.index[c][Tab(k)]
             x == new[v + 1]
             ino2 == [st.ino EXCEPT !.indirect2 = c]
             dev2 == [st.index EXCEPT ![c][Tab(k)] = t, ![t][Ent(k)] = x]
             B == Blocks(st.ino, st.index, k)
             Y == {x} \cup (IF k = D + N THEN {c} ELSE {}) \cup (IF Ent(k) = 0 THEN {t} ELSE {})
  <2>1. /\ u = IF k = D + N THEN w + 1 ELSE w
        /\ c = IF k = D + N THEN new[u] ELSE st.ino.indirect2
        /\ v = IF Ent(k) = 0 THEN u + 1 ELSE u
        /\ t = IF Ent(k) = 0 THEN new[v] ELSE st.index[c][Tab(k)]
    OBVIOUS
  <2>2. v + 1 \in DOMAIN new /\ (k = D + N => u \in DOMAIN new) /\ (Ent(k) = 0 => v \in DOMAIN new)
           => st2 = [ino |-> ino2, index |-> dev2, used |-> v + 1]
    <3>1. /\ ~(k < D) /\ ~(k < D + N) /\ INODE_DIRECT_COUNT = D /\ INDIRECT1_BOUND = D + N
          /\ k - INDIRECT1_BOUND = 0 <=> k = D + N
      BY <1>10, IndexSizes
    <3> USE <3>1
    <3>2. /\ (k - INDIRECT1_BOUND) \div INODE_INDIRECT1_COUNT = Tab(k)
          /\ (k - INDIRECT1_BOUND) % INODE_INDIRECT1_COUNT = Ent(k)
      BY DEF Tab, Ent
    <3> USE <3>2
    <3>3. CASE k = D + N /\ Ent(k) = 0
      BY Zenon DEF Fill, w, st2
    <3>4. CASE k = D + N /\ Ent(k) # 0
      BY Zenon DEF Fill, w, st2
    <3>5. CASE k # D + N /\ Ent(k) = 0
      BY Zenon DEF Fill, w, st2
    <3>6. CASE k # D + N /\ Ent(k) # 0
      BY Zenon DEF Fill, w, st2
    <3> QED BY <3>3, <3>4, <3>5, <3>6, Zenon
  <2> HIDE DEF u, c, v, t
  <2>3. /\ Tab(k) \in Nat /\ Tab(k) \in Entries /\ Ent(k) \in Nat
        /\ HasTable(k, Tab(k)) <=> Ent(k) # 0
    <3>1. Tab(k) \in Nat /\ Ent(k) \in Nat
      BY <1>10, EntryOf
    <3>2. HasTable(k + 1, Tab(k)) /\ k + 1 \in Nat /\ k + 1 <= D + N + N * N
      BY <1>10, <3>1, TablesUpto
    <3>3. Tab(k) \in Entries
      BY <3>2, TableInIndex, Zenon
    <3> QED BY <1>10, <3>1, <3>3, TablesGrow
  <2>4. /\ Need(k) = 1 + (IF k = D + N THEN 1 ELSE 0) + (IF Ent(k) = 0 THEN 1 ELSE 0)
        /\ v + 1 = w + Need(k)
    BY <1>10, <2>1 DEF Need
  <2>5. /\ u \in Nat /\ v \in Nat /\ v + 1 \in DOMAIN new /\ v + 1 \in (w + 1)..(w + Need(k))
        /\ k = D + N => u = w + 1 /\ u \in DOMAIN new /\ u \in (w + 1)..(w + Need(k)) /\ u # v + 1
        /\ Ent(k) = 0 => v = u + 1 /\ v \in DOMAIN new /\ v \in (w + 1)..(w + Need(k)) /\ v # v + 1
    <3>1. u \in Nat /\ v \in Nat /\ w + 1 <= v + 1
      <4>1. (u = w \/ u = w + 1) /\ (v = u \/ v = u + 1)
        BY <2>1, Zenon
      <4> QED BY <4>1
    <3> USE <3>1
    <3>2. \A j \in (w + 1)..(w + Need(k)) : j \in DOMAIN new
      BY DEF w
    <3>3. v + 1 \in (w + 1)..(w + Need(k))
      BY <2>4
    <3>4. k = D + N => u = w + 1 /\ u \in (w + 1)..(w + Need(k)) /\ u # v + 1
      BY <2>1, <2>4
    <3>5. Ent(k) = 0 => v = u + 1 /\ v \in (w + 1)..(w + Need(k)) /\ v # v + 1
      BY <2>1, <2>4
    <3> QED BY <3>2, <3>3, <3>4, <3>5
  <2> USE <2>5
  <2>6. k = D + N => Ent(k) = 0 /\ u # v
    <3>1. k = D + N => ~HasTable(k, Tab(k))
      BY NoTables
    <3> QED BY <2>3, <3>1
  <2>7. /\ k # D + N => -2 \in Slots(k) /\ At(st.ino, st.index, -2) = c
        /\ Ent(k) # 0 => /\ k # D + N /\ -3 - Tab(k) \in Slots(k) /\ -3 - Tab(k) # -2
                         /\ At(st.ino, st.index, -3 - Tab(k)) = t
    <3>1. k # D + N => -2 \in Slots(k) /\ At(st.ino, st.index, -2) = c
      <4>1. k # D + N => D + N < k
        BY <1>10
      <4>2. -2 \in Int
        OBVIOUS
      <4>3. k # D + N => -2 \in Slots(k)
        BY <4>1, <4>2, SlotFacts, Zenon
      <4>4. At(st.ino, st.index, -2) = st.ino.indirect2
        BY AtIndex, Zenon
      <4> QED BY <2>1, <4>3, <4>4, Zenon
    <3>2. -3 - Tab(k) \in Int /\ -3 - Tab(k) < -2 /\ -3 - (-3 - Tab(k)) = Tab(k)
      BY <2>3
    <3>3. Ent(k) # 0 => -3 - Tab(k) \in Slots(k)
      BY <2>3, <3>2, SlotFacts
    <3>4. At(st.ino, st.index, -3 - Tab(k)) = st.index[st.ino.indirect2][Tab(k)]
      BY <3>2, AtTable
    <3>5. -3 - Tab(k) # -2
      BY <3>2
    <3>6. Ent(k) # 0 => k # D + N
      BY <2>6, Zenon
    <3> QED BY <2>1, <3>1, <3>3, <3>4, <3>5, <3>6, Zenon
  <2>8. /\ c \in BlockIds /\ t \in BlockIds /\ x \in BlockIds
    <3>1. c \in BlockIds /\ x \in BlockIds
      BY <2>1 DEF InodeType
    <3>2. \A b \in BlockIds, e \in Entries : st.index[b][e] \in BlockIds
      BY <2>1, Zenon DEF IndexType
    <3> HIDE DEF x
    <3> QED BY <2>1, <2>3, <3>1 DEF IndexType
  <2>9. /\ k # D + N => c \in B
        /\ k = D + N => c \notin B
        /\ Ent(k) # 0 => t \in B
        /\ Ent(k) = 0 => t \notin B
        /\ x \notin B
    <3>1. k # D + N => c \in B
      BY <2>7, Zenon DEF Blocks
    <3>2. Ent(k) # 0 => t \in B
      BY <2>7, Zenon DEF Blocks
    <3> QED BY <1>5, <2>1, <3>1, <3>2, Zenon
  <2>10. c # x /\ t # x
    BY <1>4, <2>1, <2>9, Zenon
  <2>11. c # t
    <3>1. CASE k = D + N
      BY <1>4, <2>1, <2>6, <3>1
    <3>2. CASE k # D + N /\ Ent(k) = 0
      BY <2>9, <3>2
    <3>3. CASE k # D + N /\ Ent(k) # 0
      <4>1. /\ -2 \in Slots(k) /\ At(st.ino, st.index, -2) = c /\ -3 - Tab(k) \in Slots(k)
            /\ At(st.ino, st.index, -3 - Tab(k)) = t /\ -3 - Tab(k) # -2
        BY <2>7, <3>3, Zenon
      <4> QED BY <4>1, Zenon DEF Distinct
    <3> QED BY <3>1, <3>2, <3>3
  <2>12. X = Y
    <3>1. \A j : j \in (w + 1)..(w + Need(k)) <=>
                    j = v + 1 \/ (k = D + N /\ j = u) \/ (Ent(k) = 0 /\ j = v)
      BY <2>4
    <3>2. \A y : y \in X <=> y = x \/ (k = D + N /\ y = c) \/ (Ent(k) = 0 /\ y = t)
      BY <1>6, <2>1, <3>1, Zenon
    <3>3. \A y : y \in Y <=> y = x \/ (k = D + N /\ y = c) \/ (Ent(k) = 0 /\ y = t)
      OBVIOUS
    <3> HIDE DEF Y, x
    <3> QED BY <3>2, <3>3, Zenon
  <2>13. /\ IF k = D + N THEN c \notin B ELSE c = st.ino.indirect2
         /\ IF Ent(k) = 0 THEN t \notin B ELSE t = st.index[c][Tab(k)]
    BY <2>1, <2>9
  <2> HIDE DEF x
  <2>14. /\ ino2 \in InodeType /\ dev2 \in IndexType /\ ino2.size = st.ino.size
         /\ Grown(st.ino, st.index, k, ino2, dev2, k + 1, Y)
    BY <1>10, <2>8, <2>10, <2>11, <2>13, GrowIndirect2, Zenon
  <2> HIDE DEF ino2, dev2, Y
  <2> QED BY <2>2, <2>4, <2>12, <2>14 DEF StateType
<1> QED BY <1>8, <1>9, <1>10

\* Writing an entry, there or not, keeps the index blocks index blocks.
LEMMA PutType ==
    ASSUME NEW dev \in IndexType, NEW b, NEW f, NEW x,
           b \in BlockIds /\ f \in Entries => x \in BlockIds
    PROVE  [dev EXCEPT ![b][f] = x] \in IndexType
<1>1. CASE b \in BlockIds
  <2> QED BY Zenon DEF IndexType
<1>2. CASE b \notin BlockIds
  BY Zenon DEF IndexType
<1> QED BY <1>1, <1>2

\* Fill keeps the types.
LEMMA FillType ==
    ASSUME NEW new \in Seq(BlockIds), NEW st \in StateType, NEW k \in Nat
    PROVE  Fill(new, st, k) \in StateType
<1> DEFINE Nth(n) == IF n \in DOMAIN new THEN new[n] ELSE 0
           a == Tab(k)
           b == Ent(k)
           u1 == IF k = D THEN st.used + 1 ELSE st.used
           ind1 == IF k = D THEN Nth(u1) ELSE st.ino.indirect1
           u2 == IF k - INDIRECT1_BOUND = 0 THEN st.used + 1 ELSE st.used
           ind2 == IF k - INDIRECT1_BOUND = 0 THEN Nth(u2) ELSE st.ino.indirect2
           u3 == IF b = 0 THEN u2 + 1 ELSE u2
           sub == IF b = 0 THEN Nth(u3) ELSE st.index[ind2][a]
           one == [ino |-> [st.ino EXCEPT !.direct[k] = Nth(st.used + 1)],
                   index |-> st.index, used |-> st.used + 1]
           two == [ino |-> [st.ino EXCEPT !.indirect1 = ind1],
                   index |-> [st.index EXCEPT ![ind1][k - D] = Nth(u1 + 1)], used |-> u1 + 1]
           three == [ino |-> [st.ino EXCEPT !.indirect2 = ind2],
                     index |-> [st.index EXCEPT ![ind2][a] = sub, ![sub][b] = Nth(u3 + 1)],
                     used |-> u3 + 1]
<1>1. /\ D \in Nat /\ N \in Nat \ {0} /\ INODE_DIRECT_COUNT = D /\ INDIRECT1_BOUND = D + N
      /\ st.ino \in InodeType /\ st.index \in IndexType /\ st.used \in Nat
  BY IndexSizes DEF StateType
<1> USE <1>1
<1>2. \A n : Nth(n) \in BlockIds
  BY DiskSizes
<1> USE <1>2
<1>3. Fill(new, st, k) = CASE k < D -> one [] D <= k /\ k < D + N -> two [] OTHER -> three
  BY Zenon DEF Fill, Tab, Ent
<1> HIDE DEF Nth, a, b
<1>4. one \in StateType
  <2>1. [st.ino EXCEPT !.direct[k] = Nth(st.used + 1)] \in InodeType
    BY Zenon DEF InodeType
  <2> QED BY <2>1 DEF StateType
<1>5. two \in StateType
  <2>1. u1 \in Nat /\ ind1 \in BlockIds
    BY DEF InodeType
  <2> HIDE DEF u1, ind1
  <2>2. [st.ino EXCEPT !.indirect1 = ind1] \in InodeType
    BY <2>1, Zenon DEF InodeType
  <2>3. [st.index EXCEPT ![ind1][k - D] = Nth(u1 + 1)] \in IndexType
    BY PutType, Zenon
  <2> QED BY <2>1, <2>2, <2>3 DEF StateType
<1>6. three \in StateType
  <2>1. u2 \in Nat /\ ind2 \in BlockIds
    BY DEF InodeType
  <2> HIDE DEF u2, ind2
  <2>2. u3 \in Nat /\ (a \in Entries => sub \in BlockIds)
    BY <2>1 DEF IndexType
  <2> HIDE DEF u3, sub
  <2>3. [st.ino EXCEPT !.indirect2 = ind2] \in InodeType
    BY <2>1, Zenon DEF InodeType
  <2> DEFINE dev1 == [st.index EXCEPT ![ind2][a] = sub]
  <2>4. dev1 \in IndexType
    BY <2>2, PutType, Zenon
  <2>5. [dev1 EXCEPT ![sub][b] = Nth(u3 + 1)] \in IndexType
    <3> HIDE DEF dev1
    <3> QED BY <2>4, PutType, Zenon
  <2> QED BY <2>2, <2>3, <2>5 DEF StateType
<1> HIDE DEF one, two, three
<1> QED BY <1>3, <1>4, <1>5, <1>6

\* How many data blocks a size takes.
LEMMA DataBlocks ==
    ASSUME NEW size \in Nat
    PROVE  /\ _data_blocks(size) \in Nat
           /\ size <= _data_blocks(size) * BLOCK_SZ
           /\ _data_blocks(size) # 0 => (_data_blocks(size) - 1) * BLOCK_SZ < size
<1> DEFINE B == BLOCK_SZ
           n == _data_blocks(size)
           m == (size + B - 1) % B
<1>1. B \in Nat \ {0} /\ size + B - 1 \in Nat
  BY BlockAssumption
<1>2. n \in Nat /\ m \in 0..(B - 1) /\ size + B - 1 = n * B + m
  <2>1. n = (size + B - 1) \div B
    BY DEF _data_blocks
  <2> HIDE DEF B, n
  <2> QED BY <1>1, <2>1, DivModBounds, Zenon
<1> HIDE DEF B, n, m
<1>4. size <= n * B /\ (n - 1) * B < size
  BY <1>1, <1>2
<1> QED BY <1>2, <1>4 DEF n, B

\* A larger size takes no fewer data blocks, and an empty file has none.
LEMMA DataBlocksMono ==
    /\ _data_blocks(0) = 0
    /\ \A s, t \in Nat : s <= t => _data_blocks(s) <= _data_blocks(t)
<1> DEFINE B == BLOCK_SZ
<1>1. B \in Nat \ {0}
  BY BlockAssumption
<1>2. ASSUME NEW s \in Nat, NEW t \in Nat, s <= t PROVE _data_blocks(s) <= _data_blocks(t)
  <2> DEFINE n == _data_blocks(s)
             m == _data_blocks(t)
  <2>1. n \in Nat /\ m \in Nat /\ t <= m * B /\ (n # 0 => (n - 1) * B < s)
    BY DataBlocks
  <2> USE <2>1
  <2> HIDE DEF n, m, B
  <2>2. SUFFICES ASSUME m < n PROVE FALSE
    BY DEF n, m
  <2>3. n - 1 \in Nat /\ m <= n - 1 /\ n # 0
    BY <2>2
  <2>4. m * B <= (n - 1) * B /\ m * B \in Nat /\ (n - 1) * B \in Nat
    BY <1>1, <2>3
  <2> QED BY <1>2, <2>3, <2>4
<1>3. _data_blocks(0) = 0
  <2> DEFINE n == _data_blocks(0)
  <2>1. n \in Nat /\ (n # 0 => (n - 1) * B < 0)
    BY DataBlocks
  <2> HIDE DEF n, B
  <2>2. n # 0 => n - 1 \in Nat /\ (n - 1) * B \in Nat
    BY <1>1, <2>1
  <2>3. n = 0
    BY <2>1, <2>2
  <2> QED BY <2>3 DEF n
<1> QED BY <1>2, <1>3

\* The state in which the loop of increase_size starts.
Start(ino, size) == [ino |-> [ino EXCEPT !.size = size], index |-> index, used |-> 0]

\* f is the sequence of states of the loop.
Loop(f, ino, size, new) ==
    \A k \in Nat : f[k] = IF k <= _data_blocks(ino.size) THEN Start(ino, size)
                          ELSE Fill(new, f[k - 1], k - 1)

\* increase_size ends where its loop does.
LEMMA IncreasedIsLoop ==
    ASSUME index \in IndexType, NEW ino \in InodeType, NEW size \in Nat, NEW new \in Seq(BlockIds)
    PROVE  \E f : Loop(f, ino, size, new) /\ Increased(ino, size, new) = f[_data_blocks(size)]
<1> DEFINE from == _data_blocks(ino.size)
           v == Start(ino, size)
           h == [n \in Nat |-> [st \in StateType |->
                    IF n + 1 <= from THEN v ELSE Fill(new, st, n)]]
           Eq(g) == [k \in Nat |-> IF k <= from THEN v ELSE Fill(new, g[k - 1], k - 1)]
           filled == CHOOSE f : f = Eq(f)
<1>1. v \in StateType
  BY DEF Start, StateType, InodeType
<1>2. from \in Nat
  BY DataBlocks DEF InodeType
<1> HIDE DEF from, v
<1>3. /\ h \in [Nat -> [StateType -> StateType]]
      /\ \A n \in Nat, st \in StateType : h[n][st] = IF n + 1 <= from THEN v ELSE Fill(new, st, n)
  BY <1>1, FillType
<1> HIDE DEF h
<1>4. PICK g \in [Nat -> StateType] : Iterates(g, v, h)
  BY <1>1, <1>3, Iteration, Zenon
<1>5. g[0] = v /\ \A n \in Nat : g[n + 1] = IF n + 1 <= from THEN v ELSE Fill(new, g[n], n)
  <2>2. g[0] = v /\ \A n \in Nat : g[n + 1] = h[n][g[n]]
    BY <1>4, Zenon DEF Iterates
  <2> DEFINE step(n) == IF n + 1 <= from THEN v ELSE Fill(new, g[n], n)
  <2>3. \A n \in Nat : h[n][g[n]] = step(n)
    BY <1>3
  <2> HIDE DEF step
  <2>4. \A n \in Nat : g[n + 1] = step(n)
    BY <2>2, <2>3, Zenon
  <2> QED BY <2>2, <2>4, Zenon DEF step
<1>6. g = Eq(g)
  <2>1. \A n \in Nat : n # 0 => n - 1 \in Nat /\ (n - 1) + 1 = n
    OBVIOUS
  <2>2. 0 <= from
    BY <1>2
  <2>3. \A n \in Nat : g[n] = IF n <= from THEN v ELSE Fill(new, g[n - 1], n - 1)
    BY <1>5, <2>1, <2>2, Zenon
  <2> QED BY <2>3, Zenon
<1>7. filled = Eq(filled)
  <2> HIDE DEF Eq
  <2> QED BY <1>6, Zenon
<1>8. Increased(ino, size, new) = filled[_data_blocks(size)]
  BY Zenon DEF Increased, Start, v, from
<1> HIDE DEF filled
<1>9. \A k \in Nat : filled[k] = IF k <= from THEN v ELSE Fill(new, filled[k - 1], k - 1)
  BY <1>7, Zenon
<1> QED BY <1>8, <1>9, Zenon DEF Loop, from, v

\* Parts of a list of blocks.
LEMMA PartFacts ==
    ASSUME NEW new \in Seq(BlockIds), IsInjective(new),
           NEW u \in Nat, NEW v \in Nat, u <= v, v <= Len(new)
    PROVE  /\ Part(new, 0, u) \cup Part(new, u, v) = Part(new, 0, v)
           /\ Part(new, 0, u) \cap Part(new, u, v) = {}
           /\ Part(new, u, v) \subseteq Range(new) /\ Part(new, 0, u) \subseteq Range(new)
           /\ v = Len(new) => Part(new, 0, v) = Range(new)
<1>1. DOMAIN new = 1..Len(new) /\ Len(new) \in Nat
  OBVIOUS
<1> USE <1>1
<1>2. \A i, j \in 1..Len(new) : new[i] = new[j] => i = j
  BY DEF IsInjective
<1>3. /\ \A j : j \in (0 + 1)..v <=> j \in (0 + 1)..u \/ j \in (u + 1)..v
      /\ \A j : j \in (0 + 1)..v => j \in 1..Len(new)
      /\ \A j : ~(j \in (0 + 1)..u /\ j \in (u + 1)..v)
      /\ (0 + 1)..v = 1..v
  OBVIOUS
<1> USE <1>3
<1>4. Part(new, 0, u) \cup Part(new, u, v) = Part(new, 0, v)
  BY Zenon DEF Part
<1>5. Part(new, 0, v) \subseteq Range(new)
  BY Zenon DEF Part, Range
<1>6. Part(new, 0, u) \cap Part(new, u, v) = {}
  <2> SUFFICES ASSUME NEW i \in (0 + 1)..u, NEW j \in (u + 1)..v, new[i] = new[j] PROVE FALSE
    BY Zenon DEF Part
  <2> QED BY <1>2, Zenon
<1>7. v = Len(new) => Part(new, 0, v) = Range(new)
  BY Zenon DEF Part, Range
<1> QED BY <1>4, <1>5, <1>6, <1>7, Zenon

\* What increase_size has done: st is the file with n data blocks, after n0, and u blocks
\* of the list new.
Reached(ino, size, new, n0, st, n, u) ==
    /\ st \in StateType /\ st.used = u /\ st.ino.size = size
    /\ Grown(ino, index, n0, st.ino, st.index, n, Part(new, 0, u))

\* increase_size puts every block of the list new, and as many as it needs, in the file.
LEMMA IncreasedGrows ==
    ASSUME index \in IndexType, NEW ino \in InodeType, NEW size \in Nat,
           NEW new \in Seq(BlockIds), IsInjective(new),
           NEW n0, n0 = _data_blocks(ino.size), NEW n, n = _data_blocks(size),
           n0 <= n, n <= D + N + N * N, Len(new) = Total(n) - Total(n0),
           Distinct(ino, index, n0), Range(new) \cap Blocks(ino, index, n0) = {}
    PROVE  /\ Reached(ino, size, new, n0, Increased(ino, size, new), n, Len(new))
           /\ Part(new, 0, Len(new)) = Range(new)
<1>1. n0 \in Nat /\ n \in Nat
  BY DataBlocks DEF InodeType
<1>2. PICK f : Loop(f, ino, size, new) /\ Increased(ino, size, new) = f[n]
  BY IncreasedIsLoop, Zenon
<1>3. f[n0] = Start(ino, size) /\ \A k \in Nat : n0 <= k => f[k + 1] = Fill(new, f[k], k)
  <2>1. \A k \in Nat : f[k] = IF k <= n0 THEN Start(ino, size) ELSE Fill(new, f[k - 1], k - 1)
    BY <1>2, Zenon DEF Loop
  <2> QED BY <1>1, <2>1
<1> DEFINE U(k) == Total(k) - Total(n0)
           Inv(k) == Reached(ino, size, new, n0, f[k], k, U(k))
           T == {d \in Nat : n0 + d <= n => Inv(n0 + d)}
<1>4. \A k \in Nat : n0 <= k /\ k <= n => U(k) \in Nat /\ U(k) <= Len(new)
  <2> TAKE k \in Nat
  <2>1. Total(k) \in Nat /\ Total(n0) \in Nat /\ Total(n) \in Nat
    BY <1>1, TotalStep, Zenon
  <2>2. (n0 <= k => Total(n0) <= Total(k)) /\ (k <= n => Total(k) <= Total(n))
    BY <1>1, TotalMono
  <2> QED BY <2>1, <2>2
<1>5. 0 \in T
  <2>1. n0 + 0 = n0 /\ U(n0) = 0
    <3>1. Total(n0) \in Nat
      BY <1>1, TotalStep
    <3> QED BY <1>1, <3>1
  <2> DEFINE st == f[n0]
             ino2 == [ino EXCEPT !.size = size]
  <2>2. Grown(ino, index, n0, ino2, index, n0, {}) /\ ino2 \in InodeType /\ ino2.size = size
    <3>1. /\ ino2 \in InodeType /\ ino2.size = size /\ ino2.direct = ino.direct
          /\ ino2.indirect1 = ino.indirect1 /\ ino2.indirect2 = ino.indirect2
      BY DEF InodeType
    <3>2. \A s : At(ino2, index, s) = At(ino, index, s)
      <4>1. \A s : get_block_id(ino2, index, s) = get_block_id(ino, index, s)
        BY DEF get_block_id
      <4> QED BY <4>1 DEF At
    <3> QED BY <3>1, <3>2 DEF Grown
  <2>3. st = [ino |-> ino2, index |-> index, used |-> 0]
    BY <1>3 DEF Start
  <2> HIDE DEF st, ino2
  <2>4. st.ino = ino2 /\ st.index = index /\ st.used = 0 /\ st \in StateType
    BY <2>2, <2>3 DEF StateType
  <2>5. Part(new, 0, 0) = {}
    <3>1. (0 + 1)..0 = {}
      OBVIOUS
    <3> QED BY <3>1, Zenon DEF Part
  <2>6. Reached(ino, size, new, n0, st, n0, 0)
    BY <2>2, <2>4, <2>5, Zenon DEF Reached
  <2> QED BY <2>1, <2>6 DEF st
<1>6. ASSUME NEW d \in Nat, d \in T PROVE d + 1 \in T
  <2> DEFINE k == n0 + d
             st == f[k]
             st2 == f[k + 1]
             u == U(k)
             w == Part(new, 0, u)
             x == Part(new, u, u + Need(k))
  <2>1. SUFFICES ASSUME k + 1 <= n PROVE Inv(k + 1)
    BY <1>1
  <2>2. k \in Nat /\ n0 <= k /\ k <= n /\ k + 1 \in Nat /\ n0 <= k + 1 /\ k < D + N + N * N
    BY <1>1, <2>1, IndexSizes
  <2> USE <2>2
  <2>3. Inv(k)
    BY <1>6
  <2>4. Need(k) \in Nat /\ U(k + 1) = u + Need(k)
    <3>1. Total(n0) \in Nat /\ Total(k) \in Nat /\ Need(k) \in Nat /\ Total(k + 1) = Total(k) + Need(k)
      BY <1>1, TotalStep, Zenon
    <3> HIDE DEF k
    <3> QED BY <3>1
  <2>5. u \in Nat /\ u <= u + Need(k) /\ u + Need(k) \in Nat /\ u + Need(k) <= Len(new)
    <3>1. u \in Nat /\ U(k + 1) <= Len(new)
      BY <1>4, <2>1
    <3> QED BY <2>4, <3>1
  <2>6. f[k + 1] = Fill(new, st, k)
    BY <1>3
  <2> HIDE DEF U, k
  <2>7. /\ st \in StateType /\ st.used = u /\ st.ino.size = size
        /\ Grown(ino, index, n0, st.ino, st.index, k, w)
    BY <2>3 DEF Reached
  <2> USE <2>7
  <2> HIDE DEF u, st
  <2>8. /\ w \cup x = Part(new, 0, u + Need(k)) /\ w \cap x = {}
        /\ w \subseteq Range(new) /\ x \subseteq Range(new)
    BY <2>5, PartFacts, Zenon
  <2> USE <2>8
  <2>9. Distinct(st.ino, st.index, k) /\ Blocks(st.ino, st.index, k) = Blocks(ino, index, n0) \cup w
    <3> HIDE DEF w
    <3> QED BY GrownBlocks, SMTT(20)
  <2>11. OneBlock(new, st, k, st2)
    BY <2>5, <2>6, <2>9, FillOne, SMTT(20)
  <2>12. Grown(ino, index, n0, st2.ino, st2.index, k + 1, w \cup x)
    <3>1. Grown(st.ino, st.index, k, st2.ino, st2.index, k + 1, x)
      BY <2>11, Zenon DEF OneBlock
    <3> HIDE DEF w, x, st2
    <3> QED BY <3>1, GrownTwice, Zenon
  <2>13. st2 \in StateType /\ st2.used = u + Need(k) /\ st2.ino.size = size
    BY <2>11 DEF OneBlock
  <2> QED BY <2>4, <2>12, <2>13, Zenon DEF Reached
<1>7. n - n0 \in T
  <2>1. Nat \subseteq T
    <3> HIDE DEF T
    <3> QED BY <1>5, <1>6, SetInduction
  <2> QED BY <1>1, <2>1
<1>8. Inv(n) /\ U(n) = Len(new)
  <2>1. n0 + (n - n0) = n /\ n <= n
    BY <1>1
  <2> QED BY <1>7, <2>1
<1>9. Part(new, 0, Len(new)) = Range(new)
  BY PartFacts
<1> QED BY <1>2, <1>8, <1>9

\* A file whose blocks are as they were is as it was.
LEMMA FileStays ==
    ASSUME NEW ino, NEW n \in Nat, NEW dev, NEW dev2,
           \A b \in Blocks(ino, dev, n) : dev2[b] = dev[b]
    PROVE  \A s \in Slots(n) : At(ino, dev2, s) = At(ino, dev, s)
<1> SUFFICES ASSUME NEW s \in Slots(n) PROVE At(ino, dev2, s) = At(ino, dev, s)
  OBVIOUS
<1>1. D \in Nat /\ N \in Nat \ {0} /\ s \in Int
  BY IndexSizes, SlotFacts
<1> USE <1>1
<1>2. \A r \in Slots(n) : dev2[At(ino, dev, r)] = dev[At(ino, dev, r)]
  BY Zenon DEF Blocks
<1>3. CASE 0 <= s /\ s < D
  BY <1>3, AtDirect
<1>4. CASE D <= s /\ s < D + N
  <2>2. -1 \in Slots(n)
    BY <1>4, SlotFacts
  <2>3. dev2[ino.indirect1] = dev[ino.indirect1]
    <3>1. At(ino, dev, -1) = ino.indirect1
      BY AtIndex
    <3> QED BY <1>2, <2>2, <3>1
  <2>4. /\ At(ino, dev2, s) = dev2[ino.indirect1][s - D]
        /\ At(ino, dev, s) = dev[ino.indirect1][s - D]
    BY <1>4, AtIndirect1, Zenon
  <2> QED BY <2>3, <2>4
<1>5. D + N < n => dev2[ino.indirect2] = dev[ino.indirect2]
  <2>1. D + N < n => -2 \in Slots(n)
    BY SlotFacts
  <2>2. At(ino, dev, -2) = ino.indirect2
    BY AtIndex
  <2> QED BY <1>2, <2>1, <2>2
<1>6. CASE D + N <= s
  <2>1. s < n /\ s \in Nat /\ D + N < n
    <3>1. s \in Nat /\ s # -1 /\ s # -2 /\ ~(s < -2)
      BY <1>6
    <3>2. s < n
      BY <3>1, SlotFacts, Zenon
    <3> QED BY <1>6, <3>2
  <2>2. HasTable(n, Tab(s)) /\ Tab(s) \in Nat
    BY <1>6, <2>1, EntriesOfFile, EntryOf
  <2> DEFINE r == -3 - Tab(s)
  <2>3. r \in Int /\ r < -2 /\ -3 - r = Tab(s)
    BY <2>2
  <2> HIDE DEF r
  <2>4. r \in Slots(n)
    BY <2>2, <2>3, SlotFacts
  <2>5. At(ino, dev, r) = dev[ino.indirect2][Tab(s)]
    BY <2>3, AtTable
  <2>6. /\ At(ino, dev2, s) = dev2[dev2[ino.indirect2][Tab(s)]][Ent(s)]
        /\ At(ino, dev, s) = dev[dev[ino.indirect2][Tab(s)]][Ent(s)]
    BY <1>6, AtIndirect2, Zenon
  <2> QED BY <1>2, <1>5, <2>1, <2>4, <2>5, <2>6
<1>7. CASE s = -1 \/ s = -2
  BY <1>7, AtIndex
<1>8. CASE s < -2
  <2>1. HasTable(n, -3 - s)
    BY <1>8, SlotFacts
  <2>2. D + N < n
    <3>1. ~(n <= D + N)
      BY <2>1, NoTables, Zenon
    <3> QED BY <3>1
  <2>3. /\ At(ino, dev2, s) = dev2[ino.indirect2][-3 - s]
        /\ At(ino, dev, s) = dev[ino.indirect2][-3 - s]
    BY <1>8, AtTable, Zenon
  <2> QED BY <1>5, <2>2, <2>3
<1> QED BY <1>3, <1>4, <1>6, <1>7, <1>8

-----------------------------------------------------------------------------
(* clear_size walks the places of a file.                                  *)

\* p is a list of length l of the blocks at the places S, which are different.
Lists(p, l, ino, dev, S) ==
    /\ Len(p) = l /\ IsInjective(p)
    /\ p \in Seq(Range(p)) /\ Range(p) = {At(ino, dev, s) : s \in S}

\* One list after another.
LEMMA ListsTwo ==
    ASSUME NEW ino, NEW dev, NEW n, Distinct(ino, dev, n),
           NEW S, NEW T, S \subseteq Slots(n), T \subseteq Slots(n), S \cap T = {},
           NEW p, NEW q, NEW l \in Nat, NEW m \in Nat, Lists(p, l, ino, dev, S), Lists(q, m, ino, dev, T)
    PROVE  Lists(p \o q, l + m, ino, dev, S \cup T)
<1> DEFINE A == {At(ino, dev, s) : s \in S}
           B == {At(ino, dev, s) : s \in T}
           r == p \o q
<1>1. /\ Len(p) = l /\ p \in Seq(A) /\ Range(p) = A /\ IsInjective(p)
      /\ Len(q) = m /\ q \in Seq(B) /\ Range(q) = B /\ IsInjective(q)
  BY DEF Lists
<1>2. A \cap B = {}
  BY Zenon DEF Distinct
<1>3. A \cup B = {At(ino, dev, s) : s \in S \cup T}
  BY Zenon
<1> HIDE DEF A, B
<1>4. DOMAIN p = 1..l /\ DOMAIN q = 1..m
  BY <1>1
<1>6. /\ r \in Seq(A \cup B) /\ Len(r) = l + m
      /\ \A k \in 1..l : r[k] = p[k]
      /\ \A k \in 1..m : r[l + k] = q[k]
  BY <1>1
<1>7. DOMAIN r = 1..(l + m)
  BY <1>6
<1> HIDE DEF r
<1>9. \A k \in 1..l : k \in 1..(l + m)
  OBVIOUS
<1>10. \A k \in 1..m : l + k \in 1..(l + m)
  OBVIOUS
<1>11. (\A k \in 1..l : p[k] \in A) /\ (\A k \in 1..m : q[k] \in B)
  BY <1>1
<1>12. Range(r) = A \cup B
  <2>1. \A x \in A : \E k \in 1..l : x = p[k]
    BY <1>1, <1>4, Zenon DEF Range
  <2>2. \A x \in B : \E k \in 1..m : x = q[k]
    BY <1>1, <1>4, Zenon DEF Range
  <2>3. \A x \in A : x \in Range(r)
    BY <1>6, <1>7, <1>9, <2>1, Zenon DEF Range
  <2>4. \A x \in B : x \in Range(r)
    <3>1. \A k \in 1..m : q[k] \in Range(r)
      BY <1>6, <1>7, <1>10, Zenon DEF Range
    <3> QED BY <2>2, <3>1, Zenon
  <2>5. \A k \in 1..(l + m) : r[k] \in A \cup B
    BY <1>6
  <2>6. \A x \in Range(r) : x \in A \cup B
    BY <1>7, <2>5, Zenon DEF Range
  <2> QED BY <2>3, <2>4, <2>6
<1>13. IsInjective(r)
  <2> SUFFICES ASSUME NEW i \in 1..(l + m), NEW j \in 1..(l + m), r[i] = r[j] PROVE i = j
    BY <1>7, Zenon DEF IsInjective
  <2>1. CASE i \in 1..l /\ j \in 1..l
    BY <1>1, <1>6, <2>1 DEF IsInjective
  <2>2. CASE i - l \in 1..m /\ j - l \in 1..m
    <3>1. r[i] = q[i - l] /\ r[j] = q[j - l]
      BY <1>6, <2>2
    <3>2. i - l = j - l
      BY <1>1, <1>4, <2>2, <3>1, Zenon DEF IsInjective
    <3> QED BY <3>2
  <2>3. CASE i \in 1..l /\ j - l \in 1..m
    <3>1. r[i] \in A /\ r[j] \in B
      <4>1. r[i] = p[i] /\ r[j] = q[j - l]
        BY <1>6, <2>3
      <4> QED BY <1>11, <2>3, <4>1, Zenon
    <3> QED BY <1>2, <3>1
  <2>4. CASE i - l \in 1..m /\ j \in 1..l
    <3>1. r[j] \in A /\ r[i] \in B
      <4>1. r[j] = p[j] /\ r[i] = q[i - l]
        BY <1>6, <2>4
      <4> QED BY <1>11, <2>4, <4>1
    <3> QED BY <1>2, <3>1
  <2> QED BY <2>1, <2>2, <2>3, <2>4
<1> QED BY <1>3, <1>6, <1>12, <1>13, Zenon DEF Lists, r

\* A function on 1..m is a sequence.
LEMMA FunctionIsSeq ==
    ASSUME NEW R, NEW m \in Nat, NEW p \in [1..m -> R]
    PROVE  p \in Seq(R) /\ Len(p) = m
OBVIOUS

\* The list of no place.
LEMMA ListsNone ==
    ASSUME NEW ino, NEW dev
    PROVE  Lists(<<>>, 0, ino, dev, {})
<1>1. Range(<<>>) = {} /\ IsInjective(<<>>)
  BY DEF Range, IsInjective
<1> QED BY <1>1 DEF Lists

\* The list of one place.
LEMMA ListsOne ==
    ASSUME NEW ino, NEW dev, NEW s
    PROVE  Lists(<<At(ino, dev, s)>>, 1, ino, dev, {s})
<1> DEFINE x == At(ino, dev, s)
           p == <<x>>
<1> HIDE DEF x
<1>1. Len(p) = 1 /\ DOMAIN p = {1} /\ p[1] = x /\ p \in Seq({x})
  OBVIOUS
<1>2. Range(p) = {x} /\ IsInjective(p)
  BY DEF Range, IsInjective
<1> QED BY <1>1, <1>2, Zenon DEF Lists, x

\* The list of consecutive data blocks.
LEMMA ListsRun ==
    ASSUME NEW ino, NEW dev, NEW n \in Nat, Distinct(ino, dev, n),
           NEW c \in Nat, NEW m \in Nat, c + m <= n,
           NEW p, p = [j \in 1..m |-> At(ino, dev, c + j - 1)]
    PROVE  Lists(p, m, ino, dev, c..(c + m - 1)) /\ c..(c + m - 1) \subseteq Slots(n)
<1> DEFINE S == c..(c + m - 1)
<1>1. S \subseteq Slots(n)
  BY SlotFacts
<1>2. /\ \A j \in 1..m : c + j - 1 \in S
      /\ \A s \in S : s - c + 1 \in 1..m /\ c + (s - c + 1) - 1 = s
      /\ \A i, j \in 1..m : c + i - 1 = c + j - 1 => i = j
  OBVIOUS
<1> HIDE DEF S
<1>4. p \in Seq(Range(p)) /\ Len(p) = m
  <2> DEFINE R == Range(p)
  <2>1. \A j \in 1..m : p[j] \in R
    BY DEF Range
  <2> HIDE DEF R
  <2>2. p \in [1..m -> R]
    BY <2>1, Zenon
  <2>3. p \in Seq(R) /\ Len(p) = m
    BY <2>2, FunctionIsSeq, Zenon
  <2> QED BY <2>3, Zenon DEF R
<1>5. Range(p) = {At(ino, dev, s) : s \in S}
  <2>1. \A x \in Range(p) : \E s \in S : x = At(ino, dev, s)
    BY <1>2, ZenonT(30) DEF Range
  <2>2. \A s \in S : At(ino, dev, s) \in Range(p)
    <3> TAKE s \in S
    <3>1. p[s - c + 1] = At(ino, dev, c + (s - c + 1) - 1) /\ s - c + 1 \in 1..m
      BY <1>2, Zenon
    <3>2. p[s - c + 1] = At(ino, dev, s)
      BY <1>2
    <3> QED BY <3>1, <3>2, Zenon DEF Range
  <2> QED BY <2>1, <2>2, Zenon
<1>6. IsInjective(p)
  <2> SUFFICES ASSUME NEW i \in 1..m, NEW j \in 1..m, p[i] = p[j] PROVE i = j
    BY Zenon DEF IsInjective
  <2>1. /\ c + i - 1 \in Slots(n) /\ c + j - 1 \in Slots(n)
        /\ At(ino, dev, c + i - 1) = At(ino, dev, c + j - 1)
    BY <1>1, <1>2, Zenon
  <2>2. c + i - 1 = c + j - 1
    BY <2>1, Zenon DEF Distinct
  <2> QED BY <2>2
<1> QED BY <1>1, <1>4, <1>5, <1>6, Zenon DEF Lists, S

\* The data block at entry e of table a.
LEMMA EntryAt ==
    ASSUME NEW a \in Nat, NEW e \in 0..(N - 1)
    PROVE  /\ D + N + a * N + e \in Nat /\ D + N <= D + N + a * N + e
           /\ Tab(D + N + a * N + e) = a /\ Ent(D + N + a * N + e) = e
<1>1. D \in Nat /\ N \in Nat \ {0} /\ INODE_INDIRECT1_COUNT = N /\ INDIRECT1_BOUND = D + N
  BY IndexSizes
<1> USE <1>1
<1> QED BY DEF Tab, Ent

\* The blocks of a file in one indirect block below the doubly indirect one, with that one.
TableSlots(a, m) == {-3 - a} \cup (D + N + a * N)..(D + N + a * N + m - 1)
TableList(ino, a, m) == <<index[ino.indirect2][a]>> \o FirstEntries(index[ino.indirect2][a], m)

\* The list of an indirect block below the doubly indirect one and its first m entries.
LEMMA ListsTable ==
    ASSUME NEW ino, NEW n \in Nat, Distinct(ino, index, n),
           NEW a \in Nat, NEW m \in 1..N, D + N + a * N + m <= n
    PROVE  /\ Lists(TableList(ino, a, m), m + 1, ino, index, TableSlots(a, m))
           /\ TableSlots(a, m) \subseteq Slots(n)
<1> DEFINE c == D + N + a * N
           b == index[ino.indirect2][a]
           p == FirstEntries(b, m)
           S == c..(c + m - 1)
<1>1. D \in Nat /\ N \in Nat \ {0} /\ a * N \in Nat /\ c \in Nat /\ m \in Nat /\ m - 1 \in 0..(N - 1)
  BY IndexSizes
<1> USE <1>1
<1>3. -3 - a \in Slots(n)
  <2>1. HasTable(n, a)
    BY DEF HasTable
  <2> QED BY <2>1, SlotFacts
<1>4. At(ino, index, -3 - a) = b
  BY AtTable
<1>5. p = [j \in 1..m |-> At(ino, index, c + j - 1)]
  <2>1. \A j \in 1..m : At(ino, index, c + j - 1) = index[b][j - 1]
    <3> TAKE j \in 1..m
    <3>1. j - 1 \in 0..(N - 1) /\ c + j - 1 = c + (j - 1) /\ c + (j - 1) \in Int
      OBVIOUS
    <3>2. Tab(c + (j - 1)) = a /\ Ent(c + (j - 1)) = j - 1 /\ D + N <= c + (j - 1)
      BY <3>1, EntryAt, Zenon
    <3>3. At(ino, index, c + (j - 1)) = index[index[ino.indirect2][Tab(c + (j - 1))]][Ent(c + (j - 1))]
      BY <3>1, <3>2, AtIndirect2, Zenon
    <3> QED BY <3>2, <3>3
  <2> HIDE DEF b, c
  <2> QED BY <2>1 DEF FirstEntries
<1>6. Lists(p, m, ino, index, S) /\ S \subseteq Slots(n)
  <2> HIDE DEF p, c
  <2> QED BY <1>5, ListsRun DEF c
<1>7. Lists(<<b>>, 1, ino, index, {-3 - a})
  BY <1>4, ListsOne
<1>8. {-3 - a} \cap S = {} /\ {-3 - a} \subseteq Slots(n)
  BY <1>3
<1> HIDE DEF p, b, S
<1>9. Lists(<<b>> \o p, 1 + m, ino, index, {-3 - a} \cup S)
  BY <1>6, <1>7, <1>8, ListsTwo
<1> QED BY <1>6, <1>8, <1>9 DEF TableSlots, TableList, p, b, S

\* g[n] is the first n of the sequences T[0], T[1], ... one after another.
Concatenates(g, T) == g[0] = <<>> /\ \A n \in Nat : g[n + 1] = g[n] \o T[n]

\* There is such a g.
LEMMA ConcatLoop ==
    ASSUME NEW W, NEW T \in [Nat -> Seq(W)]
    PROVE  \E g \in [Nat -> Seq(W)] : Concatenates(g, T)
<1> DEFINE V == Seq(W)
           h == [n \in Nat |-> [q \in V |-> q \o T[n]]]
<1>1. \A n \in Nat, q \in V : q \o T[n] \in V
  OBVIOUS
<1>2. <<>> \in V /\ T \in [Nat -> V]
  OBVIOUS
<1> HIDE DEF V
<1>3. h \in [Nat -> [V -> V]] /\ \A n \in Nat, q \in V : h[n][q] = q \o T[n]
  BY <1>1
<1> HIDE DEF h
<1>4. PICK g \in [Nat -> V] : Iterates(g, <<>>, h)
  BY <1>2, <1>3, Iteration, Zenon
<1>6. g[0] = <<>> /\ \A n \in Nat : g[n + 1] = h[n][g[n]]
  BY <1>4, Zenon DEF Iterates
<1>7. \A n \in Nat : g[n + 1] = g[n] \o T[n]
  BY <1>3, <1>6, Zenon
<1> QED BY <1>6, <1>7, Zenon DEF Concatenates, V

\* Released, for the list f of the blocks under full indirect blocks.
ReleasedWith(ino, f) ==
    LET n == _data_blocks(ino.size)
        n1 == n - INODE_DIRECT_COUNT
        n2 == n1 - INODE_INDIRECT1_COUNT
        a1 == n2 \div INODE_INDIRECT1_COUNT
        b1 == n2 % INODE_INDIRECT1_COUNT
    IN  [k \in 1..min(n, INODE_DIRECT_COUNT) |-> ino.direct[k - 1]]
        \o (IF n1 > 0
            THEN <<ino.indirect1>>
                 \o FirstEntries(ino.indirect1, min(n1, INODE_INDIRECT1_COUNT))
            ELSE <<>>)
        \o (IF n2 > 0
            THEN <<ino.indirect2>>
                 \o f[a1]
                 \o (IF b1 > 0 THEN TableList(ino, a1, b1) ELSE <<>>)
            ELSE <<>>)

\* f[a] is the list of the blocks under the first a indirect blocks below the doubly
\* indirect one, which are full.
TableLoop(f, ino) == f[0] = <<>> /\ \A a \in Nat : f[a + 1] = f[a] \o TableList(ino, a, N)

\* clear_size goes through the full indirect blocks in a loop.
LEMMA ReleasedLoop ==
    ASSUME NEW ino
    PROVE  \E f : TableLoop(f, ino) /\ Released(ino) = ReleasedWith(ino, f)
<1> DEFINE x(a) == index[ino.indirect2][a]
           Y(a) == {index[x(a)][e] : e \in Int}
           W == {x(a) : a \in Nat} \cup UNION {Y(a) : a \in Nat}
           T == [a \in Nat |-> TableList(ino, a, N)]
           Eq(g) == [a \in Nat |-> IF a = 0 THEN <<>> ELSE g[a - 1] \o TableList(ino, a - 1, N)]
           full == CHOOSE f : f = Eq(f)
<1>1. \A a \in Nat : TableList(ino, a, N) \in Seq(W)
  <2> TAKE a \in Nat
  <2>1. x(a) \in W /\ \A e \in Int : index[x(a)][e] \in W
    <3>1. \A e \in Int : index[x(a)][e] \in Y(a)
      BY Zenon
    <3> HIDE DEF Y, x
    <3> QED BY <3>1, Zenon
  <2>2. N \in Nat /\ \A j \in 1..N : j - 1 \in Int
    BY IndexSizes
  <2> HIDE DEF W, x
  <2>3. [j \in 1..N |-> index[x(a)][j - 1]] \in [1..N -> W]
    BY <2>1
  <2>4. [j \in 1..N |-> index[x(a)][j - 1]] \in Seq(W)
    BY <2>2, <2>3, FunctionIsSeq, Zenon
  <2>5. <<x(a)>> \in Seq(W)
    BY <2>1
  <2>6. <<x(a)>> \o [j \in 1..N |-> index[x(a)][j - 1]] \in Seq(W)
    BY <2>4, <2>5
  <2> QED BY <2>6, Zenon DEF TableList, FirstEntries, x
<1> HIDE DEF W
<1>2. T \in [Nat -> Seq(W)] /\ \A a \in Nat : T[a] = TableList(ino, a, N)
  BY <1>1
<1> HIDE DEF T
<1>3. PICK g : Concatenates(g, T) /\ g \in [Nat -> Seq(W)]
  BY <1>2, ConcatLoop, Zenon
<1>4. g[0] = <<>> /\ \A a \in Nat : g[a + 1] = g[a] \o TableList(ino, a, N)
  BY <1>2, <1>3, Zenon DEF Concatenates
<1>5. g = Eq(g)
  <2>1. \A a \in Nat : a # 0 => a - 1 \in Nat /\ (a - 1) + 1 = a
    OBVIOUS
  <2>2. \A a \in Nat : g[a] = IF a = 0 THEN <<>> ELSE g[a - 1] \o TableList(ino, a - 1, N)
    BY <1>4, <2>1, Zenon
  <2> QED BY <1>3, <2>2, Zenon
<1>6. full = Eq(full)
  <2> HIDE DEF Eq
  <2> QED BY <1>5, Zenon
<1>7. Released(ino) = ReleasedWith(ino, full)
  BY Zenon DEF Released, ReleasedWith, TableList, N
<1> HIDE DEF full
<1>8. \A a \in Nat : full[a] = IF a = 0 THEN <<>> ELSE full[a - 1] \o TableList(ino, a - 1, N)
  BY <1>6, Zenon
<1>9. full[0] = <<>> /\ \A a \in Nat : full[a + 1] = full[a] \o TableList(ino, a, N)
  <2>1. \A a \in Nat : a + 1 \in Nat /\ a + 1 # 0 /\ (a + 1) - 1 = a
    OBVIOUS
  <2> QED BY <1>8, <2>1, Zenon
<1> QED BY <1>7, <1>9, Zenon DEF TableLoop

\* Intervals next to each other.
LEMMA Consecutive ==
    ASSUME NEW x \in Int, NEW y \in Int, NEW z \in Int, x <= y, y <= z
    PROVE  x..(y - 1) \cup y..(z - 1) = x..(z - 1)
OBVIOUS

\* One more place of the index.
LEMMA Downwards ==
    ASSUME NEW a \in Nat
    PROVE  (-2 - a)..(-3) \cup {-3 - a} = (-2 - (a + 1))..(-3)
<1> DEFINE x == -2 - a
<1> HIDE DEF x
<1> QED BY DEF x

\* The places under the first a indirect blocks below the doubly indirect one.
FullSlots(a) == (-2 - a)..(-3) \cup (D + N)..((D + N + a * N) - 1)

\* The loop of clear_size over full indirect blocks.
LEMMA ListsFull ==
    ASSUME NEW ino, NEW n \in Nat, Distinct(ino, index, n),
           NEW f, TableLoop(f, ino)
    PROVE  \A a \in Nat : D + N + a * N <= n =>
                Lists(f[a], a * N + a, ino, index, FullSlots(a)) /\ FullSlots(a) \subseteq Slots(n)
<1> DEFINE P(a) == Lists(f[a], a * N + a, ino, index, FullSlots(a)) /\ FullSlots(a) \subseteq Slots(n)
           T == {a \in Nat : D + N + a * N <= n => P(a)}
<1>1. D \in Nat /\ N \in Nat \ {0}
  BY IndexSizes
<1> USE <1>1
<1>2. 0 \in T
  <2>1. FullSlots(0) = {} /\ 0 * N + 0 = 0
    BY DEF FullSlots
  <2>2. f[0] = <<>>
    BY DEF TableLoop
  <2> QED BY <2>1, <2>2, ListsNone, Zenon
<1>3. ASSUME NEW a \in Nat, a \in T PROVE a + 1 \in T
  <2>2. a * N \in Nat /\ (a + 1) * N = a * N + N /\ a + 1 \in Nat
    OBVIOUS
  <2>3. SUFFICES ASSUME D + N + (a + 1) * N <= n PROVE P(a + 1)
    OBVIOUS
  <2>4. P(a) /\ D + N + a * N + N <= n /\ N \in 1..N
    BY <1>3, <2>3
  <2>5. /\ Lists(TableList(ino, a, N), N + 1, ino, index, TableSlots(a, N))
        /\ TableSlots(a, N) \subseteq Slots(n)
    BY <2>4, ListsTable
  <2>6. FullSlots(a) \cap TableSlots(a, N) = {}
    <3> DEFINE x == D + N
               y == x + a * N
    <3>1. x \in Nat /\ y \in Nat /\ x <= y
      OBVIOUS
    <3>2. /\ FullSlots(a) = (-2 - a)..(-3) \cup x..(y - 1)
          /\ TableSlots(a, N) = {-3 - a} \cup y..(y + N - 1)
      BY DEF FullSlots, TableSlots
    <3> HIDE DEF x, y
    <3> QED BY <3>1, <3>2
  <2>7. FullSlots(a) \cup TableSlots(a, N) = FullSlots(a + 1)
    <3>1. (-2 - a)..(-3) \cup {-3 - a} = (-2 - (a + 1))..(-3)
      OBVIOUS
    <3> DEFINE x == D + N
               y == x + a * N
               z == x + (a + 1) * N
    <3>2. x \in Nat /\ y \in Nat /\ x <= y
      OBVIOUS
    <3>3. z = x + (a * N + N) /\ y = x + a * N
      BY <2>2, Zenon
    <3>4. z = y + N
      <4> HIDE DEF x, y, z
      <4> QED BY <3>2, <3>3
    <3>5. x \in Nat /\ y \in Nat /\ x <= y /\ z = y + N /\ y <= z /\ z \in Nat
      <4> HIDE DEF x, y, z
      <4> QED BY <3>2, <3>4
    <3> HIDE DEF x, y, z
    <3>6. x..(y - 1) \cup y..(y + N - 1) = x..(z - 1)
      <4>1. x \in Int /\ y \in Int /\ z \in Int /\ y + N - 1 = z - 1
        BY <3>5
      <4>2. x..(y - 1) \cup y..(z - 1) = x..(z - 1)
        BY <3>5
      <4> QED BY <4>1, <4>2, Zenon
    <3>7. FullSlots(a) \cup TableSlots(a, N)
            = ((-2 - a)..(-3) \cup {-3 - a}) \cup (x..(y - 1) \cup y..(y + N - 1))
      <4>1. FullSlots(a) = (-2 - a)..(-3) \cup x..(y - 1)
        BY Zenon DEF FullSlots, x, y
      <4>2. TableSlots(a, N) = {-3 - a} \cup y..(y + N - 1)
        BY Zenon DEF TableSlots, x, y
      <4> QED BY <4>1, <4>2, Zenon
    <3>8. FullSlots(a + 1) = (-2 - (a + 1))..(-3) \cup x..(z - 1)
      BY Zenon DEF FullSlots, x, z
    <3> QED BY <3>1, <3>6, <3>7, <3>8, Zenon
  <2>8. a * N + a \in Nat /\ N + 1 \in Nat /\ (a * N + a) + (N + 1) = (a + 1) * N + (a + 1)
    OBVIOUS
  <2>9. f[a + 1] = f[a] \o TableList(ino, a, N)
    BY Zenon DEF TableLoop
  <2> DEFINE l == a * N + a
             m == N + 1
  <2> HIDE DEF l, m
  <2>11. Lists(f[a] \o TableList(ino, a, N), l + m, ino, index, FullSlots(a) \cup TableSlots(a, N))
    BY <2>4, <2>5, <2>6, <2>8, ListsTwo, Zenon DEF l, m
  <2>12. Lists(f[a + 1], (a + 1) * N + (a + 1), ino, index, FullSlots(a + 1))
    BY <2>7, <2>8, <2>9, <2>11, Zenon DEF l, m
  <2>13. FullSlots(a + 1) \subseteq Slots(n)
    BY <2>4, <2>5, <2>7
  <2> QED BY <2>12, <2>13
<1>4. Nat \subseteq T
  <2> HIDE DEF T
  <2> QED BY <1>2, <1>3, SetInduction
<1> QED BY <1>4

\* The places of a file in the order in which clear_size visits them.
FirstSlots(n) == IF n <= D THEN 0..(n - 1) ELSE 0..(D - 1)
SecondSlots(n) ==
    IF n <= D THEN {} ELSE {-1} \cup (IF n <= D + N THEN D..(n - 1) ELSE D..(D + N - 1))
ThirdSlots(n) ==
    IF n <= D + N THEN {}
    ELSE ({-2} \cup FullSlots(Tab(n))) \cup (IF Ent(n) > 0 THEN TableSlots(Tab(n), Ent(n)) ELSE {})

\* They are all the places.
LEMMA SlotsInOrder ==
    ASSUME NEW n \in Nat
    PROVE  Slots(n) = (FirstSlots(n) \cup SecondSlots(n)) \cup ThirdSlots(n)
<1> DEFINE A == FirstSlots(n)
           B == SecondSlots(n)
           C == ThirdSlots(n)
<1>1. D \in Nat /\ N \in Nat \ {0}
  BY IndexSizes
<1> USE <1>1
<1>2. \A s : s \in A \cup B <=>
        /\ s \in Int
        /\ \/ 0 <= s /\ s < n /\ s < D + N
           \/ s = -1 /\ D < n
  <2>1. CASE n <= D
    BY DEF FirstSlots, SecondSlots
  <2>2. CASE D < n /\ n <= D + N
    <3>1. A = 0..(D - 1) /\ B = {-1} \cup D..(n - 1)
      BY <2>2 DEF FirstSlots, SecondSlots
    <3> HIDE DEF A, B
    <3> QED BY <2>2, <3>1
  <2>3. CASE D + N < n
    <3>1. A = 0..(D - 1) /\ B = {-1} \cup D..(D + N - 1)
      BY <2>3 DEF FirstSlots, SecondSlots
    <3> HIDE DEF A, B
    <3> QED BY <2>3, <3>1
  <2> QED BY <2>1, <2>2, <2>3
<1>3. \A s : s \in C <=>
        /\ s \in Int
        /\ \/ D + N <= s /\ s < n
           \/ s = -2 /\ D + N < n
           \/ s < -2 /\ HasTable(n, -3 - s)
  <2>1. CASE n <= D + N
    <3>1. C = {} /\ \A a : ~HasTable(n, a)
      BY <2>1, NoTables DEF ThirdSlots
    <3> HIDE DEF C
    <3> QED BY <2>1, <3>1
  <2>2. CASE D + N < n
    <3> DEFINE a == Tab(n)
               b == Ent(n)
               x == D + N
               y == D + N + a * N
    <3>1. a \in Nat /\ b \in 0..(N - 1) /\ n = D + N + a * N + b /\ D + N <= n
      BY <2>2, EntryOf
    <3> USE <3>1
    <3>2. x \in Nat /\ y \in Nat /\ x <= y /\ n = y + b /\ b \in Nat
      <4> QED OBVIOUS
    <3>3. \A c \in Nat : HasTable(n, c) <=> c < a \/ (c = a /\ b > 0)
      <4> TAKE c \in Nat
      <4>1. /\ HasTable(n + 1, c) <=> c <= Tab(n)
            /\ HasTable(n + 1, c) <=> HasTable(n, c) \/ (c = Tab(n) /\ Ent(n) = 0)
            /\ HasTable(n, Tab(n)) <=> Ent(n) # 0
        BY TablesUpto, TablesGrow
      <4> QED BY <4>1
    <3>5. C = ({-2} \cup ((-2 - a)..(-3) \cup x..(y - 1)))
                \cup (IF b > 0 THEN {-3 - a} \cup y..(y + b - 1) ELSE {})
      BY <2>2 DEF ThirdSlots, FullSlots, TableSlots
    <3> HIDE DEF C, a, b, x, y
    <3>6. \A s : s \in C <=> \/ s = -2 \/ s \in (-2 - a)..(-3) \/ s \in x..(y - 1)
                             \/ b > 0 /\ s = -3 - a
                             \/ b > 0 /\ s \in y..(y + b - 1)
      BY <3>5
    <3>7. \A s \in Int : s < -2 /\ HasTable(n, -3 - s) <=> s \in (-2 - a)..(-3) \/ (b > 0 /\ s = -3 - a)
      BY <3>3
    <3>8. \A s \in Int : x <= s /\ s < n <=> s \in x..(y - 1) \/ (b > 0 /\ s \in y..(y + b - 1))
      BY <3>2
    <3> QED BY <2>2, <3>6, <3>7, <3>8 DEF x
  <2> QED BY <2>1, <2>2
<1> HIDE DEF A, B, C
<1>4. \A s : s \in Slots(n) <=> s \in A \cup B \/ s \in C
  BY <1>2, <1>3, SlotFacts
<1> QED BY <1>4 DEF A, B, C

\* clear_size returns the block at every place once, as many as total_blocks says.
LEMMA ReleasedLists ==
    ASSUME NEW ino, NEW n \in Nat, n = _data_blocks(ino.size), Distinct(ino, index, n)
    PROVE  Lists(Released(ino), Total(n), ino, index, Slots(n))
<1> DEFINE A == FirstSlots(n)
           B == SecondSlots(n)
           C == ThirdSlots(n)
           L(p, l, S) == Lists(p, l, ino, index, S)
<1>1. /\ D \in Nat /\ N \in Nat \ {0} /\ INODE_DIRECT_COUNT = D /\ INODE_INDIRECT1_COUNT = N
      /\ INDIRECT1_BOUND = D + N
  BY IndexSizes
<1> USE <1>1
<1>2. Slots(n) = (A \cup B) \cup C
  BY SlotsInOrder
<1>3. PICK f : TableLoop(f, ino) /\ Released(ino) = ReleasedWith(ino, f)
  BY ReleasedLoop, Zenon
<1> DEFINE p1 == [k \in 1..min(n, D) |-> ino.direct[k - 1]]
           p2 == IF n - D > 0 THEN <<ino.indirect1>> \o FirstEntries(ino.indirect1, min(n - D, N))
                 ELSE <<>>
           n2 == n - D - N
           a == n2 \div N
           b == n2 % N
           p3 == IF n2 > 0
                 THEN <<ino.indirect2>> \o f[a] \o (IF b > 0 THEN TableList(ino, a, b) ELSE <<>>)
                 ELSE <<>>
<1>4. Released(ino) = p1 \o p2 \o p3
  BY <1>3, Zenon DEF ReleasedWith
<1> DEFINE l1 == IF n <= D THEN n ELSE D
           l2 == IF n <= D THEN 0 ELSE 1 + (IF n <= D + N THEN n - D ELSE N)
           l3 == IF n <= D + N THEN 0
                 ELSE (1 + (Tab(n) * N + Tab(n))) + (IF Ent(n) > 0 THEN Ent(n) + 1 ELSE 0)
<1> HIDE DEF A, B, C, L, p1, p2, p3
<1>5. L(p1, l1, A) /\ l1 \in Nat
  <2>1. min(n, D) = l1 /\ l1 \in Nat /\ 0 + l1 <= n /\ l1 <= D
    BY DEF min
  <2> USE <2>1
  <2>2. A = 0..(0 + l1 - 1)
    BY DEF A, FirstSlots
  <2> HIDE DEF l1
  <2>3. \A k \in 1..l1 : At(ino, index, 0 + k - 1) = ino.direct[k - 1]
    <3> TAKE k \in 1..l1
    <3>1. 0 + k - 1 = k - 1 /\ k - 1 \in Int /\ 0 <= k - 1 /\ k - 1 < D
      OBVIOUS
    <3>2. At(ino, index, k - 1) = ino.direct[k - 1]
      BY <3>1, AtDirect, Zenon
    <3> QED BY <3>2
  <2>4. p1 = [k \in 1..l1 |-> At(ino, index, 0 + k - 1)]
    BY <2>3 DEF p1
  <2>5. Lists(p1, l1, ino, index, 0..(0 + l1 - 1))
    BY <2>4, ListsRun
  <2> QED BY <2>2, <2>5 DEF L
<1>6. L(p2, l2, B) /\ l2 \in Nat
  <2>1. CASE n <= D
    <3>1. p2 = <<>> /\ l2 = 0 /\ B = {}
      BY <2>1 DEF p2, B, SecondSlots
    <3> QED BY <3>1, ListsNone DEF L
  <2>2. CASE D < n
    <3> DEFINE m == IF n <= D + N THEN n - D ELSE N
               q == FirstEntries(ino.indirect1, m)
               S == D..(D + m - 1)
    <3>1. /\ m \in Nat /\ D + m <= n /\ m <= N /\ min(n - D, N) = m /\ n - D > 0
          /\ l2 = 1 + m
      BY <2>2 DEF min
    <3> USE <3>1
    <3>2. B = {-1} \cup S /\ p2 = <<ino.indirect1>> \o q
      <4>1. S = IF n <= D + N THEN D..(n - 1) ELSE D..(D + N - 1)
        <5>1. CASE n <= D + N
          <6> QED OBVIOUS
        <5>2. CASE ~(n <= D + N)
          OBVIOUS
        <5> QED OBVIOUS
      <4>2. ~(n <= D)
        OBVIOUS
      <4>3. B = {-1} \cup S
        BY <4>1, <4>2, Zenon DEF B, SecondSlots
      <4>4. p2 = <<ino.indirect1>> \o FirstEntries(ino.indirect1, min(n - D, N))
        BY Zenon DEF p2
      <4> QED BY <4>3, <4>4, Zenon
    <3> HIDE DEF m
    <3>3. \A k \in 1..m : At(ino, index, D + k - 1) = index[ino.indirect1][k - 1]
      <4> TAKE k \in 1..m
      <4>1. /\ D + k - 1 \in Int /\ D <= D + k - 1 /\ D + k - 1 < D + N
            /\ (D + k - 1) - D = k - 1
        OBVIOUS
      <4>2. At(ino, index, D + k - 1) = index[ino.indirect1][(D + k - 1) - D]
        BY <4>1, AtIndirect1, Zenon
      <4> QED BY <4>2
    <3>4. q = [k \in 1..m |-> At(ino, index, D + k - 1)]
      BY <3>3, Zenon DEF FirstEntries
    <3> HIDE DEF q
    <3>5. Lists(q, m, ino, index, S) /\ S \subseteq Slots(n)
      BY <3>4, ListsRun
    <3>6. Lists(<<ino.indirect1>>, 1, ino, index, {-1})
      BY AtIndex, ListsOne
    <3>7. {-1} \subseteq Slots(n) /\ {-1} \cap S = {}
      BY SlotFacts
    <3> HIDE DEF S
    <3>8. Lists(<<ino.indirect1>> \o q, 1 + m, ino, index, {-1} \cup S)
      BY <3>5, <3>6, <3>7, ListsTwo, Zenon
    <3> QED BY <3>2, <3>8 DEF L
  <2> QED BY <2>1, <2>2

<1>7. L(p3, l3, C) /\ l3 \in Nat
  <2>1. CASE n <= D + N
    <3>1. n2 \in Int /\ ~(n2 > 0)
      BY <2>1
    <3>2. p3 = <<>> /\ l3 = 0 /\ C = {}
      BY <3>1 DEF p3, C, ThirdSlots
    <3> QED BY <3>2, ListsNone DEF L
  <2>2. CASE D + N < n
    <3>1. /\ Tab(n) \in Nat /\ Ent(n) \in 0..(N - 1) /\ n = D + N + Tab(n) * N + Ent(n)
          /\ Tab(n) * N \in Nat
      BY <2>2, EntryOf
    <3>2. n2 = n - (D + N) /\ n2 > 0
      BY <2>2
    <3>3. a = Tab(n) /\ b = Ent(n)
      BY DEF Tab, Ent
    <3>4. /\ p3 = (<<ino.indirect2>> \o f[a]) \o (IF b > 0 THEN TableList(ino, a, b) ELSE <<>>)
          /\ l3 = (1 + (a * N + a)) + (IF b > 0 THEN b + 1 ELSE 0)
          /\ C = ({-2} \cup FullSlots(a)) \cup (IF b > 0 THEN TableSlots(a, b) ELSE {})
      <4>1. ~(n <= D + N)
        BY <2>2
      <4>2. C = ({-2} \cup FullSlots(a)) \cup (IF b > 0 THEN TableSlots(a, b) ELSE {})
        BY <3>3, <4>1, Zenon DEF C, ThirdSlots
      <4>3. l3 = (1 + (a * N + a)) + (IF b > 0 THEN b + 1 ELSE 0)
        BY <3>3, <4>1, Zenon
      <4>4. p3 = <<ino.indirect2>> \o f[a] \o (IF b > 0 THEN TableList(ino, a, b) ELSE <<>>)
        BY <3>2, Zenon DEF p3
      <4> QED BY <4>2, <4>3, <4>4, Zenon
    <3>5. a \in Nat /\ a * N \in Nat /\ b \in Nat /\ b <= N /\ D + N + a * N + b = n
      BY <3>1, <3>3
    <3> USE <3>5
    <3> HIDE DEF l3, a, b, n2
    <3>7. Lists(f[a], a * N + a, ino, index, FullSlots(a)) /\ FullSlots(a) \subseteq Slots(n)
      BY <1>3, ListsFull
    <3>8. Lists(<<ino.indirect2>>, 1, ino, index, {-2})
      BY AtIndex, ListsOne
    <3>9. {-2} \subseteq Slots(n) /\ {-2} \cap FullSlots(a) = {}
      BY <2>2, SlotFacts DEF FullSlots
    <3> DEFINE u == a * N + a
    <3>10. u \in Nat
      OBVIOUS
    <3> HIDE DEF u
    <3>11. L(<<ino.indirect2>> \o f[a], 1 + u, {-2} \cup FullSlots(a))
      <4>1. Lists(f[a], u, ino, index, FullSlots(a))
        BY <3>7 DEF u
      <4> QED BY <3>7, <3>8, <3>9, <3>10, <4>1, ListsTwo, Zenon DEF L
    <3> DEFINE q == IF b > 0 THEN TableList(ino, a, b) ELSE <<>>
               m == IF b > 0 THEN b + 1 ELSE 0
               S == IF b > 0 THEN TableSlots(a, b) ELSE {}
    <3>12. L(q, m, S) /\ S \subseteq Slots(n) /\ m \in Nat
      <4>1. CASE b > 0
        <5>1. b \in 1..N /\ D + N + a * N + b <= n
          BY <4>1
        <5> QED BY <5>1, ListsTable DEF L
      <4>2. CASE ~(b > 0)
        BY <4>2, ListsNone DEF L
      <4> QED BY <4>1, <4>2
    <3>13. ({-2} \cup FullSlots(a)) \cap S = {}
      <4> DEFINE y == D + N + a * N
      <4>1. y \in Nat /\ D + N \in Nat
        OBVIOUS
      <4>2. /\ FullSlots(a) = (-2 - a)..(-3) \cup (D + N)..(y - 1)
            /\ TableSlots(a, b) = {-3 - a} \cup y..(y + b - 1)
        BY DEF FullSlots, TableSlots
      <4> HIDE DEF y
      <4> QED BY <4>1, <4>2
    <3>14. {-2} \cup FullSlots(a) \subseteq Slots(n)
      BY <3>7, <3>9
    <3> HIDE DEF q, m, S
    <3>15. Lists((<<ino.indirect2>> \o f[a]) \o q, (1 + u) + m, ino, index, ({-2} \cup FullSlots(a)) \cup S)
      <4>1. 1 + u \in Nat
        BY <3>10
      <4> QED BY <3>11, <3>12, <3>13, <3>14, <4>1, ListsTwo DEF L
    <3> QED BY <3>4, <3>15 DEF L, q, m, S, u
  <2> QED BY <2>1, <2>2
<1>8. Total(n) = l1 + l2 + l3
  <2>1. Total(n) = n + (IF n > D THEN 1 ELSE 0) + (IF n > D + N THEN 1 + Tables(n) ELSE 0)
    BY Zenon DEF Total
  <2>2. CASE n <= D + N
    BY <2>1, <2>2
  <2>3. CASE D + N < n
    <3> DEFINE t == Tab(n)
               e == Ent(n)
               w == Tab(n) * N
    <3>1. t \in Nat /\ e \in 0..(N - 1) /\ n = D + N + w + e /\ w \in Nat
      BY <2>3, EntryOf
    <3>2. Tables(n) = t + (IF e = 0 THEN 0 ELSE 1)
      BY <2>3, TablesCounted
    <3>3. l1 = D /\ l2 = 1 + N /\ l3 = (1 + (w + t)) + (IF e > 0 THEN e + 1 ELSE 0)
      BY <2>3
    <3>4. Total(n) = n + 1 + (1 + (t + (IF e = 0 THEN 0 ELSE 1)))
      BY <2>1, <2>3, <3>2
    <3> HIDE DEF l1, l2, l3, t, e, w
    <3> QED BY <3>1, <3>3, <3>4
  <2> QED BY <2>2, <2>3
<1> HIDE DEF l1, l2, l3
<1>9. A \cap B = {} /\ (A \cup B) \cap C = {}
  <2>1. A \cap B = {}
    BY DEF A, B, FirstSlots, SecondSlots
  <2>2. \A s \in A \cup B : s \in Int /\ -1 <= s /\ s < D + N
    BY DEF A, B, FirstSlots, SecondSlots
  <2>3. \A s \in C : s < -1 \/ D + N <= s
    <3>1. CASE n <= D + N
      BY <3>1 DEF C, ThirdSlots
    <3>2. CASE D + N < n
      <4>1. Tab(n) \in Nat /\ Ent(n) \in Nat /\ Tab(n) * N \in Nat
        BY <3>2, EntryOf
      <4>2. \A s \in FullSlots(Tab(n)) : s < -1 \/ D + N <= s
        BY DEF FullSlots
      <4>3. \A s \in TableSlots(Tab(n), Ent(n)) : s < -1 \/ D + N <= s
        BY <4>1 DEF TableSlots
      <4> QED BY <4>2, <4>3 DEF C, ThirdSlots
    <3> QED BY <3>1, <3>2
  <2> QED BY <2>1, <2>2, <2>3
<1>10. A \subseteq Slots(n) /\ B \subseteq Slots(n) /\ C \subseteq Slots(n) /\ A \cup B \subseteq Slots(n)
  BY <1>2
<1>11. L(p1 \o p2, l1 + l2, A \cup B)
  BY <1>5, <1>6, <1>9, <1>10, ListsTwo, Zenon DEF L
<1>12. l1 + l2 \in Nat
  BY <1>5, <1>6
<1>13. L((p1 \o p2) \o p3, (l1 + l2) + l3, (A \cup B) \cup C)
  BY <1>7, <1>9, <1>10, <1>11, <1>12, ListsTwo DEF L
<1> QED BY <1>2, <1>4, <1>8, <1>13 DEF L

-----------------------------------------------------------------------------
(* What a file holds.                                                      *)

\* The data blocks of a file and the blocks of its index, for disk inode ino and the index
\* blocks dev.
ListOf(ino, dev) == [k \in 1.._data_blocks(ino.size) |-> get_block_id(ino, dev, k - 1)]
IndexOf(ino, dev, n) ==
    (IF n > INODE_DIRECT_COUNT THEN {ino.indirect1} ELSE {})
    \cup (IF n > INDIRECT1_BOUND
          THEN {ino.indirect2} \cup {dev[ino.indirect2][a] : a \in 0..(Tables(n) - 1)}
          ELSE {})

\* The list of data blocks is the blocks at places from 0.
LEMMA ListAt ==
    ASSUME NEW ino, NEW dev, NEW n \in Nat, n = _data_blocks(ino.size)
    PROVE  /\ ListOf(ino, dev) = [k \in 1..n |-> At(ino, dev, k - 1)]
           /\ Range(ListOf(ino, dev)) = {At(ino, dev, s) : s \in 0..(n - 1)}
<1>1. \A k \in 1..n : get_block_id(ino, dev, k - 1) = At(ino, dev, k - 1)
  BY DEF At
<1>2. ListOf(ino, dev) = [k \in 1..n |-> At(ino, dev, k - 1)]
  BY <1>1, Zenon DEF ListOf
<1>3. Range([k \in 1..n |-> At(ino, dev, k - 1)]) = {At(ino, dev, k - 1) : k \in 1..n}
  BY Zenon DEF Range
<1>4. {At(ino, dev, k - 1) : k \in 1..n} = {At(ino, dev, s) : s \in 0..(n - 1)}
  <2>1. ASSUME NEW k \in 1..n PROVE At(ino, dev, k - 1) \in {At(ino, dev, s) : s \in 0..(n - 1)}
    <3>1. k - 1 \in 0..(n - 1)
      OBVIOUS
    <3> QED BY <3>1, Zenon
  <2>2. ASSUME NEW s \in 0..(n - 1) PROVE At(ino, dev, s) \in {At(ino, dev, k - 1) : k \in 1..n}
    <3>1. s + 1 \in 1..n /\ (s + 1) - 1 = s
      OBVIOUS
    <3> QED BY <3>1, Zenon
  <2> QED BY <2>1, <2>2, Zenon
<1> QED BY <1>2, <1>3, <1>4, Zenon

\* The indirect blocks below the doubly indirect one are those total_blocks counts.
LEMMA TablesHeld ==
    ASSUME NEW n \in Nat, D + N < n, NEW a
    PROVE  HasTable(n, a) <=> a \in 0..(Tables(n) - 1)
<1>1. D \in Nat /\ N \in Nat \ {0}
  BY IndexSizes
<1> DEFINE k == n - 1
<1>2. k \in Nat /\ D + N <= k /\ k + 1 = n
  BY <1>1
<1> HIDE DEF k
<1>3. Tables(n) = Tab(k) + 1 /\ Tab(k) \in Nat
  BY <1>2, TablesCounted, EntryOf
<1>4. ASSUME a \in Nat PROVE HasTable(n, a) <=> a <= Tab(k)
  BY <1>2, <1>4, TablesUpto
<1>5. HasTable(n, a) => a \in Nat
  BY DEF HasTable
<1> QED BY <1>3, <1>4, <1>5

\* A file holds the blocks at its places.
LEMMA HeldAtPlaces ==
    ASSUME NEW ino, NEW dev, NEW n \in Nat, n = _data_blocks(ino.size)
    PROVE  Range(ListOf(ino, dev)) \cup IndexOf(ino, dev, n) = Blocks(ino, dev, n)
<1>1. D \in Nat /\ N \in Nat \ {0} /\ INODE_DIRECT_COUNT = D /\ INDIRECT1_BOUND = D + N
  BY IndexSizes
<1> DEFINE R == {At(ino, dev, s) : s \in 0..(n - 1)}
           X == IndexOf(ino, dev, n)
<1>2. Range(ListOf(ino, dev)) = R
  BY ListAt
<1>3. ASSUME NEW x \in R PROVE x \in Blocks(ino, dev, n)
  <2>1. PICK s \in 0..(n - 1) : x = At(ino, dev, s)
    OBVIOUS
  <2>2. s \in Slots(n)
    BY SlotFacts
  <2> QED BY <2>1, <2>2, Zenon DEF Blocks
<1>4. ASSUME NEW x \in X PROVE x \in Blocks(ino, dev, n)
  <2>1. CASE D < n /\ x = ino.indirect1
    <3>1. -1 \in Slots(n) /\ At(ino, dev, -1) = x
      BY <2>1, SlotFacts, AtIndex
    <3> QED BY <3>1, Zenon DEF Blocks
  <2>2. CASE D + N < n /\ x = ino.indirect2
    <3>1. -2 \in Slots(n) /\ At(ino, dev, -2) = x
      BY <2>2, SlotFacts, AtIndex
    <3> QED BY <3>1, Zenon DEF Blocks
  <2>3. CASE D + N < n /\ \E a \in 0..(Tables(n) - 1) : x = dev[ino.indirect2][a]
    <3>1. PICK a \in 0..(Tables(n) - 1) : x = dev[ino.indirect2][a]
      BY <2>3
    <3>2. HasTable(n, a) /\ a \in Nat
      BY <2>3, TablesHeld
    <3>4. -3 - a \in Slots(n)
      BY <3>2, SlotFacts
    <3>5. At(ino, dev, -3 - a) = x
      BY <3>1, AtTable
    <3> QED BY <3>4, <3>5, Zenon DEF Blocks
  <2> QED BY <1>1, <2>1, <2>2, <2>3 DEF IndexOf
<1>5. ASSUME NEW x \in Blocks(ino, dev, n) PROVE x \in R \cup X
  <2>1. PICK s \in Slots(n) : x = At(ino, dev, s)
    BY Zenon DEF Blocks
  <2>2. s \in Int
    BY SlotFacts
  <2>3. CASE 0 <= s /\ s < n
    <3>1. s \in 0..(n - 1)
      BY <2>2, <2>3
    <3> QED BY <2>1, <3>1, Zenon
  <2>4. CASE s = -1 /\ D < n
    BY <1>1, <2>1, <2>4, AtIndex DEF IndexOf
  <2>5. CASE s = -2 /\ D + N < n
    BY <1>1, <2>1, <2>5, AtIndex DEF IndexOf
  <2>6. CASE s < -2 /\ HasTable(n, -3 - s)
    <3>1. D + N < n
      BY <1>1, <2>6, NoTables
    <3>2. -3 - s \in 0..(Tables(n) - 1)
      BY <2>6, <3>1, TablesHeld
    <3>3. x = dev[ino.indirect2][-3 - s]
      BY <2>1, <2>2, <2>6, AtTable
    <3> QED BY <1>1, <3>1, <3>2, <3>3 DEF IndexOf
  <2> QED BY <2>3, <2>4, <2>5, <2>6, SlotFacts
<1> QED BY <1>2, <1>3, <1>4, <1>5, Zenon

\* The bitmap after dealloc_data on each block of v.
Freed(v) ==
    LET freed[m \in Nat] == IF m = 0 THEN bitmap ELSE dealloc(freed[m - 1], v[m] - AreaStart)
    IN  freed[Len(v)]

DeallocLoop(f, v) ==
    f[0] = bitmap /\ \A m \in Nat : f[m + 1] = dealloc(f[m], v[m + 1] - AreaStart)

\* dealloc, of any number, keeps a bitmap a bitmap.
LEMMA DeallocType ==
    ASSUME NEW bm \in BitmapType, NEW bit
    PROVE  dealloc(bm, bit) \in BitmapType
<1> DEFINE p == decomposition(bit)
<1> HIDE DEF p
<1>1. dealloc(bm, bit) = [bm EXCEPT ![p.block][p.word] = @ \ {p.inner}]
  BY Zenon DEF dealloc, p
<1>2. CASE p.block \in 0..(BitmapBlocks - 1)
  <2>1. bm[p.block] \in [0..(Words - 1) -> SUBSET Full]
    BY <1>2 DEF BitmapType
  <2>2. [bm[p.block] EXCEPT ![p.word] = @ \ {p.inner}] \in [0..(Words - 1) -> SUBSET Full]
    BY <2>1, Zenon
  <2> QED BY <1>1, <2>2, Zenon DEF BitmapType
<1>3. CASE p.block \notin 0..(BitmapBlocks - 1)
  BY <1>1, <1>3, Zenon DEF BitmapType
<1> QED BY <1>2, <1>3

\* Inode::clear gives back the blocks of v in a loop.
LEMMA FreedIsLoop ==
    ASSUME bitmap \in BitmapType, NEW v
    PROVE  \E f : DeallocLoop(f, v) /\ Freed(v) = f[Len(v)]
<1> DEFINE x(m) == v[m] - AreaStart
           h == [n \in Nat |-> [bm \in BitmapType |-> dealloc(bm, x(n + 1))]]
           Eq(g) == [m \in Nat |-> IF m = 0 THEN bitmap ELSE dealloc(g[m - 1], x(m))]
           freed == CHOOSE f : f = Eq(f)
<1>1. Freed(v) = freed[Len(v)]
  BY Zenon DEF Freed
<1> HIDE DEF x
<1>2. /\ h \in [Nat -> [BitmapType -> BitmapType]]
      /\ \A n \in Nat : \A bm \in BitmapType : h[n][bm] = dealloc(bm, x(n + 1))
  BY DeallocType, Zenon
<1> HIDE DEF h
<1>3. PICK g \in [Nat -> BitmapType] : Iterates(g, bitmap, h)
  BY <1>2, Iteration, Zenon
<1>4. g[0] = bitmap /\ \A n \in Nat : g[n + 1] = dealloc(g[n], x(n + 1))
  <2> QED BY <1>2, <1>3, Zenon DEF Iterates
<1>5. \A n \in Nat : n # 0 => n - 1 \in Nat /\ (n - 1) + 1 = n
  OBVIOUS
<1>6. \A m \in Nat : g[m] = IF m = 0 THEN bitmap ELSE dealloc(g[m - 1], x(m))
  BY <1>4, <1>5, Zenon
<1>7. g = Eq(g)
  BY <1>6, Zenon
<1>8. freed = Eq(freed)
  <2> HIDE DEF Eq
  <2> QED BY <1>7, Zenon
<1> HIDE DEF freed
<1>9. \A m \in Nat : freed[m] = IF m = 0 THEN bitmap ELSE dealloc(freed[m - 1], x(m))
  BY <1>8, Zenon
<1>10. \A a \in Nat : a + 1 \in Nat /\ a + 1 # 0 /\ (a + 1) - 1 = a
  OBVIOUS
<1>11. freed[0] = bitmap /\ \A m \in Nat : freed[m + 1] = dealloc(freed[m], x(m + 1))
  <2>2. freed[0] = bitmap
    BY <1>9, Zenon
  <2>3. ASSUME NEW m \in Nat PROVE freed[m + 1] = dealloc(freed[m], x(m + 1))
    <3>1. freed[m + 1] = dealloc(freed[(m + 1) - 1], x(m + 1))
      BY <1>9, <1>10, Zenon
    <3>2. (m + 1) - 1 = m
      OBVIOUS
    <3> QED BY <3>1, <3>2, Zenon
  <2> QED BY <2>2, <2>3, Zenon
<1>12. DeallocLoop(freed, v)
  BY <1>11, Zenon DEF DeallocLoop, x
<1> QED BY <1>1, <1>12, Zenon

\* Giving back blocks that are set, none twice, clears their bits and no others.
LEMMA FreedClears ==
    ASSUME bitmap \in BitmapType, NEW v \in Seq(BlockIds), IsInjective(v),
           \A b \in Range(v) : b - AreaStart \in Ones(bitmap)
    PROVE  /\ Freed(v) \in BitmapType
           /\ Ones(Freed(v)) = Ones(bitmap) \ {b - AreaStart : b \in Range(v)}
<1>1. PICK f : DeallocLoop(f, v) /\ Freed(v) = f[Len(v)]
  BY FreedIsLoop, Zenon
<1> DEFINE Gone(m) == {v[j] - AreaStart : j \in 1..m}
           T == {m \in Nat : m <= Len(v) => f[m] \in BitmapType /\ Ones(f[m]) = Ones(bitmap) \ Gone(m)}
<1>2. 0 \in T
  <2>1. Gone(0) = {} /\ f[0] = bitmap
    BY <1>1 DEF DeallocLoop
  <2> QED BY <2>1
<1>3. ASSUME NEW m \in Nat, m \in T PROVE m + 1 \in T
  <2> SUFFICES ASSUME m + 1 <= Len(v)
               PROVE  f[m + 1] \in BitmapType /\ Ones(f[m + 1]) = Ones(bitmap) \ Gone(m + 1)
    OBVIOUS
  <2> DEFINE x == v[m + 1] - AreaStart
  <2>1. f[m] \in BitmapType /\ Ones(f[m]) = Ones(bitmap) \ Gone(m)
    BY <1>3
  <2>2. f[m + 1] = dealloc(f[m], x)
    BY <1>1, Zenon DEF DeallocLoop
  <2>3. m + 1 \in DOMAIN v /\ \A j \in 1..m : j \in DOMAIN v /\ j # m + 1
    OBVIOUS
  <2>4. v[m + 1] \in Range(v)
    BY <2>3, Zenon DEF Range
  <2>5. \A j \in 1..m : v[j] # v[m + 1]
    BY <2>3, Zenon DEF IsInjective
  <2>6. AreaStart \in Int /\ \A j \in DOMAIN v : v[j] \in Int
    BY DiskSizes
  <2>7. x \notin Gone(m)
    BY <2>5, <2>6
  <2>8. Gone(m + 1) = Gone(m) \cup {x}
    <3>1. 1..(m + 1) = 1..m \cup {m + 1}
      OBVIOUS
    <3> QED BY <3>1, Zenon
  <2> HIDE DEF x, Gone
  <2>9. x \in Ones(f[m])
    BY <2>1, <2>4, <2>7, Zenon DEF x
  <2>10. f[m + 1] \in BitmapType /\ Ones(f[m + 1]) = Ones(f[m]) \ {x}
    BY <2>1, <2>2, <2>9, DeallocFacts, Zenon
  <2> QED BY <2>1, <2>8, <2>10, Zenon
<1> HIDE DEF T
<1>4. Nat \subseteq T
  BY <1>2, <1>3, SetInduction, Zenon
<1>5. Len(v) \in Nat /\ Len(v) <= Len(v) /\ 1..Len(v) = DOMAIN v
  OBVIOUS
<1>6. f[Len(v)] \in BitmapType /\ Ones(f[Len(v)]) = Ones(bitmap) \ Gone(Len(v))
  BY <1>4 DEF T
<1>7. Gone(Len(v)) = {b - AreaStart : b \in Range(v)}
  BY <1>5, Zenon DEF Range
<1> QED BY <1>1, <1>6, <1>7, Zenon

-----------------------------------------------------------------------------
(* The inductive invariant.                                                *)

HeldBy(ino, dev) == Blocks(ino, dev, _data_blocks(ino.size))

\* A file is one that its index can name, with a block of the data area at each place and
\* no block at two.
FileInv(ino, dev) ==
    /\ ino \in InodeType
    /\ _data_blocks(ino.size) <= D + N + N * N
    /\ Distinct(ino, dev, _data_blocks(ino.size))
    /\ HeldBy(ino, dev) \subseteq AreaStart..(AreaStart + maximum - 1)

AllHeld == UNION {HeldBy(inode[i], index) : i \in Inode}

\* No two files share a block, and the bits that are set are those of the blocks held.
IInv ==
    /\ DOMAIN inode = Inode /\ inode = [i \in Inode |-> inode[i]]
    /\ index \in IndexType /\ bitmap \in BitmapType
    /\ StopsOnlyAtLimits
    /\ \A i \in Inode : FileInv(inode[i], index)
    /\ \A i, j \in Inode : i # j => HeldBy(inode[i], index) \cap HeldBy(inode[j], index) = {}
    /\ Ones(bitmap) = {b - AreaStart : b \in AllHeld}

\* A file of no bytes has no places.
LEMMA NoSlots == Slots(0) = {}
<1>1. D \in Nat /\ N \in Nat \ {0}
  BY IndexSizes
<1>2. \A s : ~HasTable(0, -3 - s)
  BY <1>1, NoTables
<1> QED BY <1>1, <1>2 DEF Slots

\* A file of no bytes holds nothing.
LEMMA EmptyFile ==
    ASSUME NEW ino \in InodeType, NEW dev, ino.size = 0
    PROVE  HeldBy(ino, dev) = {} /\ FileInv(ino, dev)
<1>1. _data_blocks(ino.size) = 0
  BY DataBlocksMono
<1>2. HeldBy(ino, dev) = {}
  BY <1>1, NoSlots, Zenon DEF HeldBy, Blocks
<1>3. Distinct(ino, dev, 0)
  BY NoSlots, Zenon DEF Distinct
<1>4. 0 <= D + N + N * N
  BY IndexSizes
<1> QED BY <1>1, <1>2, <1>3, <1>4, Zenon DEF FileInv

\* A file none of whose blocks changes is the same file.
LEMMA StaysHeld ==
    ASSUME NEW ino, NEW dev, NEW dev2, FileInv(ino, dev), \A b \in HeldBy(ino, dev) : dev2[b] = dev[b]
    PROVE  /\ \A s \in Slots(_data_blocks(ino.size)) : At(ino, dev2, s) = At(ino, dev, s)
           /\ HeldBy(ino, dev2) = HeldBy(ino, dev) /\ FileInv(ino, dev2)
<1> DEFINE n == _data_blocks(ino.size)
<1>1. n \in Nat
  BY DataBlocks DEF FileInv, InodeType
<1>2. \A b \in Blocks(ino, dev, n) : dev2[b] = dev[b]
  BY Zenon DEF HeldBy
<1>3. \A s \in Slots(n) : At(ino, dev2, s) = At(ino, dev, s)
  BY <1>1, <1>2, FileStays, Zenon
<1>4. HeldBy(ino, dev2) = HeldBy(ino, dev)
  BY <1>3, Zenon DEF HeldBy, Blocks
<1>5. Distinct(ino, dev2, n)
  BY <1>3, Zenon DEF FileInv, Distinct
<1> QED BY <1>3, <1>4, <1>5, Zenon DEF FileInv

\* What total_blocks says, of the number of data blocks.
LEMMA TotalBlocks ==
    ASSUME NEW size
    PROVE  total_blocks(size) = Total(_data_blocks(size))
BY Zenon DEF total_blocks, Total, Tables

\* The blocks of a file are set in the bitmap.
LEMMA HeldIsSet ==
    ASSUME IInv, NEW i \in Inode, NEW b \in HeldBy(inode[i], index)
    PROVE  b \in Nat /\ AreaStart <= b /\ b \in BlockIds /\ b - AreaStart \in Ones(bitmap)
<1>1. b \in AreaStart..(AreaStart + maximum - 1)
  BY Zenon DEF IInv, FileInv
<1>2. b \in AllHeld
  BY Zenon DEF AllHeld
<1>3. b - AreaStart \in Ones(bitmap)
  BY <1>2, Zenon DEF IInv
<1> QED BY <1>1, <1>3, DiskSizes

\* What increase_size does to file i with the blocks and the bitmap of g.
GrowsTo(i, size, g, st) ==
    /\ st.used = Len(g.ids) /\ st.index \in IndexType /\ st.ino.size = size
    /\ FileInv(st.ino, st.index)
    /\ Grown(inode[i], index, _data_blocks(inode[i].size),
             st.ino, st.index, _data_blocks(size), Range(g.ids))
    /\ HeldBy(st.ino, st.index) = HeldBy(inode[i], index) \cup Range(g.ids)
    /\ \A j \in Inode : Range(g.ids) \cap HeldBy(inode[j], index) = {}
    /\ \A j \in Inode \ {i} : \A b \in HeldBy(inode[j], index) : st.index[b] = index[b]
    /\ g.bitmap \in BitmapType
    /\ Ones(g.bitmap) = Ones(bitmap) \cup {x - AreaStart : x \in Range(g.ids)}

\* increase_size is given as many blocks as it takes; they go to the new places of the file,
\* and the other files keep theirs.
LEMMA GrowStep ==
    ASSUME IInv, NEW i \in Inode, NEW size \in Nat, size >= inode[i].size,
           _data_blocks(size) <= D + N + N * N,
           NEW g \in AllocData[blocks_num_needed(inode[i], size)]
    PROVE  GrowsTo(i, size, g, Increased(inode[i], size, g.ids))
<1> DEFINE ino == inode[i]
           n0 == _data_blocks(ino.size)
           n == _data_blocks(size)
           new == g.ids
           st == Increased(ino, size, new)
<1>1. FileInv(ino, index) /\ index \in IndexType /\ bitmap \in BitmapType
  BY Zenon DEF IInv
<1>2. ino \in InodeType /\ ino.size \in Nat /\ Distinct(ino, index, n0)
  BY <1>1 DEF FileInv, InodeType
<1>3. n0 \in Nat /\ n \in Nat /\ n0 <= n
  BY <1>2, DataBlocks, DataBlocksMono
<1>4. blocks_num_needed(ino, size) = Total(n) - Total(n0)
  BY TotalBlocks, Zenon DEF blocks_num_needed
<1>5. Total(n) - Total(n0) \in Nat
  <2>1. Total(n) \in Nat /\ Total(n0) \in Nat
    BY <1>3, TotalStep
  <2>2. Total(n0) <= Total(n)
    BY <1>3, TotalMono
  <2> QED BY <2>1, <2>2
<1> DEFINE m == Total(n) - Total(n0)
<1>6. Taken(g, m)
  <2>1. m \in Nat /\ g \in AllocData[m]
    BY <1>4, <1>5
  <2> HIDE DEF m
  <2> QED BY <1>1, <2>1, AllocDataTakes, Zenon
<1>7. /\ new \in Seq(BlockIds) /\ Len(new) = m /\ IsInjective(new) /\ g.bitmap \in BitmapType
      /\ Ones(g.bitmap) = Ones(bitmap) \cup {x - AreaStart : x \in Range(new)}
      /\ \A x \in Range(new) : AreaStart <= x /\ x - AreaStart \notin Ones(bitmap)
  BY <1>6, Zenon DEF Taken
<1> USE <1>7
<1>8. \A j \in Inode : Range(new) \cap HeldBy(inode[j], index) = {}
  BY HeldIsSet, Zenon
<1>9. Range(new) \cap Blocks(ino, index, n0) = {}
  BY <1>8, Zenon DEF HeldBy
<1>10. /\ Reached(ino, size, new, n0, st, n, Len(new))
       /\ Part(new, 0, Len(new)) = Range(new)
  <2> HIDE DEF st
  <2>2. n0 = _data_blocks(ino.size) /\ n = _data_blocks(size)
    OBVIOUS
  <2> HIDE DEF ino, n0, n, new
  <2> QED BY <1>1, <1>2, <1>3, <1>9, <2>2, IncreasedGrows, Zenon DEF st
<1> HIDE DEF st
<1>11. /\ st \in StateType /\ st.used = Len(new) /\ st.ino.size = size
       /\ Grown(ino, index, n0, st.ino, st.index, n, Range(new))
  BY <1>10, Zenon DEF Reached
<1> USE <1>11
<1>12. st.ino \in InodeType /\ st.index \in IndexType
  BY DEF StateType
<1>13. Distinct(st.ino, st.index, n) /\ Blocks(st.ino, st.index, n) = Blocks(ino, index, n0) \cup Range(new)
  <2>1. /\ Grown(ino, index, n0, st.ino, st.index, n, Range(new)) /\ Distinct(ino, index, n0)
        /\ Range(new) \cap Blocks(ino, index, n0) = {}
    BY <1>2, <1>9, Zenon
  <2> HIDE DEF ino, n0, n, new
  <2> QED BY <2>1, GrownBlocks, SMTT(20)
<1>14. HeldBy(st.ino, st.index) = HeldBy(ino, index) \cup Range(new)
  BY <1>13, Zenon DEF HeldBy
<1>15. Range(new) \subseteq AreaStart..(AreaStart + maximum - 1)
  <2>1. \A x \in Range(new) : x \in BlockIds
    <3>1. new \in Seq(BlockIds)
      BY Zenon
    <3> HIDE DEF new
    <3> QED BY ONLY <3>1 DEF Range
  <2> QED BY <2>1, InArea, Zenon
<1>16. FileInv(st.ino, st.index)
  <2>1. HeldBy(ino, index) \subseteq AreaStart..(AreaStart + maximum - 1)
    BY <1>1, Zenon DEF FileInv
  <2> QED BY <1>12, <1>13, <1>14, <1>15, <2>1, Zenon DEF FileInv
<1>17. ASSUME NEW j \in Inode \ {i}, NEW b \in HeldBy(inode[j], index)
       PROVE  st.index[b] = index[b]
  <2>1. b \in BlockIds
    BY HeldIsSet, Zenon
  <2>2. b \notin HeldBy(ino, index)
    BY Zenon DEF IInv
  <2>3. b \notin Range(new)
    BY <1>8, Zenon
  <2>4. b \notin Blocks(st.ino, st.index, n)
    BY <1>13, <2>2, <2>3, Zenon DEF HeldBy
  <2> QED BY <2>1, <2>4, Zenon DEF Grown
<1>18. st = Increased(inode[i], size, g.ids)
  BY Zenon DEF st
<1> QED BY <1>8, <1>12, <1>14, <1>16, <1>17, <1>18, Zenon DEF GrowsTo

\* What clear gives back and how it leaves the bitmap.
LEMMA ClearStep ==
    ASSUME IInv, NEW i \in Inode, NEW v, v = Released(inode[i])
    PROVE  /\ Len(v) = total_blocks(inode[i].size) /\ IsInjective(v)
           /\ Range(v) = HeldBy(inode[i], index)
           /\ \A b \in Range(v) : AreaStart <= b /\ IsSet(bitmap, b - AreaStart)
           /\ Freed(v) \in BitmapType
           /\ Ones(Freed(v)) = Ones(bitmap) \ {b - AreaStart : b \in Range(v)}
<1> DEFINE ino == inode[i]
           n == _data_blocks(ino.size)
<1>1. FileInv(ino, index) /\ bitmap \in BitmapType
  BY Zenon DEF IInv
<1>2. n \in Nat /\ Distinct(ino, index, n)
  BY <1>1, DataBlocks DEF FileInv, InodeType
<1>3. Lists(v, Total(n), ino, index, Slots(n))
  BY <1>2, ReleasedLists, Zenon
<1>4. /\ Len(v) = Total(n) /\ IsInjective(v) /\ v \in Seq(Range(v))
      /\ Range(v) = HeldBy(ino, index)
  BY <1>3, Zenon DEF Lists, HeldBy, Blocks
<1> USE <1>4
<1>5. \A b \in Range(v) : b \in BlockIds /\ AreaStart <= b /\ b - AreaStart \in Ones(bitmap)
  BY HeldIsSet, Zenon
<1> USE <1>5
<1>6. \A b \in Range(v) : IsSet(bitmap, b - AreaStart)
  BY <1>1, DeallocFacts, Zenon
<1>7. v \in Seq(BlockIds)
  OBVIOUS
<1>8. /\ Freed(v) \in BitmapType
      /\ Ones(Freed(v)) = Ones(bitmap) \ {b - AreaStart : b \in Range(v)}
  BY <1>1, <1>7, FreedClears, Zenon
<1>9. Len(v) = total_blocks(ino.size)
  BY TotalBlocks, Zenon
<1> QED BY <1>6, <1>8, <1>9, Zenon

\* The outcomes of increase_size: the file grows, or the kernel stops at a limit.
Grows(i, size) ==
    \E g, st :
        /\ GrowsTo(i, size, g, st)
        /\ inode' = [inode EXCEPT ![i] = st.ino] /\ index' = st.index
        /\ bitmap' = g.bitmap /\ panic' = "no"
Limit ==
    /\ UNCHANGED <<inode, index, bitmap>>
    /\ panic' \in {"no", "bitmap full", "index of an indirect block"}

\* increase_size never runs out of new blocks.
LEMMA GrowOutcome ==
    ASSUME IInv, NEW i \in Inode, NEW size \in Nat, increase_size(i, size)
    PROVE  Grows(i, size) \/ Limit
<1> DEFINE got == AllocData[blocks_num_needed(inode[i], size)]
<1>1. size >= inode[i].size
  BY Zenon DEF increase_size
<1>2. CASE got = {}
  <2>1. Stops("bitmap full")
    BY <1>2, Zenon DEF increase_size
  <2> QED BY <2>1, Zenon DEF Stops, Limit
<1>3. CASE got # {} /\ _data_blocks(size) > INDIRECT1_BOUND + INODE_INDIRECT2_COUNT
  <2>1. Stops("index of an indirect block")
    BY <1>3, Zenon DEF increase_size
  <2> QED BY <2>1, Zenon DEF Stops, Limit
<1>4. CASE got # {} /\ ~(_data_blocks(size) > INDIRECT1_BOUND + INODE_INDIRECT2_COUNT)
  <2>1. PICK g \in got :
            LET st == Increased(inode[i], size, g.ids) IN
            IF st.used > Len(g.ids) THEN Stops("no more new blocks")
            ELSE /\ inode' = [inode EXCEPT ![i] = st.ino] /\ index' = st.index
                 /\ bitmap' = g.bitmap /\ panic' = "no"
    BY <1>4, Zenon DEF increase_size
  <2> DEFINE st == Increased(inode[i], size, g.ids)
  <2>2. _data_blocks(size) <= D + N + N * N
    <3> DEFINE m == _data_blocks(size)
               z == INDIRECT1_BOUND + INODE_INDIRECT2_COUNT
    <3>1. m \in Nat /\ z \in Nat /\ z = D + N + N * N
      <4>1. m \in Nat
        BY DataBlocks, Zenon
      <4>2. z \in Nat /\ z = D + N + N * N
        BY IndexSizes
      <4> QED BY <4>1, <4>2, Zenon
    <3>2. ~(m > z)
      BY <1>4
    <3> HIDE DEF m, z
    <3>3. m <= z
      BY <3>1, <3>2
    <3> QED BY <3>1, <3>3, Zenon DEF m
  <2>3. GrowsTo(i, size, g, st)
    BY <1>1, <2>2, GrowStep, Zenon
  <2> HIDE DEF st
  <2>4. st.used = Len(g.ids) /\ g.ids \in Seq(BlockIds)
    <3>1. st.used = Len(g.ids)
      BY <2>3, Zenon DEF GrowsTo
    <3>2. blocks_num_needed(inode[i], size) \in Nat
      <4>1. inode[i].size \in Nat
        BY DEF IInv, FileInv, InodeType
      <4>2. /\ _data_blocks(size) \in Nat /\ _data_blocks(inode[i].size) \in Nat
            /\ _data_blocks(inode[i].size) <= _data_blocks(size)
        BY <1>1, <4>1, DataBlocks, DataBlocksMono
      <4>3. /\ Total(_data_blocks(size)) \in Nat /\ Total(_data_blocks(inode[i].size)) \in Nat
            /\ Total(_data_blocks(inode[i].size)) <= Total(_data_blocks(size))
        BY <4>2, TotalStep, TotalMono
      <4>4. blocks_num_needed(inode[i], size)
              = Total(_data_blocks(size)) - Total(_data_blocks(inode[i].size))
        BY TotalBlocks, Zenon DEF blocks_num_needed
      <4> QED BY <4>3, <4>4
    <3>3. Taken(g, blocks_num_needed(inode[i], size))
      BY <3>2, AllocDataTakes, Zenon DEF IInv
    <3> QED BY <3>1, <3>3, Zenon DEF Taken
  <2>5. ~(st.used > Len(g.ids))
    BY <2>4
  <2>6. /\ inode' = [inode EXCEPT ![i] = st.ino] /\ index' = st.index
        /\ bitmap' = g.bitmap /\ panic' = "no"
    BY <2>1, <2>5, Zenon DEF st
  <2> QED BY <2>3, <2>6, Zenon DEF Grows
<1> QED BY <1>2, <1>3, <1>4, Zenon

\* The outcome of clear: the file is empty and its blocks are free and zero.
Clears(i) ==
    \E ino :
        /\ ino \in InodeType /\ ino.size = 0
        /\ inode' = [inode EXCEPT ![i] = ino]
        /\ index' = [b \in BlockIds |-> IF b \in HeldBy(inode[i], index) THEN EmptyIndex ELSE index[b]]
        /\ bitmap' \in BitmapType
        /\ Ones(bitmap') = Ones(bitmap) \ {b - AreaStart : b \in HeldBy(inode[i], index)}
        /\ panic' = "no"

\* clear passes every assertion on its way.
LEMMA ClearOutcome ==
    ASSUME IInv, NEW i \in Inode, clear(i)
    PROVE  Clears(i)
<1> DEFINE v == Released(inode[i])
           n == _data_blocks(inode[i].size)
           ino == [size |-> 0,
                   direct |-> [k \in DOMAIN inode[i].direct |->
                                IF k < n THEN 0 ELSE inode[i].direct[k]],
                   indirect1 |-> IF n > INODE_DIRECT_COUNT THEN 0 ELSE inode[i].indirect1,
                   indirect2 |-> IF n > INDIRECT1_BOUND THEN 0 ELSE inode[i].indirect2]
<1>1. /\ Len(v) = total_blocks(inode[i].size) /\ IsInjective(v)
      /\ Range(v) = HeldBy(inode[i], index)
      /\ \A b \in Range(v) : AreaStart <= b /\ IsSet(bitmap, b - AreaStart)
      /\ Freed(v) \in BitmapType
      /\ Ones(Freed(v)) = Ones(bitmap) \ {b - AreaStart : b \in Range(v)}
  BY ClearStep, Zenon
<1>2. inode[i] \in InodeType /\ n <= D + N + N * N /\ n \in Nat
  BY DataBlocks DEF IInv, FileInv, InodeType
<1>3. ~(n > INDIRECT1_BOUND + INODE_INDIRECT2_COUNT)
  BY <1>2, IndexSizes
<1>4. \A b \in Range(v) : ~(b < AreaStart)
  <2>1. \A b \in Range(v) : b \in BlockIds
    BY <1>1, HeldIsSet, Zenon
  <2> QED BY <1>1, <2>1, InArea, Zenon
<1>5. ~(\/ ~IsInjective(v)
        \/ \E b \in Range(v) : b < AreaStart \/ ~IsSet(bitmap, b - AreaStart))
  BY <1>1, <1>4, Zenon
<1>6. /\ inode' = [inode EXCEPT ![i] = ino]
      /\ index' = [b \in BlockIds |-> IF b \in Range(v) THEN EmptyIndex ELSE index[b]]
      /\ bitmap' = Freed(v) /\ panic' = "no"
  <2>1. IF n > INDIRECT1_BOUND + INODE_INDIRECT2_COUNT THEN Stops("size of the file")
        ELSE IF Len(v) # total_blocks(inode[i].size) THEN Stops("blocks to deallocate")
        ELSE IF \/ ~IsInjective(v)
                \/ \E b \in Range(v) : b < AreaStart \/ ~IsSet(bitmap, b - AreaStart)
        THEN Stops("dealloc of a free block")
        ELSE /\ inode' = [inode EXCEPT ![i] = 
                  [size |-> 0,
                   direct |-> [k \in DOMAIN @.direct |-> IF k < n THEN 0 ELSE @.direct[k]],
                   indirect1 |-> IF n > INODE_DIRECT_COUNT THEN 0 ELSE @.indirect1,
                   indirect2 |-> IF n > INDIRECT1_BOUND THEN 0 ELSE @.indirect2]]
             /\ index' = [b \in BlockIds |-> IF b \in Range(v) THEN EmptyIndex ELSE index[b]]
             /\ bitmap' = Freed(v)
             /\ panic' = "no"
    BY Zenon DEF clear, Freed
  <2> HIDE DEF v, n
  <2> QED BY <1>1, <1>3, <1>5, <2>1, Zenon
<1>7. ino \in InodeType /\ ino.size = 0
  <2>1. 0 \in BlockIds
    BY DiskSizes
  <2> HIDE DEF n
  <2> QED BY <1>2, <2>1, Zenon DEF InodeType
<1> HIDE DEF ino, v
<1> QED BY <1>1, <1>6, <1>7, Zenon DEF Clears

\* At the start all files are empty and all bits clear.
LEMMA InitInv == Init => IInv
<1> SUFFICES ASSUME Init PROVE IInv
  OBVIOUS
<1>1. 0 \in BlockIds /\ D \in Nat /\ Entries = 0..(N - 1) /\ INODE_DIRECT_COUNT = D
  BY DiskSizes, IndexSizes
<1>2. initialize \in InodeType /\ initialize.size = 0
  BY <1>1 DEF initialize, InodeType
<1>3. \A i \in Inode : inode[i] = initialize
  BY Zenon DEF Init
<1>4. \A i \in Inode : HeldBy(inode[i], index) = {} /\ FileInv(inode[i], index)
  BY <1>2, <1>3, EmptyFile, Zenon
<1>5. index \in IndexType
  BY <1>1 DEF Init, IndexType, EmptyIndex
<1>6. bitmap \in BitmapType /\ Ones(bitmap) = {}
  BY DEF Init, ClearBitmap, BitmapType, Ones
<1>7. AllHeld = {}
  BY <1>4, Zenon DEF AllHeld
<1>8. DOMAIN inode = Inode /\ inode = [i \in Inode |-> inode[i]]
  BY DEF Init
<1>9. StopsOnlyAtLimits
  BY DEF Init, StopsOnlyAtLimits
<1>10. Ones(bitmap) = {b - AreaStart : b \in AllHeld}
  BY <1>6, <1>7, Zenon
<1> QED BY <1>4, <1>5, <1>6, <1>8, <1>9, <1>10, Zenon DEF IInv

\* The bits of the blocks h[j] of all files j, those of file i first.
LEMMA BitsByFile ==
    ASSUME NEW i \in Inode, NEW h
    PROVE  {b - AreaStart : b \in UNION {h[j] : j \in Inode}}
             = {b - AreaStart : b \in h[i]}
                 \cup UNION {{b - AreaStart : b \in h[j]} : j \in Inode \ {i}}
<1> DEFINE P(j) == {b - AreaStart : b \in h[j]}
<1>1. ASSUME NEW x \in {b - AreaStart : b \in UNION {h[j] : j \in Inode}}
      PROVE  \E j \in Inode : x \in P(j)
  <2>1. PICK b \in UNION {h[j] : j \in Inode} : x = b - AreaStart
    BY Zenon
  <2>2. PICK j \in Inode : b \in h[j]
    BY Zenon
  <2> QED BY Zenon
<1>2. ASSUME NEW j \in Inode, NEW x \in P(j)
      PROVE  x \in {b - AreaStart : b \in UNION {h[k] : k \in Inode}}
  <2>1. PICK b \in h[j] : x = b - AreaStart
    BY Zenon
  <2> QED BY Zenon
<1> HIDE DEF P
<1>4. {b - AreaStart : b \in UNION {h[j] : j \in Inode}} = P(i) \cup UNION {P(j) : j \in Inode \ {i}}
  BY <1>1, <1>2, Zenon
<1> QED BY <1>4, Zenon DEF P

\* A step that changes one file, to hold X, and moves no block of another.
LEMMA OneFileChanges ==
    ASSUME IInv, NEW i \in Inode, NEW ino, inode' = [inode EXCEPT ![i] = ino],
           index' \in IndexType, bitmap' \in BitmapType, panic' = "no", FileInv(ino, index'),
           \A j \in Inode \ {i} : \A b \in HeldBy(inode[j], index) : index'[b] = index[b],
           \A j \in Inode \ {i} : HeldBy(ino, index') \cap HeldBy(inode[j], index) = {},
           Ones(bitmap') = {b - AreaStart : b \in HeldBy(ino, index')}
                             \cup UNION {{b - AreaStart : b \in HeldBy(inode[j], index)} :
                                            j \in Inode \ {i}}
    PROVE  /\ IInv'
           /\ \A j \in Inode \ {i} :
                /\ HeldBy(inode[j], index') = HeldBy(inode[j], index)
                /\ \A s \in Slots(_data_blocks(inode[j].size)) :
                        At(inode[j], index', s) = At(inode[j], index, s)
<1>1. DOMAIN inode = Inode
  BY Zenon DEF IInv
<1>2. /\ DOMAIN inode' = Inode /\ inode' = [j \in Inode |-> inode'[j]]
      /\ inode'[i] = ino /\ \A j \in Inode \ {i} : inode'[j] = inode[j]
  BY <1>1, Zenon
<1>3. \A j \in Inode \ {i} :
        /\ \A s \in Slots(_data_blocks(inode[j].size)) :
                At(inode[j], index', s) = At(inode[j], index, s)
        /\ HeldBy(inode[j], index') = HeldBy(inode[j], index) /\ FileInv(inode[j], index')
  <2> TAKE j \in Inode \ {i}
  <2>1. FileInv(inode[j], index)
    BY Zenon DEF IInv
  <2> QED BY <2>1, StaysHeld, Zenon
<1>4. \A j \in Inode : FileInv(inode'[j], index')
  <2> TAKE j \in Inode
  <2>1. CASE j = i
    BY <1>2, <2>1, Zenon
  <2>2. CASE j # i
    BY <1>2, <1>3, Zenon
  <2> QED BY <2>1, <2>2
<1> DEFINE H(j) == HeldBy(inode'[j], index')
<1>5. H(i) = HeldBy(ino, index') /\ \A j \in Inode \ {i} : H(j) = HeldBy(inode[j], index)
  BY <1>2, <1>3, Zenon
<1>6. \A j, k \in Inode \ {i} : j # k => HeldBy(inode[j], index) \cap HeldBy(inode[k], index) = {}
  BY Zenon DEF IInv
<1> HIDE DEF H
<1>7. \A j, k \in Inode : j # k => H(j) \cap H(k) = {}
  <2> TAKE j, k \in Inode
  <2> HAVE j # k
  <2>1. CASE j = i
    BY <1>5, <2>1, Zenon
  <2>2. CASE k = i
    <3>1. H(i) \cap H(j) = {}
      BY <1>5, <2>2, Zenon
    <3> QED BY <2>2, <3>1, Zenon
  <2>3. CASE j # i /\ k # i
    BY <1>5, <1>6, <2>3, Zenon
  <2> QED BY <2>1, <2>2, <2>3, Zenon
<1>8. Ones(bitmap') = {b - AreaStart : b \in UNION {H(j) : j \in Inode}}
  <2>1. {b - AreaStart : b \in UNION {H(j) : j \in Inode}}
          = {b - AreaStart : b \in H(i)}
              \cup UNION {{b - AreaStart : b \in H(j)} : j \in Inode \ {i}}
    <3> DEFINE h == [j \in Inode |-> H(j)]
    <3>1. \A j \in Inode : h[j] = H(j)
      BY Zenon
    <3> HIDE DEF h
    <3>2. {h[j] : j \in Inode} = {H(j) : j \in Inode}
      BY <3>1, Zenon
    <3>3. {{b - AreaStart : b \in h[j]} : j \in Inode \ {i}}
            = {{b - AreaStart : b \in H(j)} : j \in Inode \ {i}}
      BY <3>1, Zenon
    <3>4. {b - AreaStart : b \in UNION {h[j] : j \in Inode}}
            = {b - AreaStart : b \in h[i]}
                \cup UNION {{b - AreaStart : b \in h[j]} : j \in Inode \ {i}}
      BY BitsByFile, ZenonT(30)
    <3>5. h[i] = H(i)
      BY <3>1, Zenon
    <3> QED BY <3>2, <3>3, <3>4, <3>5, Zenon
  <2> QED BY <1>5, <2>1, Zenon
<1>9. AllHeld' = UNION {H(j) : j \in Inode}
  BY Zenon DEF AllHeld, H
<1>10. StopsOnlyAtLimits'
  BY DEF StopsOnlyAtLimits
<1>11. IInv'
  BY <1>2, <1>4, <1>7, <1>8, <1>9, <1>10, Zenon DEF IInv, H
<1> QED BY <1>3, <1>11, Zenon

\* The bits of the blocks held, file by file.
LEMMA OnesByFile ==
    ASSUME IInv, NEW i \in Inode
    PROVE  Ones(bitmap) = {b - AreaStart : b \in HeldBy(inode[i], index)}
                            \cup UNION {{b - AreaStart : b \in HeldBy(inode[j], index)} :
                                            j \in Inode \ {i}}
<1> DEFINE H(j) == HeldBy(inode[j], index)
<1> HIDE DEF H
<1>1. {b - AreaStart : b \in UNION {H(j) : j \in Inode}}
        = {b - AreaStart : b \in H(i)} \cup UNION {{b - AreaStart : b \in H(j)} : j \in Inode \ {i}}
  <2> DEFINE h == [j \in Inode |-> H(j)]
  <2>1. \A j \in Inode : h[j] = H(j)
    BY Zenon
  <2> HIDE DEF h
  <2>2. {h[j] : j \in Inode} = {H(j) : j \in Inode}
    BY <2>1, Zenon
  <2>3. {{b - AreaStart : b \in h[j]} : j \in Inode \ {i}}
          = {{b - AreaStart : b \in H(j)} : j \in Inode \ {i}}
    BY <2>1, Zenon
  <2>4. {b - AreaStart : b \in UNION {h[j] : j \in Inode}}
          = {b - AreaStart : b \in h[i]}
              \cup UNION {{b - AreaStart : b \in h[j]} : j \in Inode \ {i}}
    BY BitsByFile, Zenon
  <2>5. h[i] = H(i)
    BY <2>1, Zenon
  <2> QED BY <2>2, <2>3, <2>4, <2>5, Zenon
<1>2. Ones(bitmap) = {b - AreaStart : b \in UNION {H(j) : j \in Inode}}
  BY Zenon DEF IInv, AllHeld, H
<1> QED BY <1>1, <1>2, Zenon DEF H

\* What a step leaves of the other files: each holds the blocks it held, in its places.
OthersStay(i) ==
    \A j \in Inode \ {i} :
        /\ inode'[j] = inode[j]
        /\ HeldBy(inode[j], index') = HeldBy(inode[j], index)
        /\ \A s \in Slots(_data_blocks(inode[j].size)) : At(inode[j], index', s) = At(inode[j], index, s)

\* increase_size keeps the invariant.
LEMMA GrowInv ==
    ASSUME IInv, NEW i \in Inode, NEW size, Grows(i, size)
    PROVE  IInv' /\ OthersStay(i)
<1>1. PICK g, st :
        /\ GrowsTo(i, size, g, st)
        /\ inode' = [inode EXCEPT ![i] = st.ino] /\ index' = st.index
        /\ bitmap' = g.bitmap /\ panic' = "no"
  BY Zenon DEF Grows
<1> DEFINE new == Range(g.ids)
<1>2. index' \in IndexType /\ bitmap' \in BitmapType /\ FileInv(st.ino, index')
  BY <1>1, Zenon DEF GrowsTo
<1>3. HeldBy(st.ino, index') = HeldBy(inode[i], index) \cup new
  BY <1>1, Zenon DEF GrowsTo
<1>4. \A j \in Inode \ {i} : \A b \in HeldBy(inode[j], index) : index'[b] = index[b]
  BY <1>1, Zenon DEF GrowsTo
<1>5. \A j \in Inode \ {i} : HeldBy(st.ino, index') \cap HeldBy(inode[j], index) = {}
  <2> TAKE j \in Inode \ {i}
  <2>1. new \cap HeldBy(inode[j], index) = {}
    BY <1>1, Zenon DEF GrowsTo
  <2>2. HeldBy(inode[i], index) \cap HeldBy(inode[j], index) = {}
    BY Zenon DEF IInv
  <2> QED BY <1>3, <2>1, <2>2, Zenon
<1> DEFINE others == UNION {{b - AreaStart : b \in HeldBy(inode[j], index)} : j \in Inode \ {i}}
<1>6. Ones(bitmap') = {b - AreaStart : b \in HeldBy(st.ino, index')} \cup others
  <2>1. Ones(bitmap') = Ones(bitmap) \cup {x - AreaStart : x \in new}
    BY <1>1, Zenon DEF GrowsTo
  <2>2. Ones(bitmap) = {b - AreaStart : b \in HeldBy(inode[i], index)} \cup others
    BY OnesByFile, Zenon
  <2> HIDE DEF others, new
  <2>3. {b - AreaStart : b \in HeldBy(st.ino, index')}
          = {b - AreaStart : b \in HeldBy(inode[i], index)} \cup {x - AreaStart : x \in new}
    BY <1>3, Zenon
  <2> QED BY <2>1, <2>2, <2>3, Zenon
<1>7. /\ IInv'
      /\ \A j \in Inode \ {i} :
            /\ HeldBy(inode[j], index') = HeldBy(inode[j], index)
            /\ \A s \in Slots(_data_blocks(inode[j].size)) :
                    At(inode[j], index', s) = At(inode[j], index, s)
  BY <1>1, <1>2, <1>4, <1>5, <1>6, OneFileChanges, Zenon
<1>8. \A j \in Inode \ {i} : inode'[j] = inode[j]
  <2> QED BY <1>1
<1> QED BY <1>7, <1>8, Zenon DEF OthersStay

\* clear keeps the invariant.
LEMMA ClearInv ==
    ASSUME IInv, NEW i \in Inode, Clears(i)
    PROVE  IInv' /\ OthersStay(i) /\ HeldBy(inode'[i], index') = {} /\ inode'[i].size = 0
<1>1. PICK ino :
        /\ ino \in InodeType /\ ino.size = 0
        /\ inode' = [inode EXCEPT ![i] = ino]
        /\ index' = [b \in BlockIds |-> IF b \in HeldBy(inode[i], index) THEN EmptyIndex ELSE index[b]]
        /\ bitmap' \in BitmapType
        /\ Ones(bitmap') = Ones(bitmap) \ {b - AreaStart : b \in HeldBy(inode[i], index)}
        /\ panic' = "no"
  BY Zenon DEF Clears
<1>2. index' \in IndexType
  <2>1. EmptyIndex \in [Entries -> BlockIds]
    BY DiskSizes DEF EmptyIndex
  <2>2. index \in IndexType
    BY Zenon DEF IInv
  <2> QED BY <1>1, <2>1, <2>2, Zenon DEF IndexType
<1>3. HeldBy(ino, index') = {} /\ FileInv(ino, index')
  BY <1>1, EmptyFile, Zenon
<1>4. \A j \in Inode \ {i} : \A b \in HeldBy(inode[j], index) : index'[b] = index[b]
  <2> TAKE j \in Inode \ {i}
  <2> TAKE b \in HeldBy(inode[j], index)
  <2>1. b \in BlockIds
    BY HeldIsSet, Zenon
  <2>2. b \notin HeldBy(inode[i], index)
    BY Zenon DEF IInv
  <2> QED BY <1>1, <2>1, <2>2, Zenon
<1> DEFINE bits(j) == {b - AreaStart : b \in HeldBy(inode[j], index)}
<1>6. Ones(bitmap') = {b - AreaStart : b \in HeldBy(ino, index')} \cup UNION {bits(j) : j \in Inode \ {i}}
  <2>1. Ones(bitmap) = bits(i) \cup UNION {bits(j) : j \in Inode \ {i}}
    BY OnesByFile, Zenon
  <2>2. ASSUME NEW j \in Inode \ {i} PROVE bits(j) \cap bits(i) = {}
    <3> SUFFICES ASSUME NEW b \in HeldBy(inode[j], index), NEW c \in HeldBy(inode[i], index),
                        b - AreaStart = c - AreaStart
                 PROVE  FALSE
      BY Zenon
    <3>1. b \in Nat /\ c \in Nat
      BY HeldIsSet, Zenon
    <3>2. b = c
      BY <3>1, DiskSizes
    <3> QED BY <3>2, Zenon DEF IInv
  <2>3. {b - AreaStart : b \in HeldBy(ino, index')} = {}
    BY <1>3, Zenon
  <2>4. Ones(bitmap') = Ones(bitmap) \ bits(i)
    BY <1>1, Zenon
  <2> HIDE DEF bits
  <2> DEFINE U == UNION {bits(j) : j \in Inode \ {i}}
  <2>5. ASSUME NEW x \in U PROVE x \notin bits(i)
    <3>1. PICK j \in Inode \ {i} : x \in bits(j)
      BY Zenon
    <3> QED BY <2>2, Zenon
  <2> HIDE DEF U
  <2>6. Ones(bitmap') = U
    BY <2>1, <2>4, <2>5, Zenon DEF U
  <2> QED BY <2>3, <2>6, Zenon DEF U
<1>7. /\ IInv'
      /\ \A j \in Inode \ {i} :
            /\ HeldBy(inode[j], index') = HeldBy(inode[j], index)
            /\ \A s \in Slots(_data_blocks(inode[j].size)) :
                    At(inode[j], index', s) = At(inode[j], index, s)
  BY <1>1, <1>2, <1>3, <1>4, <1>6, OneFileChanges, Zenon
<1>8. inode'[i] = ino /\ \A j \in Inode \ {i} : inode'[j] = inode[j]
  <2>1. DOMAIN inode = Inode
    BY Zenon DEF IInv
  <2> QED BY <1>1, <2>1
<1> QED BY <1>1, <1>3, <1>7, <1>8, Zenon DEF OthersStay

\* A step that changes no file, nor the bitmap, keeps the invariant.
LEMMA StopInv ==
    ASSUME IInv, UNCHANGED <<inode, index, bitmap>>, StopsOnlyAtLimits'
    PROVE  IInv'
<1>2. AllHeld' = AllHeld
  BY Zenon DEF AllHeld
<1> QED BY <1>2 DEF IInv

\* What a step may do.
Outcome ==
    \/ \E i \in Inode, size \in Nat : Grows(i, size)
    \/ \E i \in Inode : Clears(i)
    \/ UNCHANGED <<inode, index, bitmap>> /\ StopsOnlyAtLimits'

\* Each step has one of these outcomes, and no assertion on the way fails.
LEMMA StepOutcome ==
    ASSUME IInv, [Next]_vars
    PROVE  Outcome
<1>1. ASSUME NEW i \in Inode, clear(i) PROVE Outcome
  BY <1>1, ClearOutcome, Zenon DEF Outcome
<1>2. ASSUME NEW i \in Inode, NEW size \in Sizes[i], increase_size(i, size) PROVE Outcome
  <2>1. size \in Nat
    BY DiskInodeAssumption
  <2>2. CASE Grows(i, size)
    BY <2>1, <2>2, Zenon DEF Outcome
  <2>3. CASE Limit
    BY <2>3, Zenon DEF Outcome, Limit, StopsOnlyAtLimits
  <2> QED BY <1>2, <2>1, <2>2, <2>3, GrowOutcome, Zenon
<1>3. CASE Halted \/ UNCHANGED vars
  <2>1. inode' = inode /\ index' = index /\ bitmap' = bitmap /\ panic' = panic
    BY <1>3, Zenon DEF Halted, vars
  <2>2. StopsOnlyAtLimits'
    BY <2>1, Zenon DEF IInv, StopsOnlyAtLimits
  <2> QED BY <2>1, <2>2, Zenon DEF Outcome
<1> QED BY <1>1, <1>2, <1>3, Zenon DEF Next

\* The invariant is kept by each outcome.
LEMMA OutcomeInv ==
    ASSUME IInv, Outcome
    PROVE  IInv'
<1>1. ASSUME NEW i \in Inode, NEW size \in Nat, Grows(i, size) PROVE IInv'
  BY <1>1, GrowInv, Zenon
<1>2. ASSUME NEW i \in Inode, Clears(i) PROVE IInv'
  BY <1>2, ClearInv, Zenon
<1>3. CASE UNCHANGED <<inode, index, bitmap>> /\ StopsOnlyAtLimits'
  BY <1>3, StopInv, Zenon
<1> QED BY <1>1, <1>2, <1>3, Zenon DEF Outcome

\* The invariant holds in every state.
THEOREM Invariant == Spec => []IInv
<1>1. IInv /\ [Next]_vars => IInv'
  BY StepOutcome, OutcomeInv, Zenon
<1> QED BY <1>1, InitInv, PTL DEF Spec

\* increase_size and clear stop the kernel only when the disk is full or the file has more
\* blocks than its index can name, for every geometry of disk and index: increase_size never
\* runs out of the blocks it was given, and no assertion of clear or dealloc fails.
THEOREM OnlyLimitsStop == Spec => []StopsOnlyAtLimits
<1>1. IInv => StopsOnlyAtLimits
  BY Zenon DEF IInv
<1> QED BY <1>1, Invariant, PTL

\* Bitmap::alloc takes the lowest clear bit of every bitmap the operations reach, and dealloc
\* finds the bit that alloc numbered.
THEOREM BitmapOrdered == Spec => []BitmapInOrder
<1>1. IInv => BitmapInOrder
  BY LowestFirst, Zenon DEF IInv, BitmapInOrder
<1> QED BY <1>1, Invariant, PTL

\* What Held says of a file is the blocks at its places.
LEMMA HeldIsHeldBy ==
    ASSUME NEW ino, NEW dev, ino.size \in Nat
    PROVE  /\ Range(ListOf(ino, dev)) \cup IndexOf(ino, dev, _data_blocks(ino.size)) = HeldBy(ino, dev)
           /\ Range(ListOf(ino, dev)) \subseteq HeldBy(ino, dev)
<1>1. _data_blocks(ino.size) \in Nat
  BY DataBlocks
<1>2. Range(ListOf(ino, dev)) \cup IndexOf(ino, dev, _data_blocks(ino.size)) = HeldBy(ino, dev)
  BY <1>1, HeldAtPlaces, Zenon DEF HeldBy
<1> QED BY <1>2, Zenon

\* The bitmap is exactly the data and index blocks the files hold, no block is held twice, and
\* clear_size returns each block a file holds once, as many as total_blocks says.
THEOREM BitmapIsHeld == Spec => []HeldExactly
<1>1. IInv => HeldExactly
  <2> SUFFICES ASSUME IInv PROVE HeldExactly
    OBVIOUS
  <2>1. \A i \in Inode : Held(i) = HeldBy(inode[i], index)
    <3> TAKE i \in Inode
    <3>1. inode[i].size \in Nat
      BY DEF IInv, FileInv, InodeType
    <3>2. /\ List(i) = ListOf(inode[i], index)
          /\ Index(i) = IndexOf(inode[i], index, _data_blocks(inode[i].size))
      BY Zenon DEF List, ListOf, Index, IndexOf, Tables
    <3> QED BY <3>1, <3>2, HeldIsHeldBy, Zenon DEF Held
  <2>2. UNION {Held(i) : i \in Inode} = AllHeld
    BY <2>1, Zenon DEF AllHeld
  <2>3. Ones(bitmap) = {b - AreaStart : b \in UNION {Held(i) : i \in Inode}}
    BY <2>2, Zenon DEF IInv
  <2>4. \A i \in Inode : /\ IsInjective(Released(inode[i])) /\ Range(Released(inode[i])) = Held(i)
                         /\ Len(Released(inode[i])) = total_blocks(inode[i].size)
    BY <2>1, ClearStep, Zenon
  <2>5. \A i, j \in Inode : i # j => Held(i) \cap Held(j) = {}
    BY <2>1, Zenon DEF IInv
  <2> QED BY <2>3, <2>4, <2>5, Zenon DEF HeldExactly
<1> QED BY <1>1, Invariant, PTL

-----------------------------------------------------------------------------
(* A file is a list of blocks.                                             *)

\* The list of a file whose blocks are at their places once.
LEMMA ListFacts ==
    ASSUME NEW ino, NEW dev, FileInv(ino, dev)
    PROVE  LET n == _data_blocks(ino.size)
               l == ListOf(ino, dev)
           IN  /\ n \in Nat /\ DOMAIN l = 1..n /\ Len(l) = n /\ IsInjective(l)
               /\ \A k \in 1..n : k - 1 \in Slots(n) /\ l[k] = At(ino, dev, k - 1)
<1> DEFINE n == _data_blocks(ino.size)
           l == ListOf(ino, dev)
<1>1. n \in Nat
  BY DataBlocks DEF FileInv, InodeType
<1> USE <1>1
<1>2. l = [k \in 1..n |-> At(ino, dev, k - 1)]
  BY ListAt
<1>3. Distinct(ino, dev, n)
  BY Zenon DEF FileInv
<1> HIDE DEF n, l
<1>4. DOMAIN l = 1..n /\ \A k \in 1..n : l[k] = At(ino, dev, k - 1)
  BY <1>2, Zenon
<1>5. l \in [1..n -> Range(l)]
  BY <1>2, Zenon DEF Range
<1>6. Len(l) = n
  BY <1>5, FunctionIsSeq, Zenon
<1>7. \A k \in 1..n : k - 1 \in Slots(n)
  BY SlotFacts
<1>8. IsInjective(l)
  <2> SUFFICES ASSUME NEW j \in 1..n, NEW k \in 1..n, l[j] = l[k] PROVE j = k
    BY <1>4, Zenon DEF IsInjective
  <2>1. j - 1 = k - 1
    BY <1>3, <1>4, <1>7, Zenon DEF Distinct
  <2> QED BY <2>1
<1> QED BY <1>4, <1>6, <1>7, <1>8, Zenon DEF n, l

\* What F says of a file that grows, for the lists l and l2 and the blocks h and h2 before
\* and after.
ListGrows(l, h, l2, h2) ==
    /\ Len(l) <= Len(l2)
    /\ \A k \in DOMAIN l : l2[k] = l[k]
    /\ h \subseteq h2
    /\ (h2 \ h) \cap AllHeld = {}
    /\ Range(l2) \ Range(l) \subseteq h2 \ h
    /\ IsInjective(l2)

\* increase_size appends blocks that no file held.
LEMMA GrowsList ==
    ASSUME IInv, IInv', NEW i \in Inode, NEW size \in Nat, Grows(i, size)
    PROVE  ListGrows(ListOf(inode[i], index), HeldBy(inode[i], index),
                     ListOf(inode'[i], index'), HeldBy(inode'[i], index'))
<1>1. PICK g, st :
        /\ GrowsTo(i, size, g, st)
        /\ inode' = [inode EXCEPT ![i] = st.ino] /\ index' = st.index
  BY Zenon DEF Grows
<1> DEFINE l == ListOf(inode[i], index)
           l2 == ListOf(inode'[i], index')
           h == HeldBy(inode[i], index)
           h2 == HeldBy(inode'[i], index')
           new == Range(g.ids)
           n0 == _data_blocks(inode[i].size)
           n == _data_blocks(inode'[i].size)
<1>2. inode'[i] = st.ino
  <2>1. DOMAIN inode = Inode
    BY Zenon DEF IInv
  <2> QED BY <1>1, <2>1
<1>3. n = _data_blocks(size) /\ h2 = h \cup new /\ \A j \in Inode : new \cap HeldBy(inode[j], index) = {}
  BY <1>1, <1>2, Zenon DEF GrowsTo
<1>4. Grown(inode[i], index, n0, inode'[i], index', n, new)
  BY <1>1, <1>2, Zenon DEF GrowsTo
<1>5. FileInv(inode[i], index) /\ FileInv(inode'[i], index')
  BY Zenon DEF IInv
<1>6. /\ n0 \in Nat /\ DOMAIN l = 1..n0 /\ Len(l) = n0
      /\ \A k \in 1..n0 : k - 1 \in Slots(n0) /\ l[k] = At(inode[i], index, k - 1)
  BY <1>5, ListFacts, Zenon
<1>7. /\ n \in Nat /\ DOMAIN l2 = 1..n /\ Len(l2) = n /\ IsInjective(l2)
      /\ \A k \in 1..n : k - 1 \in Slots(n) /\ l2[k] = At(inode'[i], index', k - 1)
  BY <1>5, ListFacts, Zenon
<1> HIDE DEF n0, n, l, l2, h, h2, new
<1>8. /\ \A s \in Slots(n0) : At(inode'[i], index', s) = At(inode[i], index, s)
      /\ \A s \in Slots(n) \ Slots(n0) : At(inode'[i], index', s) \in new
  BY <1>4, Zenon DEF Grown
<1>9. n0 <= n
  <2>1. CASE n0 = 0
    BY <1>7, <2>1
  <2>2. CASE n0 # 0
    <3> DEFINE s == n0 - 1
    <3>1. n0 \in 1..n0
      BY <1>6, <2>2
    <3>2. s \in Slots(n)
      BY <1>4, <1>6, <3>1, Zenon DEF Grown
    <3>3. n \in Nat /\ s \in Int /\ n0 = s + 1 /\ s # -1 /\ s # -2 /\ ~(s < -2)
      <4>1. n \in Nat /\ n0 \in Nat
        BY <1>6, <1>7, Zenon
      <4> QED BY <2>2, <4>1
    <3> HIDE DEF s
    <3>4. s < n
      BY <3>2, <3>3, SlotFacts, Zenon
    <3> QED BY <3>3, <3>4
  <2> QED BY <2>1, <2>2
<1>10. \A k \in DOMAIN l : l2[k] = l[k]
  <2> TAKE k \in DOMAIN l
  <2>1. k \in 1..n0 /\ k \in 1..n
    <3>1. DOMAIN l = 1..n0 /\ n0 \in Nat /\ n \in Nat
      BY <1>6, <1>7, Zenon
    <3> QED BY <1>9, <3>1
  <2>2. l[k] = At(inode[i], index, k - 1) /\ l2[k] = At(inode'[i], index', k - 1) /\ k - 1 \in Slots(n0)
    BY <1>6, <1>7, <2>1, Zenon
  <2> QED BY <1>8, <2>2, Zenon
<1>11. (h2 \ h) \cap AllHeld = {}
  <2> SUFFICES ASSUME NEW x \in h2 \ h, x \in AllHeld PROVE FALSE
    BY Zenon
  <2>1. PICK j \in Inode : x \in HeldBy(inode[j], index)
    BY Zenon DEF AllHeld
  <2> QED BY <1>3, <2>1, Zenon
<1>12. ASSUME NEW x \in Range(l2) \ Range(l) PROVE x \in h2 \ h
  <2>1. PICK k \in 1..n : x = l2[k]
    BY <1>7, Zenon DEF Range
  <2>2. CASE k - 1 \in Slots(n0)
    <3>1. k \in 1..n0
      <4> DEFINE s == k - 1
      <4>1. s \in Slots(n0) /\ s \in Int /\ 0 <= s /\ s # -1 /\ s # -2 /\ ~(s < -2) /\ k = s + 1
        BY <2>2
      <4> HIDE DEF s
      <4>2. s < n0
        BY <4>1, SlotFacts, Zenon
      <4> QED BY <1>6, <4>1, <4>2
    <3>2. l2[k] = l[k] /\ l[k] \in Range(l)
      BY <1>6, <1>10, <3>1, Zenon DEF Range
    <3> QED BY <2>1, <3>2, Zenon
  <2>3. CASE k - 1 \notin Slots(n0)
    <3>1. x \in new
      <4>1. x = At(inode'[i], index', k - 1) /\ k - 1 \in Slots(n)
        BY <1>7, <2>1, Zenon
      <4>2. k - 1 \in Slots(n) \ Slots(n0)
        BY <2>3, <4>1, Zenon
      <4>3. At(inode'[i], index', k - 1) \in new
        BY <1>8, <4>2, Zenon
      <4> QED BY <4>1, <4>3, Zenon
    <3>2. x \notin h
      BY <1>3, <3>1, Zenon DEF h
    <3> QED BY <1>3, <3>1, <3>2, Zenon
  <2> QED BY <2>2, <2>3
<1>13. h \subseteq h2
  BY <1>3, Zenon
<1>14. Len(l) <= Len(l2)
  BY <1>6, <1>7, <1>9
<1>15. ListGrows(l, h, l2, h2)
  BY <1>7, <1>10, <1>11, <1>12, <1>13, <1>14, Zenon DEF ListGrows
<1> QED BY <1>15, Zenon DEF l, h, l2, h2

\* The other files keep their lists.
LEMMA OthersLists ==
    ASSUME IInv, NEW i \in Inode, OthersStay(i), NEW j \in Inode \ {i}
    PROVE  /\ ListOf(inode'[j], index') = ListOf(inode[j], index)
           /\ HeldBy(inode'[j], index') = HeldBy(inode[j], index)
<1> DEFINE ino == inode[j]
           n == _data_blocks(ino.size)
<1>1. /\ inode'[j] = ino /\ HeldBy(ino, index') = HeldBy(ino, index)
      /\ \A s \in Slots(n) : At(ino, index', s) = At(ino, index, s)
  BY Zenon DEF OthersStay
<1>2. n \in Nat
  BY DataBlocks DEF IInv, FileInv, InodeType
<1>3. ListOf(ino, index) = [k \in 1..n |-> At(ino, index, k - 1)]
  BY <1>2, ListAt
<1>4. ListOf(ino, index') = [k \in 1..n |-> At(ino, index', k - 1)]
  BY <1>2, ListAt
<1>5. \A k \in 1..n : k - 1 \in Slots(n)
  BY <1>2, SlotFacts
<1> HIDE DEF n, ino
<1>6. \A k \in 1..n : At(ino, index', k - 1) = At(ino, index, k - 1)
  BY <1>1, <1>5, Zenon
<1>7. ListOf(ino, index') = ListOf(ino, index)
  BY <1>3, <1>4, <1>6, Zenon
<1> QED BY <1>1, <1>7, Zenon DEF ino

\* The lists and the blocks held of F, in this state and the next.
LEMMA AbstractState ==
    /\ \A i \in Inode : List(i) = ListOf(inode[i], index)
    /\ \A i \in Inode : List(i)' = ListOf(inode'[i], index')
    /\ IInv => \A i \in Inode : Held(i) = HeldBy(inode[i], index)
    /\ IInv' => \A i \in Inode : Held(i)' = HeldBy(inode'[i], index')
<1>1. \A i \in Inode :
        /\ List(i) = ListOf(inode[i], index)
        /\ Index(i) = IndexOf(inode[i], index, _data_blocks(inode[i].size))
  BY Zenon DEF List, ListOf, Index, IndexOf, Tables
<1>2. \A i \in Inode :
        /\ List(i)' = ListOf(inode'[i], index')
        /\ Index(i)' = IndexOf(inode'[i], index', _data_blocks(inode'[i].size))
  BY Zenon DEF List, ListOf, Index, IndexOf, Tables
<1>3. IInv => \A i \in Inode : inode[i].size \in Nat
  BY DEF IInv, FileInv, InodeType
<1>4. IInv' => \A i \in Inode : inode'[i].size \in Nat
  BY DEF IInv, FileInv, InodeType
<1>5. IInv => \A i \in Inode : Held(i) = HeldBy(inode[i], index)
  BY <1>1, <1>3, HeldIsHeldBy, Zenon DEF Held
<1>6. IInv' => \A i \in Inode : Held(i)' = HeldBy(inode'[i], index')
  BY <1>2, <1>4, HeldIsHeldBy, Zenon DEF Held
<1> QED BY <1>1, <1>2, <1>5, <1>6, Zenon

\* A step that changes file i as F!Grow says, and no other.
LEMMA GrowMapped ==
    ASSUME IInv, IInv', NEW i \in Inode, NEW size \in Nat, Grows(i, size)
    PROVE  F!Grow(i)
<1> DEFINE l == ListOf(inode[i], index)
           l2 == ListOf(inode'[i], index')
           h == HeldBy(inode[i], index)
           h2 == HeldBy(inode'[i], index')
<1>1. ListGrows(l, h, l2, h2)
  BY GrowsList, Zenon
<1>2. List(i) = l /\ List(i)' = l2 /\ Held(i) = h /\ Held(i)' = h2
  BY AbstractState, Zenon
<1>3. \A j \in Inode \ {i} : List(j)' = List(j) /\ Held(j)' = Held(j)
  BY GrowInv, OthersLists, AbstractState, Zenon
<1>4. UNION {Held(j) : j \in Inode} = AllHeld
  BY AbstractState, Zenon DEF AllHeld
<1> HIDE DEF l, l2, h, h2
<1>5. F!Used = AllHeld
  BY <1>4, Zenon DEF F!Used
<1> DEFINE L == [j \in Inode |-> List(j)]
           H == [j \in Inode |-> Held(j)]
<1>6. L[i] = l /\ L'[i] = l2 /\ H[i] = h /\ H'[i] = h2
  BY <1>2, Zenon
<1>7. \A j \in Inode \ {i} : L'[j] = L[j] /\ H'[j] = H[j]
  BY <1>3, Zenon
<1> SUFFICES /\ Len(L[i]) <= Len(L'[i])
             /\ \A k \in DOMAIN L[i] : L'[i][k] = L[i][k]
             /\ H[i] \subseteq H'[i]
             /\ (H'[i] \ H[i]) \cap F!Used = {}
             /\ Range(L'[i]) \ Range(L[i]) \subseteq H'[i] \ H[i]
             /\ IsInjective(L'[i])
             /\ \A j \in Inode \ {i} : L'[j] = L[j] /\ H'[j] = H[j]
  BY Zenon DEF F!Grow, F!Range, Range, F!IsInjective, IsInjective
<1> HIDE DEF L, H
<1> QED BY <1>1, <1>5, <1>6, <1>7, Zenon DEF ListGrows

\* clear empties the list of a file and gives back all it holds.
LEMMA ClearMapped ==
    ASSUME IInv, IInv', NEW i \in Inode, Clears(i)
    PROVE  F!Clear(i)
<1>1. HeldBy(inode'[i], index') = {} /\ inode'[i].size = 0
  BY ClearInv, Zenon
<1>2. Held(i)' = {}
  BY <1>1, AbstractState, Zenon
<1>3. List(i)' = <<>>
  <2>1. _data_blocks(inode'[i].size) = 0
    BY <1>1, DataBlocksMono
  <2>2. List(i)' = [k \in 1..0 |-> get_block_id(inode'[i], index', k - 1)]
    BY <2>1, AbstractState, Zenon DEF ListOf
  <2> QED BY <2>2
<1>4. \A j \in Inode \ {i} : List(j)' = List(j) /\ Held(j)' = Held(j)
  BY ClearInv, OthersLists, AbstractState, Zenon
<1> QED BY <1>2, <1>3, <1>4, Zenon DEF F!Clear

\* At the start every list is empty.
LEMMA InitMapped == Init => F!Init
<1> SUFFICES ASSUME Init PROVE F!Init
  OBVIOUS
<1>1. IInv
  BY InitInv
<1>2. ASSUME NEW i \in Inode PROVE List(i) = <<>> /\ Held(i) = {}
  <2>1. inode[i] = initialize /\ initialize.size = 0
    BY DEF Init, initialize
  <2>2. inode[i] \in InodeType
    BY <1>1, Zenon DEF IInv, FileInv
  <2>3. Held(i) = {}
    BY <1>1, <2>1, <2>2, AbstractState, EmptyFile, Zenon
  <2>4. List(i) = [k \in 1..0 |-> get_block_id(inode[i], index, k - 1)]
    BY <2>1, DataBlocksMono, Zenon DEF List
  <2> QED BY <2>3, <2>4
<1> QED BY <1>2, Zenon DEF F!Init

\* Every step grows one list, empties one, or changes none.
LEMMA StepMapped == IInv /\ IInv' /\ [Next]_vars => [F!Next]_(F!vars)
<1> SUFFICES ASSUME IInv, IInv', [Next]_vars PROVE [F!Next]_(F!vars)
  OBVIOUS
<1>1. Outcome
  BY StepOutcome, Zenon
<1>2. ASSUME NEW i \in Inode, NEW size \in Nat, Grows(i, size) PROVE F!Next
  BY <1>2, GrowMapped, Zenon DEF F!Next
<1>3. ASSUME NEW i \in Inode, Clears(i) PROVE F!Next
  BY <1>3, ClearMapped, Zenon DEF F!Next
<1>4. CASE UNCHANGED <<inode, index, bitmap>>
  <2>1. \A i \in Inode : List(i)' = List(i) /\ Held(i)' = Held(i)
    BY <1>4, AbstractState, Zenon
  <2> QED BY <2>1 DEF F!vars
<1> QED BY <1>1, <1>2, <1>3, <1>4, Zenon DEF Outcome

\* Each file is a list of blocks, as Vfs takes it to be: increase_size appends to it blocks
\* that no file held and moves none, clear empties it, and nothing else changes it.
THEOREM FilesAreLists == Spec => ActsAsBlockList
BY InitMapped, StepMapped, Invariant, PTL DEF Spec, ActsAsBlockList, F!Spec

-----------------------------------------------------------------------------
(* The pieces in which read_at and write_at go through a file.             *)

\* The block of the last byte before end, and how many blocks the bytes from s to end touch.
Last(end) == (end - 1) \div BLOCK_SZ
Count(s, end) == IF Last(end) <= s \div BLOCK_SZ THEN 1 ELSE (Last(end) - (s \div BLOCK_SZ)) + 1

\* The k-th piece of the bytes from s to end: where it begins and ends, and the piece.
From(s, k) == IF k = 1 THEN s ELSE (s \div BLOCK_SZ + (k - 1)) * BLOCK_SZ
To(s, end, k) ==
    IF (s \div BLOCK_SZ + k) * BLOCK_SZ <= end THEN (s \div BLOCK_SZ + k) * BLOCK_SZ ELSE end
Piece(s, b, end, k) ==
    [block |-> b + (k - 1), offset |-> From(s, k) % BLOCK_SZ, len |-> To(s, end, k) - From(s, k)]
PieceList(s, b, end) == [k \in 1..Count(s, end) |-> Piece(s, b, end, k)]

\* The last byte is in block q or an earlier one just if the end is not after block q.
LEMMA LastBlock ==
    ASSUME NEW end \in Nat \ {0}, NEW q \in Nat
    PROVE  /\ Last(end) \in Nat /\ (q + 1) * BLOCK_SZ \in Nat
           /\ Last(end) <= q <=> end <= (q + 1) * BLOCK_SZ
<1> DEFINE B == BLOCK_SZ
           l == Last(end)
           r == (end - 1) % BLOCK_SZ
<1>1. B \in Nat \ {0}
  BY BlockAssumption
<1> USE <1>1
<1>2. end - 1 \in Nat
  OBVIOUS
<1>3. l \in Nat /\ r \in 0..(B - 1) /\ end - 1 = l * B + r
  BY <1>2, DivModBounds, Zenon DEF Last
<1> USE <1>3
<1> HIDE DEF l, r, B
<1>4. l * B \in Nat /\ q * B \in Nat /\ (q + 1) * B = q * B + B
  OBVIOUS
<1> USE <1>4
<1>5. CASE l <= q
  <2> QED BY DEF l, B
<1>6. CASE ~(l <= q)
  <2> QED BY DEF l, B
<1> QED BY <1>5, <1>6

\* A sequence is its first element and the rest.
LEMMA FirstAndRest ==
    ASSUME NEW W, NEW c \in Nat \ {0}, NEW f \in [1..c -> W], NEW g \in [1..(c - 1) -> W],
           \A k \in 1..(c - 1) : g[k] = f[k + 1]
    PROVE  f = <<f[1]>> \o g
<1> QED OBVIOUS

\* The bounds of a piece: it is in one block, and the next begins where it ends.
LEMMA PieceBounds ==
    ASSUME NEW s \in Nat, NEW end \in Nat, s < end, NEW k \in 1..Count(s, end)
    PROVE  LET q == s \div BLOCK_SZ + (k - 1) IN
           /\ q \in Nat /\ q * BLOCK_SZ <= From(s, k) /\ From(s, k) < To(s, end, k)
           /\ From(s, k) \in Nat /\ To(s, end, k) \in Nat /\ To(s, end, k) <= end
           /\ To(s, end, k) <= q * BLOCK_SZ + BLOCK_SZ
           /\ k < Count(s, end) => To(s, end, k) = From(s, k + 1)
           /\ k = Count(s, end) => To(s, end, k) = end
<1> DEFINE B == BLOCK_SZ
           p == s \div BLOCK_SZ
           q == p + (k - 1)
           l == Last(end)
<1>1. B \in Nat \ {0}
  BY BlockAssumption
<1> USE <1>1
<1>2. p \in Nat /\ p * B <= s /\ s < p * B + B
  <2> DEFINE r == s % BLOCK_SZ
  <2>1. p \in Nat /\ r \in 0..(B - 1) /\ s = p * B + r
    BY DivModBounds, Zenon
  <2> HIDE DEF p, r, B
  <2> QED BY <2>1
<1>3. end \in Nat \ {0} /\ l \in Nat
  BY LastBlock
<1>4. Count(s, end) = IF l <= p THEN 1 ELSE (l - p) + 1
  BY DEF Count
<1> HIDE DEF p, l, B
<1>5. Count(s, end) \in Nat /\ k \in Nat /\ q \in Nat /\ q + 1 = p + k
  BY <1>2, <1>3, <1>4
<1> USE <1>5
<1>6. l <= q <=> end <= (q + 1) * B
  BY LastBlock DEF l, B
<1>7. k < Count(s, end) <=> ~(l <= q)
  BY <1>2, <1>3, <1>4
<1>8. /\ From(s, k) = IF k = 1 THEN s ELSE q * B
      /\ To(s, end, k) = IF (q + 1) * B <= end THEN (q + 1) * B ELSE end
      /\ From(s, k + 1) = (q + 1) * B
  <2> QED BY DEF From, To, p, B
<1> USE <1>8
<1> HIDE DEF q
<1>9. q * B \in Nat /\ (q + 1) * B = q * B + B
  OBVIOUS
<1> USE <1>9
<1>11. k # 1 => q * B < end
  <2> SUFFICES ASSUME k # 1 PROVE q * B < end
    OBVIOUS
  <2>1. q - 1 \in Nat /\ ~(l <= q - 1) /\ (q - 1) + 1 = q
    BY <1>2, <1>3, <1>4 DEF q
  <2>2. ~(end <= ((q - 1) + 1) * B)
    BY <2>1, LastBlock DEF l, B
  <2> QED BY <2>2
<1>12. From(s, k) \in Nat /\ q * B <= From(s, k) /\ From(s, k) < q * B + B /\ From(s, k) < end
  <2>1. CASE k = 1
    BY <1>2, <2>1
  <2>2. CASE k # 1
    BY <1>11, <2>2
  <2> QED BY <2>1, <2>2
<1>14. k < Count(s, end) => To(s, end, k) = From(s, k + 1)
  BY <1>6, <1>7
<1>15. k = Count(s, end) => To(s, end, k) = end
  BY <1>6, <1>7
<1>16. /\ From(s, k) < To(s, end, k) /\ To(s, end, k) \in Nat /\ To(s, end, k) <= end
       /\ To(s, end, k) <= q * B + B
  BY <1>12
<1> QED BY <1>12, <1>14, <1>15, <1>16, Zenon DEF q, p, B

\* The first piece and those from where it ends, e.
PieceNext(s, b, end, e) ==
    /\ e \in Nat /\ Count(s, end) \in Nat \ {0}
    /\ e # end => Count(e, end) = Count(s, end) - 1
    /\ PieceList(s, b, end)
         = <<Piece(s, b, end, 1)>> \o (IF e = end THEN <<>> ELSE PieceList(e, b + 1, end))

\* The pieces from s on are the first one and those from where it ends.
LEMMA PieceStep ==
    ASSUME NEW s \in Nat, NEW b \in Nat, NEW end \in Nat \ {0}
    PROVE  PieceNext(s, b, end, To(s, end, 1))
<1> DEFINE e == To(s, end, 1)
           B == BLOCK_SZ
           q == s \div BLOCK_SZ
           l == Last(end)
           c == Count(s, end)
<1>1. B \in Nat \ {0}
  BY BlockAssumption
<1>2. q \in Nat
  BY <1>1
<1>3. l \in Nat /\ (q + 1) * B \in Nat /\ (l <= q <=> end <= (q + 1) * B)
  BY <1>2, LastBlock
<1>4. c = IF l <= q THEN 1 ELSE (l - q) + 1
  BY DEF Count
<1>5. e = IF (q + 1) * B <= end THEN (q + 1) * B ELSE end
  BY DEF To
<1> HIDE DEF q, l, c, B, e
<1>6. e \in Nat /\ c \in Nat \ {0} /\ (e = end <=> l <= q)
  BY <1>2, <1>3, <1>4, <1>5
<1> DEFINE f == PieceList(s, b, end)
<1>7. CASE e = end
  <2>1. c = 1
    BY <1>4, <1>6, <1>7
  <2>2. f = [k \in 1..1 |-> Piece(s, b, end, k)]
    BY <2>1, Zenon DEF PieceList, c
  <2>3. f = <<Piece(s, b, end, 1)>>
    BY <2>2
  <2>4. f = <<Piece(s, b, end, 1)>> \o <<>>
    BY <2>3
  <2>5. PieceNext(s, b, end, e)
    BY <1>6, <1>7, <2>4, Zenon DEF c, PieceNext
  <2> QED BY <2>5, Zenon DEF e
<1>8. CASE e # end
  <2>1. e = (q + 1) * B /\ q + 1 <= l
    BY <1>2, <1>3, <1>5, <1>8
  <2>2. e \div BLOCK_SZ = q + 1
    <3>1. q + 1 \in Nat /\ 0 \in 0..(B - 1)
      BY <1>1, <1>2
    <3>2. ((q + 1) * B + 0) \div B = q + 1
      BY <1>1, <3>1
    <3>3. (q + 1) * B + 0 = e
      BY <2>1
    <3> QED BY <3>2, <3>3 DEF B
  <2>3. Count(e, end) = IF l <= q + 1 THEN 1 ELSE (l - (q + 1)) + 1
    BY <2>2, Zenon DEF Count, l
  <2>4. Count(e, end) = c - 1 /\ c - 1 \in Nat
    BY <1>2, <1>3, <1>4, <2>1, <2>3
  <2> DEFINE g == PieceList(e, b + 1, end)
             W == {Piece(s, b, end, k) : k \in Nat}
  <2>5. ASSUME NEW k \in 1..(c - 1) PROVE Piece(e, b + 1, end, k) = Piece(s, b, end, k + 1)
    <3>1. k + 1 # 1 /\ (k + 1) - 1 = k /\ (q + 1) + (k - 1) = q + k /\ (q + 1) + k = q + (k + 1)
      BY <1>2
    <3>2. From(s, k + 1) = (q + k) * B
      BY DEF From, q, B
    <3>3. From(e, k) = (q + k) * B
      <4>1. From(e, k) = IF k = 1 THEN e ELSE ((q + 1) + (k - 1)) * B
        BY <2>2 DEF From, B
      <4> QED BY <2>1, <3>1, <4>1
    <3>4. To(e, end, k) = To(s, end, k + 1)
      BY <2>2, <3>1 DEF To, q
    <3>5. (b + 1) + (k - 1) = b + ((k + 1) - 1)
      OBVIOUS
    <3> QED BY <3>2, <3>3, <3>4, <3>5, Zenon DEF Piece
  <2>6. \A k \in 1..c : k \in Nat
    OBVIOUS
  <2>7. f \in [1..c -> W] /\ \A k \in 1..c : f[k] = Piece(s, b, end, k)
    BY <2>6, Zenon DEF PieceList, c
  <2>8. \A k \in 1..(c - 1) : k + 1 \in Nat /\ k + 1 \in 1..c
    BY <1>6
  <2>9. /\ g \in [1..(c - 1) -> W]
        /\ \A k \in 1..(c - 1) : g[k] = f[k + 1]
    <3>1. g = [k \in 1..(c - 1) |-> Piece(e, b + 1, end, k)]
      BY <2>4, Zenon DEF PieceList
    <3> HIDE DEF g, f
    <3>2. \A k \in 1..(c - 1) : g[k] = Piece(s, b, end, k + 1)
      BY <2>5, <3>1, Zenon
    <3>3. \A k \in 1..(c - 1) : Piece(e, b + 1, end, k) \in W
      BY <2>5, <2>8, Zenon
    <3> HIDE DEF W
    <3>4. g \in [1..(c - 1) -> W]
      BY <3>1, <3>3, Zenon
    <3>5. \A k \in 1..(c - 1) : g[k] = f[k + 1]
      BY <2>7, <2>8, <3>2, Zenon
    <3> QED BY <3>4, <3>5
  <2> HIDE DEF f, g, W
  <2>10. f = <<f[1]>> \o g
    BY <1>6, <2>7, <2>9
  <2>11. f[1] = Piece(s, b, end, 1)
    BY <1>6, <2>7
  <2>12. f = <<Piece(s, b, end, 1)>> \o g
    BY <2>10, <2>11, Zenon
  <2>13. PieceNext(s, b, end, e)
    BY <1>6, <1>8, <2>4, <2>12, Zenon DEF f, g, c, PieceNext
  <2> QED BY <2>13, Zenon DEF e
<1> QED BY <1>7, <1>8

\* The loop of read_at over the pieces up to end.
PieceLoop(f, end) ==
    \A s, b \in Nat : f[<<s, b>>]
        = <<Piece(s, b, end, 1)>>
            \o (IF To(s, end, 1) = end THEN <<>> ELSE f[<<To(s, end, 1), b + 1>>])

\* The pieces, without the loop.
LEMMA PiecesClosed ==
    ASSUME NEW start \in Nat, NEW end \in Nat
    PROVE  Pieces(start, end) = IF start >= end THEN <<>> ELSE PieceList(start, start \div BLOCK_SZ, end)
<1>1. CASE start >= end
  BY <1>1, Zenon DEF Pieces
<1>2. CASE ~(start >= end)
  <2> DEFINE E(s) == min((s \div BLOCK_SZ + 1) * BLOCK_SZ, end)
             P(s, b) == [block |-> b, offset |-> s % BLOCK_SZ, len |-> E(s) - s]
             Eq(f) == [at \in Nat \X Nat |->
                        <<P(at[1], at[2])>>
                          \o (IF E(at[1]) = end THEN <<>> ELSE f[<<E(at[1]), at[2] + 1>>])]
             from == CHOOSE f : f = Eq(f)
             G == [at \in Nat \X Nat |-> PieceList(at[1], at[2], end)]
  <2>1. Pieces(start, end) = from[<<start, start \div BLOCK_SZ>>]
    BY <1>2, Zenon DEF Pieces
  <2>2. end \in Nat \ {0} /\ BLOCK_SZ \in Nat \ {0} /\ start \div BLOCK_SZ \in Nat
    BY <1>2, BlockAssumption
  <2>3. ASSUME NEW s \in Nat, NEW b \in Nat
        PROVE  E(s) = To(s, end, 1) /\ P(s, b) = Piece(s, b, end, 1)
    <3>3. E(s) = To(s, end, 1)
      BY DEF To, min
    <3>4. b + (1 - 1) = b /\ From(s, 1) = s
      BY DEF From
    <3> QED BY <3>3, <3>4, Zenon DEF Piece
  <2> HIDE DEF E, P
  <2>4. \A at \in Nat \X Nat : at = <<at[1], at[2]>> /\ at[1] \in Nat /\ at[2] \in Nat
    OBVIOUS
  <2>5. G = Eq(G)
    <3>1. ASSUME NEW s \in Nat, NEW b \in Nat
          PROVE  G[<<s, b>>] = <<P(s, b)>> \o (IF E(s) = end THEN <<>> ELSE G[<<E(s), b + 1>>])
      <4> DEFINE e == To(s, end, 1)
      <4>1. PieceNext(s, b, end, e)
        BY <2>2, PieceStep, Zenon
      <4>2. E(s) = e
        BY <2>3, Zenon
      <4> HIDE DEF e
      <4>3. E(s) \in Nat /\ b + 1 \in Nat
        BY <4>1, <4>2 DEF PieceNext
      <4>4. G[<<s, b>>] = PieceList(s, b, end) /\ G[<<E(s), b + 1>>] = PieceList(E(s), b + 1, end)
        BY <4>3
      <4>5. PieceList(s, b, end) = <<Piece(s, b, end, 1)>>
                \o (IF E(s) = end THEN <<>> ELSE PieceList(E(s), b + 1, end))
        BY <4>1, <4>2, Zenon DEF PieceNext
      <4> QED BY <2>3, <4>4, <4>5, Zenon
    <3> HIDE DEF G
    <3>2. \A at \in Nat \X Nat : G[at] = <<P(at[1], at[2])>>
                          \o (IF E(at[1]) = end THEN <<>> ELSE G[<<E(at[1]), at[2] + 1>>])
      <4> TAKE at \in Nat \X Nat
      <4>1. at = <<at[1], at[2]>> /\ at[1] \in Nat /\ at[2] \in Nat
        BY <2>4, Zenon
      <4>2. G[<<at[1], at[2]>>] = <<P(at[1], at[2])>>
                          \o (IF E(at[1]) = end THEN <<>> ELSE G[<<E(at[1]), at[2] + 1>>])
        BY <3>1, Zenon
      <4> QED BY <4>1, <4>2, Zenon
    <3>3. G = [at \in Nat \X Nat |-> G[at]]
      BY DEF G
    <3> QED BY <3>2, <3>3, Zenon
  <2>6. from = Eq(from)
    <3> HIDE DEF Eq, G
    <3> QED BY <2>5, Zenon
  <2> HIDE DEF from, G
  <2>7. PieceLoop(from, end)
    <3> SUFFICES ASSUME NEW s \in Nat, NEW b \in Nat
                 PROVE  from[<<s, b>>] = <<Piece(s, b, end, 1)>>
                           \o (IF To(s, end, 1) = end THEN <<>> ELSE from[<<To(s, end, 1), b + 1>>])
      BY Zenon DEF PieceLoop
    <3> DEFINE at == <<s, b>>
    <3> HIDE DEF at
    <3>2. from[at] = <<P(at[1], at[2])>>
                          \o (IF E(at[1]) = end THEN <<>> ELSE from[<<E(at[1]), at[2] + 1>>])
      BY <2>6, Zenon DEF at
    <3> QED BY <2>3, <3>2, Zenon DEF at
  <2> DEFINE T == {m \in Nat : \A s, b \in Nat : Count(s, end) <= m => from[<<s, b>>] = PieceList(s, b, end)}
  <2>8. 0 \in T
    <3>1. ASSUME NEW s \in Nat PROVE ~(Count(s, end) <= 0)
      <4>1. PieceNext(s, 0, end, To(s, end, 1))
        BY <2>2, PieceStep
      <4> QED BY <4>1 DEF PieceNext
    <3> QED BY <3>1
  <2>9. ASSUME NEW m \in Nat, m \in T PROVE m + 1 \in T
    <3> SUFFICES ASSUME NEW s \in Nat, NEW b \in Nat, Count(s, end) <= m + 1
                 PROVE  from[<<s, b>>] = PieceList(s, b, end)
      OBVIOUS
    <3> DEFINE e == To(s, end, 1)
    <3>1. /\ e \in Nat /\ Count(s, end) \in Nat \ {0} /\ b + 1 \in Nat
          /\ e # end => Count(e, end) = Count(s, end) - 1
          /\ PieceList(s, b, end)
                = <<Piece(s, b, end, 1)>> \o (IF e = end THEN <<>> ELSE PieceList(e, b + 1, end))
      <4>1. PieceNext(s, b, end, e)
        BY <2>2, PieceStep, Zenon
      <4>2. b + 1 \in Nat
        OBVIOUS
      <4> QED BY <4>1, <4>2, Zenon DEF PieceNext
    <3>2. from[<<s, b>>] = <<Piece(s, b, end, 1)>> \o (IF e = end THEN <<>> ELSE from[<<e, b + 1>>])
      BY <2>7, Zenon DEF PieceLoop
    <3> HIDE DEF e
    <3>4. e # end => from[<<e, b + 1>>] = PieceList(e, b + 1, end)
      BY <2>9, <3>1
    <3> QED BY <3>1, <3>2, <3>4, Zenon
  <2> HIDE DEF T
  <2>10. Nat \subseteq T
    BY <2>8, <2>9, SetInduction, Zenon
  <2>11. Count(start, end) \in Nat /\ Count(start, end) <= Count(start, end)
    <3>1. PieceNext(start, 0, end, To(start, end, 1))
      BY <2>2, PieceStep
    <3> QED BY <3>1 DEF PieceNext
  <2>12. from[<<start, start \div BLOCK_SZ>>] = PieceList(start, start \div BLOCK_SZ, end)
    BY <2>2, <2>10, <2>11 DEF T
  <2> QED BY <1>2, <2>1, <2>12, Zenon
<1> QED BY <1>1, <1>2

\* The place of byte x of a file, and those of the bytes from x to y in order.
Place(ino, dev, x) == <<get_block_id(ino, dev, x \div BLOCK_SZ), x % BLOCK_SZ>>
Run(ino, dev, x, y) == [j \in 1..(y - x) |-> Place(ino, dev, x + (j - 1))]
AllPlaces(ino, dev) == {Place(ino, dev, x) : x \in Nat}

IsRun(r, ino, dev, x, y) ==
    /\ r \in Seq(AllPlaces(ino, dev)) /\ Len(r) = y - x /\ DOMAIN r = 1..(y - x)
    /\ \A j \in 1..(y - x) : r[j] = Place(ino, dev, x + (j - 1))

\* A run is a sequence.
LEMMA RunIsSeq ==
    ASSUME NEW ino, NEW dev, NEW x \in Nat, NEW y \in Nat, x <= y
    PROVE  IsRun(Run(ino, dev, x, y), ino, dev, x, y)
<1> DEFINE W == AllPlaces(ino, dev)
           r == Run(ino, dev, x, y)
<1>1. y - x \in Nat /\ \A j \in 1..(y - x) : x + (j - 1) \in Nat
  OBVIOUS
<1>2. \A j \in 1..(y - x) : Place(ino, dev, x + (j - 1)) \in W
  BY <1>1, Zenon DEF AllPlaces
<1> HIDE DEF W
<1>3. r \in [1..(y - x) -> W] /\ \A j \in 1..(y - x) : r[j] = Place(ino, dev, x + (j - 1))
  BY <1>2, Zenon DEF Run
<1> HIDE DEF r
<1>4. r \in Seq(W) /\ Len(r) = y - x /\ DOMAIN r = 1..(y - x)
  BY <1>1, <1>3, FunctionIsSeq, Zenon
<1> QED BY <1>3, <1>4, Zenon DEF IsRun, r, W

\* One run after another.
LEMMA RunJoin ==
    ASSUME NEW ino, NEW dev, NEW x \in Nat, NEW y \in Nat, NEW z \in Nat, x <= y, y <= z
    PROVE  Run(ino, dev, x, y) \o Run(ino, dev, y, z) = Run(ino, dev, x, z)
<1> DEFINE W == AllPlaces(ino, dev)
           p == Run(ino, dev, x, y)
           q == Run(ino, dev, y, z)
           r == Run(ino, dev, x, z)
           P(k) == Place(ino, dev, k)
<1>1. p \in Seq(W) /\ Len(p) = y - x /\ \A j \in 1..(y - x) : p[j] = P(x + (j - 1))
  <2>1. IsRun(p, ino, dev, x, y)
    BY RunIsSeq, Zenon
  <2> QED BY <2>1, Zenon DEF IsRun
<1>2. q \in Seq(W) /\ Len(q) = z - y /\ \A j \in 1..(z - y) : q[j] = P(y + (j - 1))
  <2>1. IsRun(q, ino, dev, y, z)
    BY RunIsSeq, Zenon
  <2> QED BY <2>1, Zenon DEF IsRun
<1>3. x <= z
  OBVIOUS
<1>4. r \in Seq(W) /\ Len(r) = z - x /\ \A j \in 1..(z - x) : r[j] = P(x + (j - 1))
  <2>1. IsRun(r, ino, dev, x, z)
    BY <1>3, RunIsSeq, Zenon
  <2> QED BY <2>1, Zenon DEF IsRun
<1> HIDE DEF W, p, q, r, P
<1>5. p \o q \in Seq(W) /\ Len(p \o q) = z - x
  <2>1. p \o q \in Seq(W) /\ Len(p \o q) = Len(p) + Len(q)
    BY <1>1, <1>2
  <2> QED BY <1>1, <1>2, <2>1
<1>6. ASSUME NEW j \in 1..(z - x) PROVE (p \o q)[j] = r[j]
  <2>1. CASE j <= y - x
    <3>1. (p \o q)[j] = p[j] /\ j \in 1..(y - x)
      BY <1>1, <2>1
    <3> QED BY <1>1, <1>4, <3>1
  <2>2. CASE ~(j <= y - x)
    <3> DEFINE k == j - (y - x)
    <3>1. k \in 1..(z - y) /\ y + (k - 1) = x + (j - 1)
      BY <2>2
    <3>2. (p \o q)[j] = q[k]
      BY <1>1, <1>2, <2>2
    <3> QED BY <1>2, <1>4, <3>1, <3>2, Zenon
  <2> QED BY <2>1, <2>2, Zenon
<1>7. p \o q = r
  <2>1. Len(p \o q) = Len(r) /\ \A j \in 1..Len(p \o q) : (p \o q)[j] = r[j]
    BY <1>4, <1>5, <1>6, Zenon
  <2>2. ASSUME NEW u \in Seq(W), NEW v \in Seq(W), Len(u) = Len(v),
               \A j \in 1..Len(u) : u[j] = v[j]
        PROVE  u = v
    BY ONLY <2>2
  <2> QED BY <1>4, <1>5, <2>1, <2>2, Zenon
<1> QED BY <1>7, Zenon DEF p, q, r

\* The bytes that a piece stands for.
Expanded(ino, dev, p) == [n \in 1..p.len |-> <<get_block_id(ino, dev, p.block), p.offset + n - 1>>]

\* A piece visits the bytes from its beginning to its end.
LEMMA PieceRun ==
    ASSUME NEW ino, NEW dev, NEW s \in Nat, NEW end \in Nat, s < end, NEW k \in 1..Count(s, end)
    PROVE  Expanded(ino, dev, Piece(s, s \div BLOCK_SZ, end, k))
             = Run(ino, dev, From(s, k), To(s, end, k))
<1> DEFINE B == BLOCK_SZ
           q == s \div BLOCK_SZ + (k - 1)
           f == From(s, k)
           t == To(s, end, k)
           p == Piece(s, s \div BLOCK_SZ, end, k)
<1>1. B \in Nat \ {0}
  BY BlockAssumption
<1> USE <1>1
<1>2. q \in Nat /\ q * B <= f /\ f < t /\ f \in Nat /\ t \in Nat /\ t <= q * B + B
  BY PieceBounds, Zenon
<1> USE <1>2
<1>3. p.block = q /\ p.offset = f % B /\ p.len = t - f
  BY DEF Piece
<1> HIDE DEF q, f, t, B, p
<1>4. q * B \in Nat
  OBVIOUS
<1> USE <1>4
<1>5. ASSUME NEW x \in Nat, q * B <= x, x < q * B + B PROVE x \div B = q /\ x % B = x - q * B
  <2> DEFINE r == x - q * B
  <2>1. r \in 0..(B - 1) /\ x = q * B + r
    BY <1>5
  <2> HIDE DEF r
  <2>2. (q * B + r) \div B = q /\ (q * B + r) % B = r
    BY <2>1
  <2> QED BY <2>1, <2>2, Zenon DEF r
<1>6. f % B = f - q * B
  <2>1. f < q * B + B
    OBVIOUS
  <2> QED BY <1>5, <2>1, Zenon
<1>7. ASSUME NEW n \in 1..(t - f)
      PROVE  <<get_block_id(ino, dev, q), (f % B) + n - 1>> = Place(ino, dev, f + (n - 1))
  <2> DEFINE x == f + (n - 1)
  <2>1. x \in Nat /\ q * B <= x /\ x < q * B + B
    OBVIOUS
  <2>2. x \div B = q /\ x % B = x - q * B
    BY <1>5, <2>1, Zenon
  <2>3. (f % B) + n - 1 = x - q * B
    BY <1>6
  <2> HIDE DEF x
  <2>4. Place(ino, dev, x) = <<get_block_id(ino, dev, q), x - q * B>>
    BY <2>2, Zenon DEF Place, B
  <2> QED BY <2>3, <2>4, Zenon DEF x
<1>8. Expanded(ino, dev, p) = [n \in 1..(t - f) |-> <<get_block_id(ino, dev, q), (f % B) + n - 1>>]
  BY <1>3, Zenon DEF Expanded
<1>9. Expanded(ino, dev, p) = [n \in 1..(t - f) |-> Place(ino, dev, f + (n - 1))]
  BY <1>7, <1>8, Zenon
<1> QED BY <1>9, Zenon DEF Run, f, t, p

\* v[n] is what read_at has visited after n of the pieces ps.
Visits(v, ino, dev, ps) ==
    v[0] = <<>> /\ \A n \in 1..Len(ps) : v[n] = v[n - 1] \o Expanded(ino, dev, ps[n])

\* Where the first n pieces of the bytes from s end.
EndOf(s, end, n) == IF n = 0 THEN s ELSE To(s, end, n)

\* The first n pieces visit the bytes from s to the end of the n-th.
LEMMA VisitStep ==
    ASSUME NEW ino, NEW dev, NEW s \in Nat, NEW end \in Nat, s < end, NEW n \in 1..Count(s, end)
    PROVE  Run(ino, dev, s, EndOf(s, end, n - 1)) \o Expanded(ino, dev, Piece(s, s \div BLOCK_SZ, end, n))
             = Run(ino, dev, s, EndOf(s, end, n))
<1> DEFINE c == Count(s, end)
           x == EndOf(s, end, n - 1)
           y == To(s, end, n)
<1>1. c \in Nat
  <2>1. PieceNext(s, 0, end, To(s, end, 1))
    BY PieceStep
  <2> QED BY <2>1 DEF PieceNext
<1>2. From(s, n) \in Nat /\ y \in Nat /\ From(s, n) < y
  BY PieceBounds, Zenon
<1>3. x = From(s, n) /\ s <= x
  <2>1. CASE n = 1
    BY <2>1 DEF EndOf, From
  <2>2. CASE n # 1
    <3> DEFINE m == n - 1
    <3>1. m \in 1..c /\ m < c /\ m + 1 = n /\ m # 0
      BY <1>1, <2>2
    <3> HIDE DEF m, c
    <3>2. To(s, end, m) = From(s, m + 1)
      BY <3>1, PieceBounds, Zenon DEF c
    <3>3. EndOf(s, end, m) = From(s, n)
      BY <3>1, <3>2, Zenon DEF EndOf
    <3>4. s <= From(s, n)
      <4> DEFINE p == s \div BLOCK_SZ
      <4>1. BLOCK_SZ \in Nat \ {0} /\ p \in Nat /\ (s % BLOCK_SZ) \in 0..(BLOCK_SZ - 1)
            /\ s = p * BLOCK_SZ + (s % BLOCK_SZ)
        BY BlockAssumption, DivModBounds, Zenon
      <4> USE <4>1
      <4> DEFINE r == s % BLOCK_SZ
      <4> HIDE DEF p, r
      <4>2. p + 1 \in Int /\ p + (n - 1) \in Int /\ p + 1 <= p + (n - 1)
        BY <1>1, <3>1 DEF c
      <4>3. (p + 1) * BLOCK_SZ <= (p + (n - 1)) * BLOCK_SZ
        BY <4>2
      <4>4. (p + 1) * BLOCK_SZ = p * BLOCK_SZ + BLOCK_SZ /\ p * BLOCK_SZ \in Nat
        OBVIOUS
      <4>5. From(s, n) = (p + (n - 1)) * BLOCK_SZ
        BY <2>2 DEF From, p
      <4> DEFINE z == p * BLOCK_SZ + BLOCK_SZ
      <4>6. s <= z /\ z \in Nat
        BY <4>4 DEF r
      <4>7. z <= From(s, n)
        BY <4>3, <4>4, <4>5, Zenon
      <4> HIDE DEF z
      <4> QED BY <1>2, <4>6, <4>7
    <3> QED BY <3>3, <3>4 DEF m
  <2> QED BY <2>1, <2>2
<1>4. EndOf(s, end, n) = y
  <2>1. n # 0
    BY <1>1
  <2> QED BY <2>1, Zenon DEF EndOf
<1>5. Expanded(ino, dev, Piece(s, s \div BLOCK_SZ, end, n)) = Run(ino, dev, x, y)
  <2>1. Expanded(ino, dev, Piece(s, s \div BLOCK_SZ, end, n)) = Run(ino, dev, From(s, n), To(s, end, n))
    BY PieceRun, Zenon
  <2> HIDE DEF x
  <2> QED BY <1>3, <2>1, Zenon
<1> HIDE DEF x, y
<1>7. Run(ino, dev, s, x) \o Run(ino, dev, x, y) = Run(ino, dev, s, y)
  <2>1. s \in Nat /\ x \in Nat /\ y \in Nat /\ s <= x /\ x <= y
    BY <1>2, <1>3
  <2> QED BY <2>1, RunJoin, ZenonT(30)
<1> QED BY <1>4, <1>5, <1>7, Zenon DEF x

\* read_at goes through the pieces in a loop.
LEMMA PlacesLoop ==
    ASSUME NEW i, NEW start, NEW end, Len(Pieces(start, end)) \in Nat,
           NEW w, w = [n \in 0..Len(Pieces(start, end)) |-> w[n]],
           Visits(w, inode[i], index, Pieces(start, end))
    PROVE  \E v : Visits(v, inode[i], index, Pieces(start, end))
                    /\ Places(i, start, end) = v[Len(Pieces(start, end))]
<1> DEFINE ps == Pieces(start, end)
           X(p) == Expanded(inode[i], index, p)
           Eq(v) == [n \in 0..Len(ps) |-> IF n = 0 THEN <<>> ELSE v[n - 1] \o X(ps[n])]
           visited == CHOOSE v : v = Eq(v)
<1>1. Places(i, start, end) = visited[Len(ps)]
  BY Zenon DEF Places, Expanded
<1> HIDE DEF ps, X
<1>2. /\ 0 \in 0..Len(ps) /\ \A n \in 0..Len(ps) : n # 0 => n \in 1..Len(ps)
      /\ \A n \in 1..Len(ps) : n # 0 /\ n \in 0..Len(ps)
  BY DEF ps
<1>3. w = Eq(w)
  <2>1. w[0] = <<>> /\ \A n \in 1..Len(ps) : w[n] = w[n - 1] \o X(ps[n])
    BY Zenon DEF Visits, ps, X
  <2>2. \A n \in 0..Len(ps) : w[n] = IF n = 0 THEN <<>> ELSE w[n - 1] \o X(ps[n])
    BY <1>2, <2>1, Zenon
  <2>3. w = [n \in 0..Len(ps) |-> w[n]]
    BY Zenon DEF ps
  <2> QED BY <2>2, <2>3, Zenon
<1>4. visited = Eq(visited)
  <2> HIDE DEF Eq
  <2> QED BY <1>3, Zenon
<1> HIDE DEF visited
<1>5. \A n \in 0..Len(ps) : visited[n] = IF n = 0 THEN <<>> ELSE visited[n - 1] \o X(ps[n])
  BY <1>4, Zenon
<1>6. visited[0] = <<>> /\ \A n \in 1..Len(ps) : visited[n] = visited[n - 1] \o X(ps[n])
  BY <1>2, <1>5, Zenon
<1>7. Visits(visited, inode[i], index, ps)
  BY <1>6, Zenon DEF Visits, X
<1> QED BY <1>1, <1>7, Zenon DEF ps

\* read_at visits the bytes of its range, each at its place, in order.
LEMMA PlacesClosed ==
    ASSUME NEW i, NEW start \in Nat, NEW end \in Nat
    PROVE  Places(i, start, end) = IF start >= end THEN <<>> ELSE Run(inode[i], index, start, end)
<1> DEFINE ps == Pieces(start, end)
           ino == inode[i]
<1>1. CASE start >= end
  <2>1. ps = <<>>
    BY <1>1, PiecesClosed
  <2>2. Len(ps) = 0 /\ 1..Len(ps) = {} /\ 0..Len(ps) = {0}
    BY <2>1
  <2> DEFINE w == [n \in 0..Len(ps) |-> <<>>]
  <2>3. w = [n \in 0..Len(ps) |-> w[n]] /\ Visits(w, ino, index, ps)
    BY <2>2 DEF Visits
  <2>4. Len(ps) \in Nat
    BY <2>2
  <2> HIDE DEF w
  <2>5. PICK v : Visits(v, ino, index, ps) /\ Places(i, start, end) = v[Len(ps)]
    BY <2>3, <2>4, PlacesLoop, Zenon
  <2> QED BY <1>1, <2>2, <2>5, Zenon DEF Visits
<1>2. CASE ~(start >= end)
  <2> DEFINE c == Count(start, end)
             R(n) == Run(ino, index, start, EndOf(start, end, n))
             w == [n \in 0..c |-> R(n)]
  <2>1. ps = PieceList(start, start \div BLOCK_SZ, end) /\ start < end /\ end \in Nat \ {0}
    BY <1>2, PiecesClosed
  <2>2. c \in Nat \ {0}
    <3>1. PieceNext(start, 0, end, To(start, end, 1))
      BY <2>1, PieceStep
    <3> QED BY <3>1 DEF PieceNext
  <2>3. Len(ps) = c /\ \A n \in 1..c : ps[n] = Piece(start, start \div BLOCK_SZ, end, n)
    <3> DEFINE W == {Piece(start, start \div BLOCK_SZ, end, n) : n \in 1..c}
    <3>1. ps \in [1..c -> W] /\ \A n \in 1..c : ps[n] = Piece(start, start \div BLOCK_SZ, end, n)
      BY <2>1, Zenon DEF PieceList
    <3>2. c \in Nat
      BY <2>2
    <3> HIDE DEF W, ps, c
    <3> QED BY <3>1, <3>2, FunctionIsSeq, Zenon
  <2> HIDE DEF ps
  <2>4. \A n \in 1..c : R(n) = R(n - 1) \o Expanded(ino, index, ps[n])
    <3> TAKE n \in 1..c
    <3>1. Run(ino, index, start, EndOf(start, end, n - 1))
            \o Expanded(ino, index, Piece(start, start \div BLOCK_SZ, end, n))
              = Run(ino, index, start, EndOf(start, end, n))
      <4>1. start < end /\ end \in Nat /\ n \in 1..Count(start, end)
        BY <2>1
      <4> QED BY <4>1, VisitStep, Zenon
    <3> QED BY <2>3, <3>1, Zenon
  <2>5. R(0) = <<>>
    <3>1. R(0) = [j \in 1..(start - start) |-> Place(ino, index, start + (j - 1))]
      BY Zenon DEF Run, EndOf
    <3>2. 1..(start - start) = 1..0
      OBVIOUS
    <3>3. R(0) = [j \in 1..0 |-> Place(ino, index, start + (j - 1))]
      BY <3>1, <3>2, Zenon
    <3> QED BY <3>3
  <2>6. R(c) = Run(ino, index, start, end)
    <3>1. c \in 1..c /\ c # 0
      BY <2>2
    <3>2. To(start, end, c) = end
      BY <2>1, <3>1, PieceBounds, Zenon
    <3> QED BY <3>1, <3>2, Zenon DEF EndOf
  <2> HIDE DEF R, c
  <2>7. \A n \in 1..c : n \in 0..c /\ n - 1 \in 0..c
    BY <2>2
  <2>8. 0 \in 0..c /\ c \in 0..c
    BY <2>2
  <2>9. Visits(w, ino, index, ps)
    BY <2>3, <2>4, <2>5, <2>7, <2>8, Zenon DEF Visits
  <2>10. w = [n \in 0..Len(ps) |-> w[n]]
    BY <2>3, Zenon
  <2> HIDE DEF w
  <2>11. Len(ps) \in Nat
    BY <2>2
  <2>12. PICK v : Visits(v, ino, index, ps) /\ Places(i, start, end) = v[Len(ps)]
    BY <2>9, <2>10, <2>11, PlacesLoop, Zenon DEF ps
  <2> DEFINE T == {n \in Nat : n <= c => v[n] = R(n)}
  <2>13. 0 \in T
    BY <2>5, <2>12, Zenon DEF Visits
  <2>14. ASSUME NEW n \in Nat, n \in T PROVE n + 1 \in T
    <3> SUFFICES ASSUME n + 1 <= c PROVE v[n + 1] = R(n + 1)
      OBVIOUS
    <3>1. n + 1 \in 1..c /\ (n + 1) - 1 = n /\ n <= c
      BY <2>2
    <3> USE <3>1
    <3>2. v[n] = R(n)
      BY <2>14
    <3>3. v[n + 1] = v[(n + 1) - 1] \o Expanded(ino, index, ps[n + 1])
      BY <2>3, <2>12, Zenon DEF Visits
    <3>4. R(n + 1) = R((n + 1) - 1) \o Expanded(ino, index, ps[n + 1])
      BY <2>4, Zenon
    <3> QED BY <3>2, <3>3, <3>4, Zenon
  <2> HIDE DEF T
  <2>15. Nat \subseteq T
    BY <2>13, <2>14, SetInduction, Zenon
  <2>16. v[c] = R(c)
    BY <2>2, <2>15 DEF T
  <2> QED BY <1>2, <2>3, <2>6, <2>12, <2>16, Zenon
<1> QED BY <1>1, <1>2

\* Two bytes of a file are at different places.
LEMMA PlacesDiffer ==
    ASSUME NEW ino, NEW dev, FileInv(ino, dev), NEW x \in Nat, NEW y \in Nat,
           x < ino.size, y < ino.size, Place(ino, dev, x) = Place(ino, dev, y)
    PROVE  x = y
<1> DEFINE B == BLOCK_SZ
           n == _data_blocks(ino.size)
           q(z) == z \div BLOCK_SZ
<1>1. B \in Nat \ {0}
  BY BlockAssumption
<1>2. ino.size \in Nat /\ Distinct(ino, dev, n)
  BY DEF FileInv, InodeType
<1>3. n \in Nat /\ ino.size <= n * B
  BY <1>2, DataBlocks
<1> USE <1>3
<1> HIDE DEF n
<1>4. ASSUME NEW z \in Nat, z < ino.size
      PROVE  /\ q(z) \in Nat /\ z = q(z) * B + (z % B) /\ q(z) \in Slots(n)
             /\ At(ino, dev, q(z)) = get_block_id(ino, dev, q(z))
  <2> DEFINE r == z % B
  <2>1. q(z) \in Nat /\ r \in 0..(B - 1) /\ z = q(z) * B + r
    BY <1>1, DivModBounds, Zenon
  <2> USE <2>1
  <2>2. q(z) < n
    <3> SUFFICES ASSUME n <= q(z) PROVE FALSE
      OBVIOUS
    <3> HIDE DEF q, r, B
    <3>1. n * B <= q(z) * B
      BY <1>1
    <3>2. n * B \in Nat /\ q(z) * B \in Nat
      BY <1>1
    <3> QED BY <1>2, <1>4, <3>1, <3>2
  <2> HIDE DEF q, r
  <2>3. q(z) \in Slots(n)
    BY <2>2, SlotFacts
  <2>4. At(ino, dev, q(z)) = get_block_id(ino, dev, q(z))
    BY DEF At
  <2> QED BY <2>3, <2>4, Zenon DEF r
<1>5. get_block_id(ino, dev, q(x)) = get_block_id(ino, dev, q(y)) /\ x % B = y % B
  BY DEF Place
<1> HIDE DEF q, B
<1>6. q(x) = q(y)
  BY <1>2, <1>4, <1>5, Zenon DEF Distinct
<1> QED BY <1>4, <1>5, <1>6, Zenon

\* A part of a run.
LEMMA PartOfRun ==
    ASSUME NEW ino, NEW dev, NEW size \in Nat, NEW x \in Nat, NEW y \in Nat, x < y, y <= size
    PROVE  SubSeq(Run(ino, dev, 0, size), x + 1, y) = Run(ino, dev, x, y)
<1> DEFINE W == AllPlaces(ino, dev)
           r == Run(ino, dev, 0, size)
           t == Run(ino, dev, x, y)
           P(k) == Place(ino, dev, k)
<1>1. r \in Seq(W) /\ Len(r) = size /\ \A j \in 1..size : r[j] = P(0 + (j - 1))
  <2>1. 0 <= size /\ 0 \in Nat /\ size - 0 = size
    OBVIOUS
  <2>2. IsRun(r, ino, dev, 0, size)
    BY <2>1, RunIsSeq, Zenon
  <2> HIDE DEF r
  <2> QED BY <2>1, <2>2, Zenon DEF IsRun
<1>2. t \in Seq(W) /\ Len(t) = y - x /\ \A j \in 1..(y - x) : t[j] = P(x + (j - 1))
  <2>1. x <= y
    OBVIOUS
  <2>2. IsRun(t, ino, dev, x, y)
    BY <2>1, RunIsSeq, Zenon
  <2> QED BY <2>2, Zenon DEF IsRun
<1> HIDE DEF W, r, t, P
<1> DEFINE u == SubSeq(r, x + 1, y)
<1>3. u \in Seq(W) /\ Len(u) = y - x
  BY <1>1
<1>4. ASSUME NEW j \in 1..(y - x) PROVE u[j] = t[j]
  <2>1. u[j] = r[x + j] /\ x + j \in 1..size /\ 0 + ((x + j) - 1) = x + (j - 1)
    BY <1>1
  <2>2. r[x + j] = P(0 + ((x + j) - 1))
    BY <1>1, <2>1, Zenon
  <2> QED BY <1>2, <2>1, <2>2, Zenon
<1>5. u = t
  BY <1>2, <1>3, <1>4
<1> QED BY <1>5, Zenon DEF r, t

\* read_at and write_at visit every byte of their range once and in order, and two bytes of a
\* file are never at the same place, for every block size and every file the operations reach.
THEOREM BytesHavePlaces == Spec => []EachByteItsPlace
<1>1. IInv => EachByteItsPlace
  <2> SUFFICES ASSUME IInv, NEW i \in Inode
               PROVE  /\ IsInjective(Places(i, 0, inode[i].size))
                      /\ Len(Places(i, 0, inode[i].size)) = inode[i].size
                      /\ \A start, end \in 0..inode[i].size :
                            Places(i, start, end) = SubSeq(Places(i, 0, inode[i].size), start + 1, end)
    BY Zenon DEF EachByteItsPlace
  <2> DEFINE size == inode[i].size
             all == Places(i, 0, size)
             r == Run(inode[i], index, 0, size)
  <2>1. FileInv(inode[i], index) /\ size \in Nat
    BY DEF IInv, FileInv, InodeType
  <2>2. all = r /\ r \in Seq(AllPlaces(inode[i], index)) /\ Len(r) = size /\ DOMAIN r = 1..size
        /\ \A j \in 1..size : r[j] = Place(inode[i], index, 0 + (j - 1))
    <3>1. 0 <= size /\ 0 \in Nat /\ size - 0 = size
      BY <2>1
    <3>2. IsRun(r, inode[i], index, 0, size)
      BY <2>1, <3>1, RunIsSeq, Zenon
    <3>3. all = IF 0 >= size THEN <<>> ELSE r
      BY <2>1, PlacesClosed, Zenon
    <3> HIDE DEF r, all
    <3>4. /\ r \in Seq(AllPlaces(inode[i], index)) /\ Len(r) = size /\ DOMAIN r = 1..size
          /\ \A j \in 1..size : r[j] = Place(inode[i], index, 0 + (j - 1))
      BY <3>1, <3>2, Zenon DEF IsRun
    <3>5. CASE 0 >= size
      <4>1. size = 0
        BY <2>1, <3>5
      <4>2. r = <<>>
        BY <3>4, <4>1
      <4> QED BY <3>3, <3>4, <4>2, Zenon
    <3>6. CASE ~(0 >= size)
      BY <3>3, <3>4, <3>6, Zenon
    <3> QED BY <3>5, <3>6, Zenon
  <2>3. IsInjective(r)
    <3> SUFFICES ASSUME NEW j \in 1..size, NEW k \in 1..size, r[j] = r[k] PROVE j = k
      BY <2>2, Zenon DEF IsInjective
    <3> DEFINE x == 0 + (j - 1)
               y == 0 + (k - 1)
    <3>1. x \in Nat /\ y \in Nat /\ x < size /\ y < size /\ (x = y => j = k)
      BY <2>1
    <3>2. Place(inode[i], index, x) = Place(inode[i], index, y)
      BY <2>2, Zenon
    <3> HIDE DEF x, y
    <3>3. x = y
      BY <2>1, <3>1, <3>2, PlacesDiffer, Zenon
    <3> QED BY <3>1, <3>3
  <2>4. ASSUME NEW start \in 0..size, NEW end \in 0..size
        PROVE  Places(i, start, end) = SubSeq(all, start + 1, end)
    <3>1. start \in Nat /\ end \in Nat /\ end <= size
      BY <2>1
    <3>2. Places(i, start, end) = IF start >= end THEN <<>> ELSE Run(inode[i], index, start, end)
      BY <3>1, PlacesClosed, Zenon
    <3>3. CASE start >= end
      <4>1. SubSeq(r, start + 1, end) = <<>>
        <5> HIDE DEF r
        <5> QED BY <2>2, <3>3
      <4> QED BY <2>2, <3>2, <3>3, <4>1, Zenon
    <3>4. CASE ~(start >= end)
      <4>1. start < end
        BY <3>1, <3>4
      <4>2. SubSeq(r, start + 1, end) = Run(inode[i], index, start, end)
        BY <2>1, <3>1, <4>1, PartOfRun, Zenon
      <4> QED BY <2>2, <3>2, <3>4, <4>2, Zenon
    <3> QED BY <3>3, <3>4
  <2> HIDE DEF r, all
  <2>5. IsInjective(all) /\ Len(all) = size
    BY <2>2, <2>3, Zenon
  <2> QED BY <2>4, <2>5, Zenon DEF all
<1> QED BY <1>1, Invariant, PTL
=============================================================================
