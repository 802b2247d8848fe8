------------------------------- MODULE Bitmap -------------------------------
(***************************************************************************)
(* The bitmap of easy-fs/src/bitmap.rs: blocks of words of bits.  A word   *)
(* (u64) is the set of the positions of its ones.                          *)
(***************************************************************************)
EXTENDS Integers

CONSTANTS
    Words,         \* words in a bitmap block (64)
    Bits,          \* bits in a word (64)
    BitmapBlocks   \* blocks of the bitmap

ASSUME BitmapAssumption ==
    Words \in Nat \ {0} /\ Bits \in Nat \ {0} /\ BitmapBlocks \in Nat

BLOCK_BITS == Words * Bits
Full == 0..(Bits - 1)

\* Every bit of the bitmap is clear (EasyFileSystem::create).
ClearBitmap == [b \in 0..(BitmapBlocks - 1) |-> [w \in 0..(Words - 1) |-> {}]]

\* Bitmap::maximum.
maximum == BitmapBlocks * BLOCK_BITS

\* (block_pos, bits64_pos, inner_pos).
decomposition_swapped(bit) ==
    LET r == bit % BLOCK_BITS
    IN  [block |-> bit \div BLOCK_BITS, word |-> r % Words, inner |-> r \div Words]

decomposition(bit) ==
    LET r == bit % BLOCK_BITS
    IN  [block |-> bit \div BLOCK_BITS, word |-> r \div Bits, inner |-> r % Bits]

\* u64::trailing_ones, for a word that is not full.
trailing_ones(word) == CHOOSE n \in Full \ word : 0..(n - 1) \subseteq word

\* Where alloc finds a clear bit: in the first block that has a word that is not
\* full, in the first such word, after its trailing ones.  Empty if all are full.
FirstClear(bm) ==
    {p \in [block : DOMAIN bm, word : 0..(Words - 1), inner : Full] :
        /\ bm[p.block][p.word] # Full
        /\ p.inner = trailing_ones(bm[p.block][p.word])
        /\ \A v \in 0..(p.word - 1) : bm[p.block][v] = Full
        /\ \A c \in 0..(p.block - 1) : \A v \in 0..(Words - 1) : bm[c][v] = Full}

\* Bitmap::alloc: the bit found and the bitmap with that bit set.
alloc(bm) ==
    {[bit |-> p.block * BLOCK_BITS + p.word * Bits + p.inner,
      bitmap |-> [bm EXCEPT ![p.block][p.word] = @ \cup {p.inner}]] :
        p \in FirstClear(bm)}

\* The assertion of Bitmap::dealloc: the bit is set.
IsSet(bm, bit) ==
    LET p == decomposition(bit) IN p.inner \in bm[p.block][p.word]

dealloc_word(bm, bit) ==
    LET p == decomposition(bit) IN [bm EXCEPT ![p.block][p.word] = {}]

\* Bitmap::dealloc.
dealloc(bm, bit) ==
    LET p == decomposition(bit)
    IN  [bm EXCEPT ![p.block][p.word] = @ \ {p.inner}]

\* The bits that are set, numbered as alloc numbers them.
Ones(bm) ==
    UNION {UNION {{b * BLOCK_BITS + w * Bits + i : i \in bm[b][w]} : w \in 0..(Words - 1)} :
               b \in DOMAIN bm}

\* What alloc promises for this bitmap: the lowest clear bit and no other is
\* set; it fails only if every bit is set; dealloc finds what alloc set.
AllocatesLowest(bm) ==
    LET clear == (0..(maximum - 1)) \ Ones(bm) IN
    /\ alloc(bm) = {} <=> clear = {}
    /\ \A a \in alloc(bm) :
        /\ a.bit \in clear /\ \A c \in clear : a.bit <= c
        /\ Ones(a.bitmap) = Ones(bm) \cup {a.bit}
    /\ \A bit \in Ones(bm) : IsSet(bm, bit) /\ Ones(dealloc(bm, bit)) = Ones(bm) \ {bit}
=============================================================================
