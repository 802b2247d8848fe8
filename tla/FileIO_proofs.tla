--------------------------- MODULE FileIO_proofs ---------------------------
(***************************************************************************)
(* Proofs about FileIO, for every page size, block size, table, file and   *)
(* buffer: what the loops of DiskInode and translated_byte_buffer cut a    *)
(* range into, what reading and writing those pieces does to the bytes     *)
(* of a file, the inductive invariant of the file calls with the safety    *)
(* properties that follow, and that the file calls implement OpenFiles.    *)
(***************************************************************************)
EXTENDS FileIO, WellFoundedInduction, TLAPS

\* A set of numbers has a least one.
LEMMA NatMin ==
    ASSUME NEW T, T \subseteq Nat, T # {}
    PROVE  \E x \in T : \A y \in T : x <= y
<1> DEFINE R == {ss \in Nat \X Nat : ss[1] < ss[2]}
<1>1. IsWellFoundedOn(R, Nat)
  BY NatLessThanWellFounded, Zenon DEF OpToRel
<1>3. \A x, y \in Nat : <<y, x>> \in R <=> y < x
  OBVIOUS
<1> HIDE DEF R
<1>2. \E x \in T : \A y \in T : ~ (<<y, x>> \in R)
  BY <1>1, WFMin, Zenon
<1>4. PICK x \in T : \A y \in T : ~ (<<y, x>> \in R)
  BY <1>2, Zenon
<1>5. \A y \in T : x \in Nat /\ y \in Nat /\ ~(y < x)
  BY <1>3, <1>4, Zenon
<1>6. \A y \in T : x <= y
  BY <1>5
<1> QED BY <1>6, Zenon

\* Induction: a set that has 0 and the successor of each member has every number.
LEMMA SetInduction ==
    ASSUME NEW T, 0 \in T, \A n \in Nat : n \in T => n + 1 \in T
    PROVE  Nat \subseteq T
<1>1. SUFFICES ASSUME Nat \ T # {} PROVE FALSE
  OBVIOUS
<1>2. PICK x \in Nat \ T : \A y \in Nat \ T : x <= y
  BY <1>1, NatMin, Zenon
<1>3. x # 0 /\ x - 1 \in Nat /\ x - 1 \in T
  BY <1>2
<1> QED BY <1>2, <1>3

\* The two loops start in the same state, and step n gives the same from the same.
StepsAlike(N, f, g) == f[0] = g[0] /\ \A n \in 1..N : f[n - 1] = g[n - 1] => f[n] = g[n]

\* The two loops go through the same states.
LoopsAgree(N, f, g) == \A n \in 0..N : f[n] = g[n]

\* Two loops with the same start and the same steps go through the same states.
LEMMA LoopUnique ==
    ASSUME NEW N \in Nat, NEW f, NEW g, StepsAlike(N, f, g)
    PROVE  LoopsAgree(N, f, g)
<1> DEFINE S == {n \in Nat : n <= N => f[n] = g[n]}
<1>1. 0 \in S
  BY DEF StepsAlike
<1>2. ASSUME NEW n \in Nat, n \in S PROVE n + 1 \in S
  <2> SUFFICES ASSUME n + 1 <= N PROVE f[n + 1] = g[n + 1]
    OBVIOUS
  <2>1. n + 1 \in 1..N /\ (n + 1) - 1 = n /\ f[n] = g[n]
    BY <1>2
  <2> QED BY <2>1 DEF StepsAlike
<1>3. Nat \subseteq S
  <2> HIDE DEF S
  <2> QED BY <1>1, <1>2, SetInduction
<1> QED BY <1>3 DEF LoopsAgree

\* g satisfies a recursion that stops with base and else applies h to the value at next.
Solves(g, D, stop, next, base, h) ==
    \A x \in D : g[x] = IF x \in stop THEN base[x] ELSE h[x][g[next[x]]]

\* A recursion that goes down in a measure m until it stops has a solution, so a
\* function defined by it satisfies its definition.
LEMMA Recursion ==
    ASSUME NEW D, NEW V, NEW stop,
           NEW next \in [D -> D], NEW m \in [D -> Nat],
           NEW base \in [D -> V], NEW h \in [D -> [V -> V]],
           \A x \in D : x \notin stop => m[next[x]] < m[x]
    PROVE  \E g \in [D -> V] : Solves(g, D, stop, next, base, h)
<1> DEFINE Rhs(g, x) == IF x \in stop THEN base[x] ELSE h[x][g[next[x]]]
           Sol == [n \in Nat |-> {g \in [D -> V] : \A x \in D : m[x] < n => g[x] = Rhs(g, x)}]
           S == {n \in Nat : Sol[n] # {}}
           U == {n \in Nat : \A a, b \in Nat : \A g1 \in Sol[a], g2 \in Sol[b] : \A x \in D :
                    m[x] < n /\ m[x] < a /\ m[x] < b => g1[x] = g2[x]}
<1>0. \A x \in D : m[x] \in Nat /\ next[x] \in D
  OBVIOUS
<1>s. \A n \in Nat : \A g : g \in Sol[n] <=>
        g \in [D -> V] /\ \A x \in D : m[x] < n => g[x] = Rhs(g, x)
  OBVIOUS
<1> HIDE DEF Sol
<1>1. Nat \subseteq S
  <2>1. 0 \in S
    <3>0. 0 \in Nat /\ \A x \in D : ~(m[x] < 0)
      BY <1>0
    <3>1. base \in Sol[0]
      BY <3>0 DEF Sol
    <3> QED BY <3>1
  <2>2. ASSUME NEW n \in Nat, n \in S PROVE n + 1 \in S
    <3>1. PICK g : g \in Sol[n]
      BY <2>2
    <3> DEFINE k == [x \in D |-> IF m[x] < n THEN g[x] ELSE Rhs(g, x)]
    <3>2. k \in [D -> V]
      BY <1>s, <3>1
    <3>3. \A x \in D : k[x] = IF m[x] < n THEN g[x] ELSE Rhs(g, x)
      OBVIOUS
    <3> HIDE DEF k
    <3>4. ASSUME NEW x \in D, m[x] < n + 1 PROVE k[x] = Rhs(k, x)
      <4>1. k[x] = Rhs(g, x)
        BY <1>s, <3>1, <3>3
      <4>2. x \notin stop => k[next[x]] = g[next[x]]
        <5>1. x \notin stop => m[next[x]] < n
          BY <1>0, <3>4
        <5> QED BY <5>1, <1>0, <3>3
      <4> QED BY <4>1, <4>2
    <3>5. k \in Sol[n + 1]
      <4>1. n + 1 \in Nat
        OBVIOUS
      <4> HIDE DEF Rhs
      <4> QED BY <1>s, <3>2, <3>4, <4>1, Zenon
    <3> QED BY <3>5
  <2> HIDE DEF S
  <2> QED BY <2>1, <2>2, SetInduction
<1>2. Nat \subseteq U
  <2>1. 0 \in U
    BY <1>0
  <2>2. ASSUME NEW n \in Nat, n \in U PROVE n + 1 \in U
    <3>1. ASSUME NEW a \in Nat, NEW b \in Nat, NEW g1 \in Sol[a], NEW g2 \in Sol[b],
                 NEW x \in D, m[x] < n + 1, m[x] < a, m[x] < b
          PROVE  g1[x] = g2[x]
      <4>1. g1[x] = Rhs(g1, x) /\ g2[x] = Rhs(g2, x)
        BY <1>s, <3>1
      <4>2. ASSUME x \notin stop PROVE g1[next[x]] = g2[next[x]]
        <5>1. next[x] \in D /\ m[next[x]] < n /\ m[next[x]] < a /\ m[next[x]] < b
          BY <1>0, <3>1, <4>2
        <5> QED BY <2>2, <5>1
      <4> QED BY <4>1, <4>2
    <3> QED BY <3>1
  <2> HIDE DEF U
  <2> QED BY <2>1, <2>2, SetInduction
<1> DEFINE gg == [n \in Nat |-> CHOOSE g : g \in Sol[n]]
           f == [x \in D |-> gg[m[x] + 1][x]]
<1>3. \A n \in Nat : gg[n] \in Sol[n]
  BY <1>1
<1> HIDE DEF gg
<1>4. f \in [D -> V]
  <2>1. \A x \in D : m[x] + 1 \in Nat
    BY <1>0
  <2>2. \A x \in D : gg[m[x] + 1] \in [D -> V]
    BY <2>1, <1>3, <1>s
  <2> QED BY <2>2
<1>5. \A x \in D : f[x] = gg[m[x] + 1][x]
  OBVIOUS
<1> HIDE DEF f
<1>6. ASSUME NEW x \in D PROVE f[x] = Rhs(f, x)
  <2> DEFINE a == m[x] + 1
             b == m[next[x]] + 1
  <2>1. a \in Nat /\ b \in Nat /\ m[x] < a /\ m[next[x]] < b
    BY <1>0
  <2>2. gg[a] \in Sol[a] /\ gg[b] \in Sol[b]
    BY <2>1, <1>3
  <2>3. f[x] = gg[a][x] /\ f[next[x]] = gg[b][next[x]]
    BY <1>0, <1>5
  <2>4. x \notin stop => m[next[x]] < a
    BY <1>0
  <2> HIDE DEF a, b
  <2>5. gg[a][x] = Rhs(gg[a], x)
    BY <1>s, <2>1, <2>2
  <2>6. x \notin stop => gg[a][next[x]] = gg[b][next[x]]
    <3>1. a \in U /\ b \in U
      BY <1>2, <2>1
    <3> QED BY <1>0, <2>1, <2>2, <2>4, <3>1
  <2> QED BY <2>3, <2>5, <2>6
<1> QED BY <1>4, <1>6 DEF Solves

-----------------------------------------------------------------------------

\* Quotient and remainder of places in blocks and pages of B bytes.
LEMMA MulMono ==
    ASSUME NEW B \in Nat, NEW a \in Int, NEW b \in Int, a <= b
    PROVE  a * B <= b * B
OBVIOUS

\* A place is a block and an offset in it.
LEMMA DivModBounds ==
    ASSUME NEW B \in Nat \ {0}, NEW a \in Nat
    PROVE  /\ a \div B \in Nat /\ (a % B) \in 0..(B - 1)
           /\ a = (a \div B) * B + (a % B)
OBVIOUS

\* A block and an offset in it are one place.
LEMMA DivModUnique ==
    ASSUME NEW B \in Nat \ {0}, NEW q \in Nat, NEW r \in 0..(B - 1)
    PROVE  /\ q * B + r \in Nat
           /\ (q * B + r) \div B = q /\ (q * B + r) % B = r
OBVIOUS

\* Where the block after that of place s begins.
LEMMA NextMultiple ==
    ASSUME NEW B \in Nat \ {0}, NEW s \in Nat
    PROVE  /\ (s \div B + 1) * B \in Nat
           /\ s < (s \div B + 1) * B
           /\ ((s \div B + 1) * B) \div B = s \div B + 1
           /\ ((s \div B + 1) * B) % B = 0
           /\ (s \div B + 1) * B = s - (s % B) + B
OBVIOUS

\* The blocks that hold size bytes are those that begin before size.
LEMMA CeilDiv ==
    ASSUME NEW B \in Nat \ {0}, NEW size \in Nat
    PROVE  /\ (size + B - 1) \div B \in Nat
           /\ \A j \in Nat \ {0} : j <= (size + B - 1) \div B <=> (j - 1) * B < size
<1> DEFINE n == (size + B - 1) \div B
<1>1. n \in Nat /\ size <= n * B /\ n * B < size + B
  OBVIOUS
<1> HIDE DEF n
<1>2. ASSUME NEW j \in Nat \ {0} PROVE  j <= n <=> (j - 1) * B < size
  <2>1. CASE j <= n
    <3>1. j * B <= n * B
      BY <1>1, <2>1, MulMono
    <3> QED BY <1>1, <2>1, <3>1
  <2>2. CASE ~(j <= n)
    <3>1. n * B <= (j - 1) * B
      BY <1>1, <2>2, MulMono
    <3> QED BY <1>1, <2>2, <3>1
  <2> QED BY <2>1, <2>2
<1> QED BY <1>1, <1>2 DEF n

\* Min and Max of two numbers.
LEMMA MinMaxTwo ==
    ASSUME NEW a \in Int, NEW b \in Int
    PROVE  /\ Min({a, b}) = IF a <= b THEN a ELSE b
           /\ Max({a, b}) = IF a <= b THEN b ELSE a
BY DEF Min, Max

-----------------------------------------------------------------------------

\* What one step of DiskInode::read_at and write_at copies: bytes of one block.
Piece == [block : Nat, offset : Nat, len : Int]

\* The pieces ps go from start to end and are cut at the places c, each within a block.
CutAt(ps, c, start, end) ==
    /\ c \in [0..Len(ps) -> Nat] /\ c[0] = start /\ c[Len(ps)] = end
    /\ \A n \in 0..Len(ps) : start <= c[n] /\ c[n] <= end
    /\ \A n \in 1..Len(ps) :
        /\ ps[n] = [block |-> c[n - 1] \div BLOCK_SZ, offset |-> c[n - 1] % BLOCK_SZ,
                    len |-> c[n] - c[n - 1]]
        /\ c[n - 1] < c[n] /\ (c[n - 1] % BLOCK_SZ) + (c[n] - c[n - 1]) <= BLOCK_SZ

\* A byte of a file has a block and a place in it.
LEMMA InBlock ==
    \A s \in Nat : /\ s \div BLOCK_SZ \in Nat /\ (s % BLOCK_SZ) \in 0..(BLOCK_SZ - 1)
                   /\ s % BLOCK_SZ \in Nat
                   /\ s = (s \div BLOCK_SZ) * BLOCK_SZ + (s % BLOCK_SZ)
<1> TAKE s \in Nat
<1>1. /\ s \div BLOCK_SZ \in Nat /\ (s % BLOCK_SZ) \in 0..(BLOCK_SZ - 1)
      /\ s = (s \div BLOCK_SZ) * BLOCK_SZ + (s % BLOCK_SZ)
  BY BlockAssumption, DivModBounds, Zenon
<1>2. s % BLOCK_SZ \in Nat
  BY <1>1, BlockAssumption
<1> QED BY <1>1, <1>2, Zenon

\* A piece before pieces that follow it.
LEMMA CutCons ==
    ASSUME NEW s \in Nat, NEW e \in Nat, NEW end \in Nat, s < e, e <= end,
           (s % BLOCK_SZ) + (e - s) <= BLOCK_SZ,
           NEW ps \in Seq(Piece), NEW c, CutAt(ps, c, e, end),
           NEW p, p = [block |-> s \div BLOCK_SZ, offset |-> s % BLOCK_SZ, len |-> e - s]
    PROVE  /\ <<p>> \o ps \in Seq(Piece)
           /\ \E d : CutAt(<<p>> \o ps, d, s, end)
<1> DEFINE N == Len(ps)
           r == <<p>> \o ps
           d == [k \in 0..(N + 1) |-> IF k = 0 THEN s ELSE c[k - 1]]
<1>0. N \in Nat /\ c \in [0..N -> Nat] /\ p \in Piece /\ <<p>> \in Seq(Piece)
  <2>1. s \div BLOCK_SZ \in Nat /\ s % BLOCK_SZ \in Nat
    BY InBlock, Zenon
  <2>2. p \in Piece
    BY <2>1 DEF Piece
  <2> QED BY <2>2 DEF CutAt
<1>1. /\ r \in Seq(Piece) /\ Len(r) = N + 1
      /\ r[1] = p /\ \A n \in 2..(N + 1) : r[n] = ps[n - 1]
  BY <1>0
<1>2. /\ d \in [0..(N + 1) -> Nat] /\ d[0] = s /\ \A k \in 1..(N + 1) : d[k] = c[k - 1]
  BY <1>0
<1> HIDE DEF d, r
<1>3. c[0] = e /\ c[N] = end /\ \A n \in 0..N : c[n] \in Nat /\ e <= c[n] /\ c[n] <= end
  BY <1>0 DEF CutAt
<1>4. d[N + 1] = end /\ d[1] = e
  <2>1. N + 1 \in 1..(N + 1) /\ 1 \in 1..(N + 1) /\ (N + 1) - 1 = N /\ 1 - 1 = 0
    BY <1>0
  <2> QED BY <1>2, <1>3, <2>1
<1>5. ASSUME NEW n \in 0..(N + 1) PROVE s <= d[n] /\ d[n] <= end
  <2>1. CASE n = 0
    BY <1>2, <2>1
  <2>2. CASE n \in 1..(N + 1)
    <3>1. n - 1 \in 0..N /\ d[n] = c[n - 1]
      BY <1>0, <1>2, <2>2
    <3> QED BY <1>3, <3>1
  <2> QED BY <2>1, <2>2
<1>6. ASSUME NEW n \in 1..(N + 1)
      PROVE  /\ r[n] = [block |-> d[n - 1] \div BLOCK_SZ, offset |-> d[n - 1] % BLOCK_SZ,
                        len |-> d[n] - d[n - 1]]
             /\ d[n - 1] < d[n] /\ (d[n - 1] % BLOCK_SZ) + (d[n] - d[n - 1]) <= BLOCK_SZ
  <2>1. CASE n = 1
    BY <1>1, <1>2, <1>4, <2>1
  <2>2. CASE n \in 2..(N + 1)
    <3>1. n - 1 \in 1..N /\ n - 1 \in 1..(N + 1) /\ n \in 1..(N + 1)
      BY <1>0, <2>2
    <3>2. r[n] = ps[n - 1] /\ d[n] = c[n - 1] /\ d[n - 1] = c[(n - 1) - 1]
      BY <1>1, <1>2, <2>2, <3>1, Zenon
    <3> QED BY <3>1, <3>2, Zenon DEF CutAt
  <2> QED BY <1>0, <2>1, <2>2
<1>7. CutAt(r, d, s, end)
  BY <1>1, <1>2, <1>4, <1>5, <1>6 DEF CutAt
<1> QED BY <1>1, <1>7 DEF r

\* The loop of read_at and write_at cuts a range into pieces that lie in one block each
\* and follow one another.
LEMMA PiecesCut ==
    ASSUME NEW start \in Nat, NEW end \in Nat, start < end
    PROVE  Pieces(start, end) \in Seq(Piece) /\ \E c : CutAt(Pieces(start, end), c, start, end)
<1> USE BlockAssumption
<1> DEFINE D == Nat \X Nat
           e(s) == min((s \div BLOCK_SZ + 1) * BLOCK_SZ, end)
           p(x) == [block |-> x[2], offset |-> x[1] % BLOCK_SZ, len |-> e(x[1]) - x[1]]
           Eq(g) == [x \in D |-> <<p(x)>> \o (IF e(x[1]) = end THEN <<>>
                                              ELSE g[<<e(x[1]), x[2] + 1>>])]
           from == CHOOSE g : g = Eq(g)
<1>1. \A s \in Nat : /\ e(s) \in Nat /\ (e(s) = end \/ (s < e(s) /\ e(s) < end))
                     /\ s < end => /\ s < e(s) /\ e(s) <= end
                                   /\ (s % BLOCK_SZ) + (e(s) - s) <= BLOCK_SZ
                                   /\ e(s) # end => e(s) \div BLOCK_SZ = s \div BLOCK_SZ + 1
  <2> TAKE s \in Nat
  <2> DEFINE q == (s \div BLOCK_SZ + 1) * BLOCK_SZ
  <2>1. /\ q \in Nat /\ s < q /\ q \div BLOCK_SZ = s \div BLOCK_SZ + 1
        /\ q = s - (s % BLOCK_SZ) + BLOCK_SZ /\ (s % BLOCK_SZ) \in Nat
    BY NextMultiple, DivModBounds
  <2> HIDE DEF q
  <2>2. e(s) = IF q <= end THEN q ELSE end
    BY <2>1 DEF q, min
  <2> HIDE DEF e
  <2> QED BY <2>1, <2>2
<1> HIDE DEF e
<1>2. \A x \in D : x[1] \in Nat /\ x[2] \in Nat /\ p(x) \in Piece
  <2>1. \A s \in Nat : s % BLOCK_SZ \in Nat
    BY DivModBounds
  <2> QED BY <1>1, <2>1 DEF Piece
<1>3. \E g \in [D -> Seq(Piece)] : g = Eq(g)
  <2> DEFINE stop == {x \in D : e(x[1]) = end}
             next == [x \in D |-> <<e(x[1]), x[2] + 1>>]
             m == [x \in D |-> IF x[1] < end THEN end - x[1] ELSE 0]
             base == [x \in D |-> <<p(x)>>]
             h == [x \in D |-> [v \in Seq(Piece) |-> <<p(x)>> \o v]]
  <2> HIDE DEF p
  <2>1. next \in [D -> D] /\ m \in [D -> Nat]
    BY <1>1, <1>2
  <2>2. base \in [D -> Seq(Piece)] /\ h \in [D -> [Seq(Piece) -> Seq(Piece)]]
    BY <1>2
  <2>3. \A x \in D : x \notin stop => m[next[x]] < m[x]
    <3> SUFFICES ASSUME NEW x \in D, e(x[1]) # end PROVE m[next[x]] < m[x]
      OBVIOUS
    <3>1. x[1] \in Nat /\ e(x[1]) \in Nat /\ x[1] < e(x[1]) /\ e(x[1]) < end
      BY <1>1, <1>2
    <3>2. next[x] \in D /\ next[x][1] = e(x[1])
      BY <1>2, <3>1
    <3> QED BY <3>1, <3>2
  <2> HIDE DEF D, stop, next, m, base, h
  <2>4. PICK g \in [D -> Seq(Piece)] : Solves(g, D, stop, next, base, h)
    BY <2>1, <2>2, <2>3, Recursion, Zenon
  <2>5. ASSUME NEW x \in D PROVE g[x] = Eq(g)[x]
    <3>1. g[next[x]] \in Seq(Piece) /\ next[x] = <<e(x[1]), x[2] + 1>>
      BY <2>1, Zenon DEF next, D
    <3>2. CASE e(x[1]) = end
      BY <1>2, <2>4, <3>2 DEF Solves, stop, base, D
    <3>3. CASE e(x[1]) # end
      BY <1>2, <2>4, <3>1, <3>3, Zenon DEF Solves, stop, h, D
    <3> QED BY <3>2, <3>3, Zenon
  <2> QED BY <2>5, Zenon
<1>4. \E g : g = Eq(g)
  BY <1>3, Zenon
<1>5. from = Eq(from)
  BY <1>4, Zenon
<1> HIDE DEF from
<1>6. \A s, b \in Nat :
        from[<<s, b>>] = <<[block |-> b, offset |-> s % BLOCK_SZ, len |-> e(s) - s]>>
                            \o (IF e(s) = end THEN <<>> ELSE from[<<e(s), b + 1>>])
  BY <1>5, Zenon
<1> DEFINE Good(s) == LET ps == from[<<s, s \div BLOCK_SZ>>]
                      IN  ps \in Seq(Piece) /\ \E c : CutAt(ps, c, s, end)
           T == {n \in Nat : \A s \in Nat : s < end /\ end - s <= n => Good(s)}
<1>7. 0 \in T
  OBVIOUS
<1>8. ASSUME NEW n \in Nat, n \in T PROVE n + 1 \in T
  <2> SUFFICES ASSUME NEW s \in Nat, s < end, end - s <= n + 1 PROVE Good(s)
    OBVIOUS
  <2> DEFINE q == s \div BLOCK_SZ
             r == [block |-> q, offset |-> s % BLOCK_SZ, len |-> e(s) - s]
             ps == IF e(s) = end THEN <<>> ELSE from[<<e(s), q + 1>>]
  <2>1. q \in Nat /\ from[<<s, q>>] = <<r>> \o ps
    BY <1>6, DivModBounds, Zenon
  <2>2. /\ e(s) \in Nat /\ s < e(s) /\ e(s) <= end /\ (s % BLOCK_SZ) + (e(s) - s) <= BLOCK_SZ
        /\ e(s) # end => e(s) \div BLOCK_SZ = q + 1
    BY <1>1
  <2>3. ps \in Seq(Piece) /\ \E c : CutAt(ps, c, e(s), end)
    <3>1. CASE e(s) = end
      <4>1. CutAt(<<>>, [k \in 0..0 |-> end], end, end)
        BY DEF CutAt
      <4> QED BY <3>1, <4>1
    <3>2. CASE e(s) # end
      <4>1. e(s) < end /\ end - e(s) <= n
        BY <2>2, <3>2
      <4> QED BY <1>8, <2>2, <3>2, <4>1
    <3> QED BY <3>1, <3>2
  <2>4. PICK c : CutAt(ps, c, e(s), end)
    BY <2>3
  <2>5. r = [block |-> s \div BLOCK_SZ, offset |-> s % BLOCK_SZ, len |-> e(s) - s]
    OBVIOUS
  <2> HIDE DEF ps, e, r
  <2>6. <<r>> \o ps \in Seq(Piece) /\ \E d : CutAt(<<r>> \o ps, d, s, end)
    BY <2>2, <2>3, <2>4, <2>5, CutCons, Zenon
  <2> QED BY <2>1, <2>6
<1>9. Nat \subseteq T
  <2> HIDE DEF T
  <2> QED BY <1>7, <1>8, SetInduction
<1>10. Good(start)
  <2>1. end - start \in Nat /\ Nat \subseteq T
    BY <1>9
  <2> HIDE DEF Good
  <2> QED BY <2>1
<1>11. Pieces(start, end) = from[<<start, start \div BLOCK_SZ>>]
  <2>1. ~(start >= end)
    OBVIOUS
  <2> QED BY <2>1, Zenon DEF Pieces, from, e
<1> QED BY <1>10, <1>11

-----------------------------------------------------------------------------

\* What translated_byte_buffer pushes for one page: the bytes from one offset to another.
Slice == [vpn : Nat, from : Nat, to : Nat]

\* The slices sl go from address start to address end and are cut at the addresses c,
\* each within a page.
SlicedAt(sl, c, start, end) ==
    /\ c \in [0..Len(sl) -> Nat] /\ c[0] = start /\ c[Len(sl)] = end
    /\ \A n \in 0..Len(sl) : start <= c[n] /\ c[n] <= end
    /\ \A n \in 1..Len(sl) :
        /\ sl[n] = [vpn |-> floor(c[n - 1]), from |-> page_offset(c[n - 1]),
                    to |-> page_offset(c[n - 1]) + (c[n] - c[n - 1])]
        /\ c[n - 1] < c[n] /\ page_offset(c[n - 1]) + (c[n] - c[n - 1]) <= PAGE_SIZE

\* An address has a page and a place in it.
LEMMA InPage ==
    \A s \in Nat : floor(s) \in Nat /\ page_offset(s) \in 0..(PAGE_SIZE - 1)
                   /\ page_offset(s) \in Nat
<1> TAKE s \in Nat
<1>1. floor(s) \in Nat /\ page_offset(s) \in 0..(PAGE_SIZE - 1)
  BY PageAssumption, DivModBounds, Zenon DEF floor, page_offset
<1>2. page_offset(s) \in Nat
  BY <1>1, PageAssumption
<1> QED BY <1>1, <1>2, Zenon

\* A slice before slices that follow it.
LEMMA SliceCons ==
    ASSUME NEW s \in Nat, NEW e \in Nat, NEW end \in Nat, s < e, e <= end,
           page_offset(s) + (e - s) <= PAGE_SIZE,
           NEW sl \in Seq(Slice), NEW c, SlicedAt(sl, c, e, end),
           NEW p, p = [vpn |-> floor(s), from |-> page_offset(s),
                       to |-> page_offset(s) + (e - s)]
    PROVE  /\ <<p>> \o sl \in Seq(Slice)
           /\ \E d : SlicedAt(<<p>> \o sl, d, s, end)
<1> DEFINE N == Len(sl)
           r == <<p>> \o sl
           d == [k \in 0..(N + 1) |-> IF k = 0 THEN s ELSE c[k - 1]]
<1>0. N \in Nat /\ c \in [0..N -> Nat] /\ p \in Slice /\ <<p>> \in Seq(Slice)
  <2>1. floor(s) \in Nat /\ page_offset(s) \in Nat
    BY InPage, Zenon
  <2>2. p \in Slice
    BY <2>1 DEF Slice
  <2> QED BY <2>2 DEF SlicedAt
<1>1. /\ r \in Seq(Slice) /\ Len(r) = N + 1
      /\ r[1] = p /\ \A n \in 2..(N + 1) : r[n] = sl[n - 1]
  BY <1>0
<1>2. /\ d \in [0..(N + 1) -> Nat] /\ d[0] = s /\ \A k \in 1..(N + 1) : d[k] = c[k - 1]
  BY <1>0
<1> HIDE DEF d, r
<1>3. c[0] = e /\ c[N] = end /\ \A n \in 0..N : c[n] \in Nat /\ e <= c[n] /\ c[n] <= end
  BY <1>0, Zenon DEF SlicedAt
<1>4. d[N + 1] = end /\ d[1] = e
  <2>1. N + 1 \in 1..(N + 1) /\ 1 \in 1..(N + 1) /\ (N + 1) - 1 = N /\ 1 - 1 = 0
    BY <1>0
  <2> QED BY <1>2, <1>3, <2>1
<1>5. ASSUME NEW n \in 0..(N + 1) PROVE s <= d[n] /\ d[n] <= end
  <2>1. CASE n = 0
    BY <1>2, <2>1
  <2>2. CASE n \in 1..(N + 1)
    <3>1. n - 1 \in 0..N /\ d[n] = c[n - 1]
      BY <1>0, <1>2, <2>2
    <3> QED BY <1>3, <3>1
  <2> QED BY <2>1, <2>2
<1>6. ASSUME NEW n \in 1..(N + 1)
      PROVE  /\ r[n] = [vpn |-> floor(d[n - 1]), from |-> page_offset(d[n - 1]),
                        to |-> page_offset(d[n - 1]) + (d[n] - d[n - 1])]
             /\ d[n - 1] < d[n] /\ page_offset(d[n - 1]) + (d[n] - d[n - 1]) <= PAGE_SIZE
  <2>1. CASE n = 1
    BY <1>1, <1>2, <1>4, <2>1
  <2>2. CASE n \in 2..(N + 1)
    <3>1. n - 1 \in 1..N /\ n - 1 \in 1..(N + 1) /\ n \in 1..(N + 1)
      BY <1>0, <2>2
    <3>2. r[n] = sl[n - 1] /\ d[n] = c[n - 1] /\ d[n - 1] = c[(n - 1) - 1]
      BY <1>1, <1>2, <2>2, <3>1, Zenon
    <3> QED BY <3>1, <3>2, Zenon DEF SlicedAt
  <2> QED BY <1>0, <2>1, <2>2
<1>7. SlicedAt(r, d, s, end)
  BY <1>1, <1>2, <1>4, <1>5, <1>6 DEF SlicedAt
<1> QED BY <1>1, <1>7 DEF r

\* translated_byte_buffer cuts a buffer into slices that lie in one page each and follow
\* one another; the end offset 0 stands for the end of the page.
LEMMA SlicesCut ==
    ASSUME NEW ptr \in Nat, NEW len \in Nat
    PROVE  /\ translated_byte_buffer(ptr, len) \in Seq(Slice)
           /\ \E c : SlicedAt(translated_byte_buffer(ptr, len), c, ptr, ptr + len)
<1> USE PageAssumption
<1> DEFINE end == ptr + len
           e(s) == Min({(floor(s) + 1) * PAGE_SIZE, end})
           p(s) == [vpn |-> floor(s), from |-> page_offset(s),
                    to |-> IF page_offset(e(s)) = 0 THEN PAGE_SIZE ELSE page_offset(e(s))]
           Eq(g) == [s \in Nat |-> IF s < end THEN <<p(s)>> \o g[e(s)] ELSE <<>>]
           from == CHOOSE g : g = Eq(g)
<1>0. end \in Nat
  OBVIOUS
<1> HIDE DEF end
<1>1. \A s \in Nat : /\ e(s) \in Nat
                     /\ s < end =>
                         /\ s < e(s) /\ e(s) <= end
                         /\ page_offset(s) + (e(s) - s) <= PAGE_SIZE
                         /\ (IF page_offset(e(s)) = 0 THEN PAGE_SIZE ELSE page_offset(e(s)))
                               = page_offset(s) + (e(s) - s)
  <2> TAKE s \in Nat
  <2> DEFINE b == s \div PAGE_SIZE
             r == s % PAGE_SIZE
             q == (b + 1) * PAGE_SIZE
  <2>1. /\ q \in Nat /\ s < q /\ q % PAGE_SIZE = 0
        /\ q = s - r + PAGE_SIZE
    BY NextMultiple, Zenon
  <2>2. b \in Nat /\ r \in 0..(PAGE_SIZE - 1) /\ s = b * PAGE_SIZE + r
    BY DivModBounds, Zenon
  <2>3. e(s) = IF q <= end THEN q ELSE end
    BY <1>0, <2>1, MinMaxTwo DEF floor
  <2>4. \A k \in 0..(PAGE_SIZE - 1) : (b * PAGE_SIZE + k) % PAGE_SIZE = k
    BY <2>2, DivModUnique
  <2> HIDE DEF e, q, b, r
  <2>5. CASE q <= end
    <3>1. e(s) = q /\ page_offset(e(s)) = 0 /\ page_offset(s) = r
      BY <2>1, <2>3, <2>5 DEF page_offset, r
    <3> QED BY <2>1, <2>2, <2>5, <3>1
  <2>6. CASE end < q /\ s < end
    <3> DEFINE k == end - s + r
    <3>1. k \in 0..(PAGE_SIZE - 1) /\ k # 0 /\ end = b * PAGE_SIZE + k
      <4>1. b * PAGE_SIZE \in Int
        BY <2>2
      <4> QED BY <1>0, <2>1, <2>2, <2>6, <4>1
    <3>2. e(s) = end /\ page_offset(s) = r
      BY <1>0, <2>1, <2>3, <2>6 DEF page_offset, r
    <3>3. page_offset(end) = k
      BY <2>4, <3>1 DEF page_offset
    <3> QED BY <1>0, <2>2, <2>6, <3>1, <3>2, <3>3
  <2>7. CASE end < q /\ ~(s < end)
    BY <1>0, <2>1, <2>3, <2>7
  <2> QED BY <1>0, <2>1, <2>5, <2>6, <2>7
<1> HIDE DEF e
<1>2. \A s \in Nat : s < end => p(s) \in Slice
  BY <1>1, InPage DEF Slice
<1>3. \E g \in [Nat -> Seq(Slice)] : g = Eq(g)
  <2> DEFINE stop == {x \in Nat : ~(x < end)}
             next == [x \in Nat |-> e(x)]
             m == [x \in Nat |-> IF x < end THEN end - x ELSE 0]
             base == [x \in Nat |-> <<>>]
             h == [x \in Nat |-> [v \in Seq(Slice) |-> IF x < end THEN <<p(x)>> \o v ELSE v]]
  <2> HIDE DEF p
  <2>1. next \in [Nat -> Nat] /\ m \in [Nat -> Nat]
    BY <1>0, <1>1
  <2>2. base \in [Nat -> Seq(Slice)] /\ h \in [Nat -> [Seq(Slice) -> Seq(Slice)]]
    BY <1>2
  <2>3. \A x \in Nat : x \notin stop => m[next[x]] < m[x]
    BY <1>0, <1>1
  <2> HIDE DEF stop, next, m, base, h
  <2>4. PICK g \in [Nat -> Seq(Slice)] : Solves(g, Nat, stop, next, base, h)
    BY <2>1, <2>2, <2>3, Recursion, Zenon
  <2>5. ASSUME NEW x \in Nat PROVE g[x] = Eq(g)[x]
    <3>1. g[next[x]] \in Seq(Slice) /\ next[x] = e(x)
      BY <2>1 DEF next
    <3>2. CASE x < end
      BY <1>2, <2>4, <3>1, <3>2, Zenon DEF Solves, stop, h
    <3>3. CASE ~(x < end)
      BY <2>4, <3>3 DEF Solves, stop, base
    <3> QED BY <3>2, <3>3
  <2> QED BY <2>5, Zenon
<1>4. \E g : g = Eq(g)
  BY <1>3, Zenon
<1>5. from = Eq(from)
  BY <1>4, Zenon
<1> HIDE DEF from
<1>6. \A s \in Nat : from[s] = IF s < end THEN <<p(s)>> \o from[e(s)] ELSE <<>>
  BY <1>5, Zenon
<1> DEFINE Good(s) == from[s] \in Seq(Slice) /\ \E c : SlicedAt(from[s], c, s, end)
           T == {n \in Nat : \A s \in Nat : s <= end /\ end - s <= n => Good(s)}
<1>7. ASSUME NEW s \in Nat, s = end PROVE Good(s)
  <2>0. ~(s < end)
    BY <1>0, <1>7
  <2>1. from[s] = <<>>
    BY <1>6, <2>0, Zenon
  <2>2. SlicedAt(<<>>, [k \in 0..0 |-> s], s, s)
    BY DEF SlicedAt
  <2> QED BY <1>7, <2>1, <2>2
<1>8. 0 \in T
  <2>1. \A s \in Nat : s <= end /\ end - s <= 0 => s = end
    BY <1>0
  <2> HIDE DEF Good
  <2> QED BY <1>7, <2>1
<1>9. ASSUME NEW n \in Nat, n \in T PROVE n + 1 \in T
  <2>1. ASSUME NEW s \in Nat, s < end, end - s <= n + 1 PROVE Good(s)
    <3>1. from[s] = <<p(s)>> \o from[e(s)]
      BY <1>6, <2>1, Zenon
    <3>2. /\ e(s) \in Nat /\ s < e(s) /\ e(s) <= end /\ page_offset(s) + (e(s) - s) <= PAGE_SIZE
          /\ p(s) = [vpn |-> floor(s), from |-> page_offset(s),
                     to |-> page_offset(s) + (e(s) - s)]
      BY <1>1, <2>1
    <3>3. Good(e(s))
      <4>1. e(s) <= end /\ end - e(s) <= n
        BY <1>0, <2>1, <3>2
      <4> HIDE DEF Good
      <4> QED BY <1>9, <3>2, <4>1
    <3>4. PICK c : SlicedAt(from[e(s)], c, e(s), end)
      BY <3>3
    <3> HIDE DEF e, p
    <3>5. <<p(s)>> \o from[e(s)] \in Seq(Slice) /\ \E d : SlicedAt(<<p(s)>> \o from[e(s)], d, s, end)
      BY <1>0, <2>1, <3>2, <3>3, <3>4, SliceCons, Zenon
    <3> QED BY <3>1, <3>5
  <2>2. \A s \in Nat : s <= end => s < end \/ s = end
    BY <1>0
  <2> HIDE DEF Good
  <2> QED BY <1>7, <2>1, <2>2
<1>10. Nat \subseteq T
  <2> HIDE DEF T
  <2> QED BY <1>8, <1>9, SetInduction
<1>11. Good(ptr)
  <2>1. ptr <= end /\ end - ptr \in Nat /\ Nat \subseteq T
    BY <1>10 DEF end
  <2> HIDE DEF Good
  <2> QED BY <2>1
<1>12. translated_byte_buffer(ptr, len) = from[ptr]
  BY Zenon DEF translated_byte_buffer, from, e, end
<1> QED BY <1>11, <1>12 DEF end

-----------------------------------------------------------------------------

\* Places that follow one another without reaching the end of the block.
LEMMA SameBlock ==
    ASSUME NEW B \in Nat \ {0}, NEW s \in Nat, NEW k \in Nat, (s % B) + k < B
    PROVE  (s + k) \div B = s \div B /\ (s + k) % B = (s % B) + k
<1> DEFINE q == s \div B
           r == (s % B) + k
<1>1. q \in Nat /\ (s % B) \in 0..(B - 1) /\ s = q * B + (s % B)
  BY DivModBounds, Zenon
<1>2. r \in 0..(B - 1)
  BY <1>1
<1>3. s + k = q * B + r
  <2>1. q * B \in Int /\ s % B \in Int
    BY <1>1
  <2> HIDE DEF q
  <2> QED BY <1>1, <2>1
<1> HIDE DEF q, r
<1>4. (q * B + r) \div B = q /\ (q * B + r) % B = r
  BY <1>1, <1>2, DivModUnique, Zenon
<1> QED BY <1>3, <1>4 DEF q, r

\* A sequence without elements is the empty one.
LEMMA NoLength ==
    ASSUME NEW S, NEW s \in Seq(S)
    PROVE  s = <<>> <=> Len(s) = 0
OBVIOUS

\* The elements of two sequences, one after the other.
LEMMA Joined ==
    ASSUME NEW S, NEW a \in Seq(S), NEW b \in Seq(S)
    PROVE  a \o b = [k \in 1..(Len(a) + Len(b)) |-> IF k <= Len(a) THEN a[k] ELSE b[k - Len(a)]]
<1> DEFINE t == a \o b
           n == Len(a) + Len(b)
<1>1. t \in Seq(S) /\ Len(t) = n
  OBVIOUS
<1>2. \A k \in 1..n : k <= Len(a) => t[k] = a[k]
  OBVIOUS
<1>3. \A k \in 1..n : ~(k <= Len(a)) => t[k] = b[k - Len(a)]
  OBVIOUS
<1> HIDE DEF t, n
<1>4. DOMAIN t = 1..n /\ t = [k \in DOMAIN t |-> t[k]]
  BY <1>1
<1>5. \A k \in 1..n : t[k] = IF k <= Len(a) THEN a[k] ELSE b[k - Len(a)]
  BY <1>2, <1>3, Zenon
<1>6. t = [k \in 1..n |-> IF k <= Len(a) THEN a[k] ELSE b[k - Len(a)]]
  BY <1>4, <1>5, Zenon
<1> QED BY <1>6, Zenon DEF t, n

\* A part of a sequence.
LEMMA SubSeqOf ==
    ASSUME NEW S, NEW s \in Seq(S), NEW m \in Nat, NEW n \in Nat, n <= Len(s)
    PROVE  SubSeq(s, m + 1, n) = [k \in 1..(n - m) |-> s[m + k]]
<1> DEFINE t == SubSeq(s, m + 1, n)
<1>1. DOMAIN t = 1..(n - m) /\ \A k \in 1..(n - m) : t[k] = s[m + k]
  OBVIOUS
<1>2. t = [k \in DOMAIN t |-> t[k]]
  OBVIOUS
<1> HIDE DEF t
<1>3. t = [k \in 1..(n - m) |-> s[m + k]]
  BY <1>1, <1>2, Zenon
<1> QED BY <1>3, Zenon DEF t

\* The first n values of f, and those after the first m of them.
FirstOf(f, n) == [k \in 1..n |-> f[k]]
RestOf(f, m, n) == [k \in 1..(n - m) |-> f[m + k]]

\* A sequence is its first m elements followed by the rest.
LEMMA FirstAndRest ==
    ASSUME NEW n \in Nat, NEW m \in 0..n, NEW f
    PROVE  FirstOf(f, m) \o RestOf(f, m, n) = FirstOf(f, n)
<1> DEFINE S == {f[k] : k \in 1..n}
           a == FirstOf(f, m)
           b == RestOf(f, m, n)
<1>0. /\ n - m \in Nat /\ m \in Nat /\ \A k \in 1..n : f[k] \in S
      /\ \A k \in 1..m : k \in 1..n
      /\ \A k \in 1..(n - m) : m + k \in 1..n
  OBVIOUS
<1> HIDE DEF S
<1>1. a \in Seq(S) /\ Len(a) = m /\ \A k \in 1..m : a[k] = f[k]
  BY <1>0 DEF FirstOf
<1>2. b \in Seq(S) /\ Len(b) = n - m /\ \A k \in 1..(n - m) : b[k] = f[m + k]
  <2>1. \A k \in 1..(n - m) : f[m + k] \in S
    BY <1>0, Zenon
  <2> QED BY <1>0, <2>1 DEF RestOf
<1> HIDE DEF a, b
<1>3. a \o b = [k \in 1..n |-> IF k <= m THEN a[k] ELSE b[k - m]]
  <2>1. a \o b = [k \in 1..(Len(a) + Len(b)) |-> IF k <= Len(a) THEN a[k] ELSE b[k - Len(a)]]
    BY <1>1, <1>2, Joined, Zenon
  <2>2. Len(a) + Len(b) = n
    BY <1>1, <1>2
  <2> QED BY <1>1, <2>1, <2>2, Zenon
<1>4. ASSUME NEW k \in 1..n PROVE (IF k <= m THEN a[k] ELSE b[k - m]) = f[k]
  <2>1. k <= m => k \in 1..m
    OBVIOUS
  <2>2. ~(k <= m) => k - m \in 1..(n - m) /\ m + (k - m) = k
    OBVIOUS
  <2> QED BY <1>1, <1>2, <2>1, <2>2, Zenon
<1>5. a \o b = [k \in 1..n |-> f[k]]
  BY <1>3, <1>4, Zenon
<1> QED BY <1>5, Zenon DEF a, b, FirstOf

\* What the cuts say of each piece and of each byte of it.
WellCut(ps, c, start, end) ==
    /\ Len(ps) \in Nat /\ c \in [0..Len(ps) -> Nat]
    /\ c[0] = start /\ c[Len(ps)] = end
    /\ \A n \in 0..Len(ps) : c[n] \in Nat /\ start <= c[n] /\ c[n] <= end
    /\ \A n \in 1..Len(ps) :
         /\ n \in 0..Len(ps) /\ n - 1 \in 0..Len(ps) /\ c[n - 1] < c[n]
         /\ ps[n] = [block |-> c[n - 1] \div BLOCK_SZ, offset |-> c[n - 1] % BLOCK_SZ,
                     len |-> c[n] - c[n - 1]]
         /\ \A k \in 0..(c[n] - c[n - 1] - 1) :
              /\ (c[n - 1] + k) \div BLOCK_SZ = c[n - 1] \div BLOCK_SZ
              /\ (c[n - 1] + k) % BLOCK_SZ = (c[n - 1] % BLOCK_SZ) + k

\* Pieces that CutAt describes are well cut: the places are numbers in order, and each
\* byte of a piece has the block and the offset that the division gives it.
LEMMA CutFacts ==
    ASSUME NEW ps \in Seq(Piece), NEW c, NEW start \in Nat, NEW end \in Nat,
           CutAt(ps, c, start, end)
    PROVE  WellCut(ps, c, start, end)
<1>1. /\ Len(ps) \in Nat /\ c \in [0..Len(ps) -> Nat]
      /\ c[0] = start /\ c[Len(ps)] = end
  BY DEF CutAt
<1>2. \A n \in 0..Len(ps) : c[n] \in Nat
  BY <1>1
<1>3. \A n \in 0..Len(ps) : start <= c[n] /\ c[n] <= end
  BY Zenon DEF CutAt
<1>4. ASSUME NEW n \in 1..Len(ps)
      PROVE  /\ n \in 0..Len(ps) /\ n - 1 \in 0..Len(ps) /\ c[n - 1] < c[n]
             /\ ps[n] = [block |-> c[n - 1] \div BLOCK_SZ, offset |-> c[n - 1] % BLOCK_SZ,
                         len |-> c[n] - c[n - 1]]
             /\ \A k \in 0..(c[n] - c[n - 1] - 1) :
                  /\ (c[n - 1] + k) \div BLOCK_SZ = c[n - 1] \div BLOCK_SZ
                  /\ (c[n - 1] + k) % BLOCK_SZ = (c[n - 1] % BLOCK_SZ) + k
  <2> DEFINE x == c[n - 1]
             y == c[n]
  <2>1. n \in 0..Len(ps) /\ n - 1 \in 0..Len(ps)
    BY <1>1
  <2>2. /\ ps[n] = [block |-> x \div BLOCK_SZ, offset |-> x % BLOCK_SZ, len |-> y - x]
        /\ x < y /\ (x % BLOCK_SZ) + (y - x) <= BLOCK_SZ
    BY Zenon DEF CutAt
  <2>3. x \in Nat /\ y \in Nat
    BY <1>2, <2>1
  <2> HIDE DEF x, y
  <2>4. ASSUME NEW k \in 0..(y - x - 1)
        PROVE  /\ (x + k) \div BLOCK_SZ = x \div BLOCK_SZ
               /\ (x + k) % BLOCK_SZ = (x % BLOCK_SZ) + k
    <3>1. x % BLOCK_SZ \in Nat
      BY <2>3, InBlock, Zenon
    <3>2. k \in Nat /\ (x % BLOCK_SZ) + k < BLOCK_SZ
      BY <2>2, <2>3, <3>1, BlockAssumption
    <3> QED BY <2>3, <3>2, SameBlock, BlockAssumption, Zenon
  <2> QED BY <2>1, <2>2, <2>4, Zenon DEF x, y
<1> QED BY <1>1, <1>2, <1>3, <1>4, Zenon DEF WellCut

\* Byte a of the blocks data.
ByteOf(data, a) == data[a \div BLOCK_SZ + 1][a % BLOCK_SZ]

\* read_at returns the bytes from offset on, as many as asked or as there are.
LEMMA ReadAt ==
    ASSUME NEW f, files[f].size \in Nat, NEW offset \in Nat, NEW len \in Nat, NEW upto,
           upto = IF offset + len <= files[f].size THEN offset + len ELSE files[f].size
    PROVE  read_at(f, offset, len) =
               [k \in 1..(upto - offset) |-> ByteOf(files[f].data, offset + k - 1)]
<1> DEFINE data == files[f].data
           ps == Pieces(offset, upto)
           Copied(p) == [k \in 1..p.len |-> data[p.block + 1][p.offset + k - 1]]
           Eq(g) == [n \in 0..Len(ps) |-> IF n = 0 THEN <<>> ELSE g[n - 1] \o Copied(ps[n])]
           buf == CHOOSE g : g = Eq(g)
           N == Len(ps)
           F == [k \in Nat |-> ByteOf(data, offset + k - 1)]
<1>1. upto \in Nat /\ Min({offset + len, files[f].size}) = upto
  BY MinMaxTwo
<1>2. read_at(f, offset, len) = buf[Len(ps)]
  BY <1>1, Zenon DEF read_at
<1>3. CASE offset < upto
  <2>1. ps \in Seq(Piece) /\ \E c : CutAt(ps, c, offset, upto)
    BY <1>1, <1>3, PiecesCut, Zenon
  <2>2. PICK c : WellCut(ps, c, offset, upto)
    BY <1>1, <2>1, CutFacts, Zenon
  <2> HIDE DEF ps
  <2> DEFINE E == [n \in 0..N |-> [k \in 1..(c[n] - offset) |-> F[k]]]
  <2>f. /\ N \in Nat /\ c \in [0..N -> Nat] /\ c[0] = offset /\ c[N] = upto
        /\ \A n \in 0..N : c[n] \in Nat /\ offset <= c[n]
        /\ \A n \in 1..N :
             /\ n \in 0..N /\ n - 1 \in 0..N /\ c[n - 1] < c[n]
             /\ ps[n] = [block |-> c[n - 1] \div BLOCK_SZ, offset |-> c[n - 1] % BLOCK_SZ,
                         len |-> c[n] - c[n - 1]]
             /\ \A k \in 0..(c[n] - c[n - 1] - 1) :
                  /\ (c[n - 1] + k) \div BLOCK_SZ = c[n - 1] \div BLOCK_SZ
                  /\ (c[n - 1] + k) % BLOCK_SZ = (c[n - 1] % BLOCK_SZ) + k
    BY <2>2, Zenon DEF N, WellCut
  <2>3. N \in Nat /\ \A n \in 0..N : c[n] \in Nat /\ offset <= c[n]
    BY <2>f, Zenon
  <2> HIDE DEF N
  <2>4. ASSUME NEW n \in 1..N PROVE E[n] = E[n - 1] \o Copied(ps[n])
    <3> DEFINE x == c[n - 1]
               y == c[n]
    <3>1. x \in Nat /\ y \in Nat /\ offset <= x /\ x < y /\ n - 1 \in 0..N /\ n \in 0..N
      BY <2>f, Zenon
    <3>2. /\ ps[n] = [block |-> x \div BLOCK_SZ, offset |-> x % BLOCK_SZ, len |-> y - x]
          /\ \A k \in 0..(y - x - 1) : /\ (x + k) \div BLOCK_SZ = x \div BLOCK_SZ
                                      /\ (x + k) % BLOCK_SZ = (x % BLOCK_SZ) + k
      BY <2>f, Zenon
    <3> HIDE DEF x, y
    <3>3. Copied(ps[n]) = [k \in 1..((y - offset) - (x - offset)) |-> F[(x - offset) + k]]
      <4>1. (y - offset) - (x - offset) = y - x
        BY <3>1
      <4>2. ASSUME NEW k \in 1..(y - x)
            PROVE  data[x \div BLOCK_SZ + 1][(x % BLOCK_SZ) + k - 1] = F[(x - offset) + k]
        <5>1. k - 1 \in 0..(y - x - 1) /\ x % BLOCK_SZ \in Int
          BY <3>1, BlockAssumption
        <5>2. /\ (x + (k - 1)) \div BLOCK_SZ = x \div BLOCK_SZ
              /\ (x + (k - 1)) % BLOCK_SZ = (x % BLOCK_SZ) + (k - 1)
          BY <3>2, <5>1, Zenon
        <5>3. /\ (x - offset) + k \in Nat
              /\ offset + ((x - offset) + k) - 1 = x + (k - 1)
              /\ (x % BLOCK_SZ) + k - 1 = (x % BLOCK_SZ) + (k - 1)
          BY <3>1, <5>1
        <5> QED BY <5>2, <5>3 DEF ByteOf
      <4> HIDE DEF F, data
      <4> QED BY <3>2, <4>1, <4>2
    <3>4. /\ E[n] = [k \in 1..(y - offset) |-> F[k]]
          /\ E[n - 1] = [k \in 1..(x - offset) |-> F[k]]
      BY <3>1 DEF x, y
    <3>5. y - offset \in Nat /\ x - offset \in 0..(y - offset)
      BY <3>1
    <3> HIDE DEF E, Copied, F
    <3>6. FirstOf(F, x - offset) \o RestOf(F, x - offset, y - offset) = FirstOf(F, y - offset)
      BY <3>5, FirstAndRest, Zenon
    <3> QED BY <3>3, <3>4, <3>6, Zenon DEF FirstOf, RestOf
  <2>5. E[0] = <<>>
    <3>1. c[0] - offset = 0 /\ 0 \in 0..N
      BY <2>f
    <3> QED BY <3>1
  <2>6. E = Eq(E)
    <3>1. \A n \in 0..N : n = 0 \/ n \in 1..N
      BY <2>3
    <3>2. \A n \in 0..N : E[n] = IF n = 0 THEN <<>> ELSE E[n - 1] \o Copied(ps[n])
      <4> HIDE DEF E, Copied
      <4> QED BY <2>4, <2>5, <3>1, Zenon
    <3>3. E = [n \in 0..N |-> E[n]]
      OBVIOUS
    <3> HIDE DEF E, Copied
    <3> QED BY <3>2, <3>3, Zenon DEF N
  <2> HIDE DEF E
  <2>7. \E g : g = Eq(g)
    BY <2>6, Zenon
  <2>8. buf = Eq(buf)
    BY <2>7, Zenon
  <2> HIDE DEF buf
  <2>9. \A n \in 0..N : buf[n] = E[n]
    <3>1. \A n \in 0..N : buf[n] = IF n = 0 THEN <<>> ELSE buf[n - 1] \o Copied(ps[n])
      <4> HIDE DEF Copied
      <4> QED BY <2>8, Zenon DEF N
    <3>2. \A n \in 1..N : n \in 0..N /\ n # 0
      BY <2>3
    <3>3. 0 \in 0..N
      BY <2>3
    <3> HIDE DEF Copied
    <3>4. buf[0] = E[0]
      BY <2>5, <3>1, <3>3, Zenon
    <3>5. StepsAlike(N, buf, E)
      BY <2>4, <3>1, <3>2, <3>4, Zenon DEF StepsAlike
    <3>6. LoopsAgree(N, buf, E)
      BY <2>3, <3>5, LoopUnique
    <3> QED BY <3>6 DEF LoopsAgree
  <2>10. buf[N] = [k \in 1..(upto - offset) |-> F[k]]
    <3>1. N \in 0..N /\ c[N] = upto
      BY <2>f
    <3> QED BY <2>9, <3>1, Zenon DEF E
  <2>11. [k \in 1..(upto - offset) |-> F[k]] =
           [k \in 1..(upto - offset) |-> ByteOf(data, offset + k - 1)]
    <3>1. \A k \in 1..(upto - offset) : k \in Nat
      BY <1>1
    <3> QED BY <3>1
  <2> QED BY <1>2, <2>10, <2>11 DEF N
<1>4. CASE ~(offset < upto)
  <2>0. offset >= upto /\ 1..(upto - offset) = {}
    BY <1>1, <1>4
  <2>1. ps = <<>> /\ 1..(upto - offset) = {}
    BY <2>0, Zenon DEF Pieces
  <2> DEFINE E == [n \in 0..0 |-> <<>>]
  <2>2. E = Eq(E)
    BY <2>1
  <2>3. \E g : g = Eq(g)
    BY <2>2, Zenon
  <2>4. buf = Eq(buf)
    BY <2>3, Zenon
  <2> HIDE DEF buf
  <2>5. buf[0] = <<>>
    <3>1. 0 \in 0..Len(ps)
      BY <2>1
    <3> HIDE DEF ps, Copied
    <3> QED BY <2>4, <3>1
  <2> QED BY <1>2, <2>1, <2>5
<1> QED BY <1>3, <1>4

-----------------------------------------------------------------------------

\* The contents of a block of a file: bytes that were written, and zeros.
Block == [0..(BLOCK_SZ - 1) -> Byte \cup {Zero}]

\* The blocks that size bytes need.
NBlocks(size) == (size + BLOCK_SZ - 1) \div BLOCK_SZ

\* A file has the blocks its size needs, with zeros from its end on.
GoodFile ==
    {file \in [size : Nat, data : Seq(Block)] :
        /\ Len(file.data) = NBlocks(file.size)
        /\ \A j \in 1..Len(file.data), k \in 0..(BLOCK_SZ - 1) :
              file.size <= (j - 1) * BLOCK_SZ + k => file.data[j][k] = Zero}

\* The size of the file once it has a byte below end.
Grown(file, end) == IF file.size <= end THEN end ELSE file.size

\* Byte k of block j of the file once bs is at place at.
After(file, at, bs, j, k) ==
    LET a == (j - 1) * BLOCK_SZ + k
    IN  IF at <= a /\ a < at + Len(bs) THEN bs[a - at + 1]
        ELSE IF j <= Len(file.data) THEN file.data[j][k] ELSE Zero

\* The file with bs at place at, and zeros between its end and at.
Written(file, at, bs) ==
    [size |-> Grown(file, at + Len(bs)),
     data |-> [j \in 1..NBlocks(Grown(file, at + Len(bs))) |->
                 [k \in 0..(BLOCK_SZ - 1) |-> After(file, at, bs, j, k)]]]

\* A block number and an offset are a place of the file.
LEMMA PlaceOf ==
    ASSUME NEW j \in Nat \ {0}, NEW k \in 0..(BLOCK_SZ - 1)
    PROVE  /\ (j - 1) * BLOCK_SZ + k \in Nat
           /\ ((j - 1) * BLOCK_SZ + k) \div BLOCK_SZ = j - 1
           /\ ((j - 1) * BLOCK_SZ + k) % BLOCK_SZ = k
<1>1. j - 1 \in Nat
  OBVIOUS
<1> QED BY <1>1, BlockAssumption, DivModUnique, Zenon

\* write_at puts all the bytes at their places and changes no other byte.
LEMMA WriteAt ==
    ASSUME NEW file \in GoodFile, NEW at \in Nat, NEW bs \in Seq(Byte), bs # <<>>
    PROVE  write_at(file, at, bs) = [file |-> Written(file, at, bs), written |-> Len(bs)]
<1> DEFINE end == at + Len(bs)
           size == Max({file.size, end})
           nblocks == NBlocks(size)
           grown == [n \in 1..nblocks |-> IF n <= Len(file.data) THEN file.data[n] ELSE ZeroBlock]
           ps == Pieces(at, Min({end, size}))
           N == Len(ps)
           Copy(to, p) ==
               [data |-> [to.data EXCEPT ![p.block + 1] = [k \in DOMAIN @ |->
                            IF k \in p.offset..(p.offset + p.len - 1)
                            THEN bs[to.written + k - p.offset + 1] ELSE @[k]]],
                written |-> to.written + p.len]
           Eq(g) == [n \in 0..Len(ps) |->
                        IF n = 0 THEN [data |-> grown, written |-> 0] ELSE Copy(g[n - 1], ps[n])]
           st == CHOOSE g : g = Eq(g)
<1>0. /\ file.size \in Nat /\ file.data \in Seq(Block)
      /\ Len(bs) \in Nat /\ Len(bs) # 0 /\ end \in Nat /\ at < end
  BY NoLength DEF GoodFile
<1>1. /\ size \in Nat /\ end <= size /\ size = (IF file.size <= end THEN end ELSE file.size)
      /\ Min({end, size}) = end
  <2>1. size = IF file.size <= end THEN end ELSE file.size
    <3>1. file.size \in Int /\ end \in Int
      BY <1>0
    <3> HIDE DEF end
    <3> QED BY <3>1, MinMaxTwo, Zenon
  <2> HIDE DEF size, end
  <2>2. size \in Nat /\ end <= size
    BY <1>0, <2>1
  <2>3. Min({end, size}) = end
    BY <1>0, <2>2, MinMaxTwo
  <2> QED BY <2>1, <2>2, <2>3
<1>2. write_at(file, at, bs) = [file |-> [size |-> size, data |-> st[Len(ps)].data],
                                written |-> st[Len(ps)].written]
  BY Zenon DEF write_at, NBlocks
<1>3. ps \in Seq(Piece) /\ \E c : CutAt(ps, c, at, end)
  BY <1>0, <1>1, PiecesCut, Zenon
<1>4. PICK c : WellCut(ps, c, at, end)
  BY <1>0, <1>3, CutFacts, Zenon
<1>5. /\ N \in Nat /\ c \in [0..N -> Nat] /\ c[0] = at /\ c[N] = end
      /\ \A n \in 0..N : c[n] \in Nat /\ at <= c[n] /\ c[n] <= end
      /\ \A n \in 1..N :
           /\ n \in 0..N /\ n - 1 \in 0..N /\ c[n - 1] < c[n]
           /\ ps[n] = [block |-> c[n - 1] \div BLOCK_SZ, offset |-> c[n - 1] % BLOCK_SZ,
                       len |-> c[n] - c[n - 1]]
           /\ \A k \in 0..(c[n] - c[n - 1] - 1) :
                /\ (c[n - 1] + k) \div BLOCK_SZ = c[n - 1] \div BLOCK_SZ
                /\ (c[n - 1] + k) % BLOCK_SZ = (c[n - 1] % BLOCK_SZ) + k
  BY <1>4, Zenon DEF N, WellCut
<1>6. /\ nblocks \in Nat
      /\ \A j \in Nat \ {0} : j <= nblocks <=> (j - 1) * BLOCK_SZ < size
  BY <1>1, CeilDiv, BlockAssumption, Zenon DEF NBlocks
<1>7. /\ \A j \in 1..nblocks : grown[j] \in Block /\ grown[j] = [k \in 0..(BLOCK_SZ - 1) |-> grown[j][k]]
      /\ \A j \in 1..nblocks : \A k \in 0..(BLOCK_SZ - 1) :
            grown[j][k] = IF j <= Len(file.data) THEN file.data[j][k] ELSE Zero
  <2>1. ZeroBlock \in Block
    BY DEF ZeroBlock, Block
  <2>2. \A j \in 1..nblocks : j <= Len(file.data) => file.data[j] \in Block
    BY <1>0, <1>6
  <2>3. \A j \in 1..nblocks : grown[j] = IF j <= Len(file.data) THEN file.data[j] ELSE ZeroBlock
    OBVIOUS
  <2> HIDE DEF grown, nblocks
  <2>4. \A j \in 1..nblocks : grown[j] \in Block
    BY <2>1, <2>2, <2>3
  <2>5. \A b \in Block : b = [k \in 0..(BLOCK_SZ - 1) |-> b[k]]
    BY DEF Block
  <2>6. \A j \in 1..nblocks : grown[j] = [k \in 0..(BLOCK_SZ - 1) |-> grown[j][k]]
    BY <2>4, <2>5, Zenon
  <2>7. \A k \in 0..(BLOCK_SZ - 1) : ZeroBlock[k] = Zero
    BY DEF ZeroBlock
  <2>8. \A j \in 1..nblocks : \A k \in 0..(BLOCK_SZ - 1) :
            grown[j][k] = IF j <= Len(file.data) THEN file.data[j][k] ELSE Zero
    BY <2>3, <2>7, Zenon
  <2> QED BY <2>4, <2>6, <2>8, Zenon
<1>8. grown = [j \in 1..nblocks |-> grown[j]]
  OBVIOUS
<1> DEFINE Upto(x) == [j \in 1..nblocks |-> [k \in 0..(BLOCK_SZ - 1) |->
                          LET a == (j - 1) * BLOCK_SZ + k
                          IN  IF at <= a /\ a < x THEN bs[a - at + 1] ELSE grown[j][k]]]
           E == [n \in 0..N |-> [data |-> Upto(c[n]), written |-> c[n] - at]]
<1> HIDE DEF nblocks, grown, ps, N, size, end
<1>9. E[0] = [data |-> grown, written |-> 0]
  <2>1. 0 \in 0..N /\ c[0] - at = 0 /\ c[0] = at
    BY <1>5
  <2>2. Upto(at) = grown
    <3>1. \A j \in 1..nblocks : \A k \in 0..(BLOCK_SZ - 1) : (j - 1) * BLOCK_SZ + k \in Nat
      BY <1>6, PlaceOf
    <3>2. \A a \in Nat : ~(at <= a /\ a < at)
      OBVIOUS
    <3>3. \A j \in 1..nblocks : Upto(at)[j] = [k \in 0..(BLOCK_SZ - 1) |-> grown[j][k]]
      BY <3>1, <3>2
    <3>4. Upto(at) = [j \in 1..nblocks |-> Upto(at)[j]]
      OBVIOUS
    <3> HIDE DEF Upto
    <3>5. \A j \in 1..nblocks : Upto(at)[j] = grown[j]
      BY <1>7, <3>3, Zenon
    <3> QED BY <1>8, <3>4, <3>5
  <2> HIDE DEF Upto
  <2> QED BY <2>1, <2>2
<1>10. ASSUME NEW n \in 1..N PROVE E[n] = Copy(E[n - 1], ps[n])
  <2> DEFINE x == c[n - 1]
             y == c[n]
             b == x \div BLOCK_SZ
             r == x % BLOCK_SZ
  <2>1. /\ x \in Nat /\ y \in Nat /\ at <= x /\ x < y /\ y <= end /\ n - 1 \in 0..N /\ n \in 0..N
    BY <1>5, Zenon
  <2>2. /\ ps[n] = [block |-> b, offset |-> r, len |-> y - x]
        /\ \A k \in 0..(y - x - 1) : (x + k) \div BLOCK_SZ = b /\ (x + k) % BLOCK_SZ = r + k
    BY <1>5, Zenon
  <2>3. b \in Nat /\ r \in 0..(BLOCK_SZ - 1) /\ r \in Nat /\ x = b * BLOCK_SZ + r
    BY <2>1, InBlock, Zenon
  <2> HIDE DEF x, y, b, r
  <2>4. b + 1 \in 1..nblocks
    <3>1. b + 1 \in Nat \ {0} /\ (b + 1) - 1 = b /\ b * BLOCK_SZ \in Int
      BY <2>3, BlockAssumption
    <3>2. b * BLOCK_SZ < size
      BY <1>0, <1>1, <2>1, <2>3, <3>1
    <3> QED BY <1>6, <3>1, <3>2
  <2>5. E[n] = [data |-> Upto(y), written |-> y - at]
        /\ E[n - 1] = [data |-> Upto(x), written |-> x - at]
    <3> HIDE DEF Upto
    <3> QED BY <2>1 DEF x, y
  <2>6. Copy(E[n - 1], ps[n]).written = y - at
    <3> HIDE DEF E, Upto
    <3> QED BY <1>0, <2>1, <2>2, <2>5
  <2> DEFINE New == [k \in 0..(BLOCK_SZ - 1) |->
                       IF k \in r..(r + (y - x) - 1)
                       THEN bs[(x - at) + k - r + 1] ELSE Upto(x)[b + 1][k]]
  <2>7. Copy(E[n - 1], ps[n]).data = [Upto(x) EXCEPT ![b + 1] = New]
    <3>1. DOMAIN (Upto(x)[b + 1]) = 0..(BLOCK_SZ - 1)
      BY <2>4
    <3> DEFINE Put(d, w, i, q, len) ==
                 [d EXCEPT ![i] = [k \in DOMAIN @ |->
                     IF k \in q..(q + len - 1) THEN bs[w + k - q + 1] ELSE @[k]]]
    <3> HIDE DEF E, Upto
    <3>2. Copy(E[n - 1], ps[n]).data =
              Put(E[n - 1].data, E[n - 1].written, ps[n].block + 1, ps[n].offset, ps[n].len)
      OBVIOUS
    <3>3. /\ E[n - 1].data = Upto(x) /\ E[n - 1].written = x - at
          /\ ps[n].block = b /\ ps[n].offset = r /\ ps[n].len = y - x
      BY <2>2, <2>5
    <3>4. Put(Upto(x), x - at, b + 1, r, y - x) = [Upto(x) EXCEPT ![b + 1] = New]
      BY <3>1
    <3> HIDE DEF Put, Copy, New
    <3> QED BY <3>2, <3>3, <3>4
  <2>8. ASSUME NEW j \in 1..nblocks, NEW k \in 0..(BLOCK_SZ - 1)
        PROVE  Upto(y)[j][k] = [Upto(x) EXCEPT ![b + 1] = New][j][k]
    <3> DEFINE a == (j - 1) * BLOCK_SZ + k
    <3>1. a \in Nat /\ a \div BLOCK_SZ = j - 1 /\ a % BLOCK_SZ = k
      BY <1>6, PlaceOf
    <3>2. /\ Upto(y)[j][k] = IF at <= a /\ a < y THEN bs[a - at + 1] ELSE grown[j][k]
          /\ Upto(x)[j][k] = IF at <= a /\ a < x THEN bs[a - at + 1] ELSE grown[j][k]
      OBVIOUS
    <3>3. [Upto(x) EXCEPT ![b + 1] = New][j] = IF j = b + 1 THEN New ELSE Upto(x)[j]
      BY Zenon
    <3>4. CASE j = b + 1
      <4>1. New[k] = IF k \in r..(r + (y - x) - 1) THEN bs[(x - at) + k - r + 1] ELSE Upto(x)[j][k]
        BY <3>4
      <4>2. a = x + k - r
        <5>1. (j - 1) = b /\ b * BLOCK_SZ \in Int
          BY <2>3, <3>4, BlockAssumption
        <5> QED BY <2>3, <5>1
      <4>3. (x - at) + k - r + 1 = a - at + 1
        BY <2>1, <2>3, <4>2
      <4>4. k \in r..(r + (y - x) - 1) <=> x <= a /\ a < y
        <5> HIDE DEF a, New, Upto, E, Copy
        <5>1. a \in Int /\ k \in Int /\ r \in Int /\ x \in Int /\ y \in Int
          BY <2>1, <2>3, <3>1
        <5> QED BY <4>2, <5>1
      <4> HIDE DEF a, New, Upto
      <4> QED BY <2>1, <3>1, <3>2, <3>3, <3>4, <4>1, <4>3, <4>4
    <3>5. CASE j # b + 1
      <4>1. ~(x <= a /\ a < y)
        <5>1. SUFFICES ASSUME x <= a, a < y PROVE FALSE
          OBVIOUS
        <5>2. a - x \in 0..(y - x - 1) /\ x + (a - x) = a
          BY <2>1, <3>1, <5>1
        <5>3. a \div BLOCK_SZ = b
          BY <2>2, <5>2
        <5> QED BY <2>3, <3>1, <3>5, <5>3
      <4> HIDE DEF a, New, Upto
      <4> QED BY <2>1, <3>1, <3>2, <3>3, <3>5, <4>1
    <3> QED BY <3>4, <3>5
  <2>9. Upto(y) = [Upto(x) EXCEPT ![b + 1] = New]
    <3> DEFINE W == [Upto(x) EXCEPT ![b + 1] = New]
    <3>1. /\ DOMAIN W = 1..nblocks /\ DOMAIN Upto(y) = 1..nblocks
          /\ W = [j \in 1..nblocks |-> W[j]] /\ Upto(y) = [j \in 1..nblocks |-> Upto(y)[j]]
      BY Zenon
    <3>2. \A j \in 1..nblocks : /\ W[j] = [k \in 0..(BLOCK_SZ - 1) |-> W[j][k]]
                                /\ Upto(y)[j] = [k \in 0..(BLOCK_SZ - 1) |-> Upto(y)[j][k]]
      BY <2>4, Zenon
    <3>3. \A j \in 1..nblocks, k \in 0..(BLOCK_SZ - 1) : Upto(y)[j][k] = W[j][k]
      <4> HIDE DEF Upto, New
      <4> QED BY <2>8
    <3> HIDE DEF W, Upto
    <3>4. \A j \in 1..nblocks : Upto(y)[j] = W[j]
      BY <3>2, <3>3, Zenon
    <3> QED BY <3>1, <3>4, Zenon DEF W
  <2>10. Copy(E[n - 1], ps[n]) = [data |-> Copy(E[n - 1], ps[n]).data,
                                  written |-> Copy(E[n - 1], ps[n]).written]
    <3> HIDE DEF E, Upto
    <3> QED OBVIOUS
  <2> HIDE DEF E, Upto, Copy, New
  <2> QED BY <2>5, <2>6, <2>7, <2>9, <2>10, Zenon
<1>11. E = Eq(E)
  <2>1. \A n \in 0..N : n = 0 \/ n \in 1..N
    BY <1>5
  <2>2. E = [n \in 0..N |-> E[n]]
    OBVIOUS
  <2> HIDE DEF E, Copy
  <2>3. \A n \in 0..N : E[n] = IF n = 0 THEN [data |-> grown, written |-> 0]
                               ELSE Copy(E[n - 1], ps[n])
    BY <1>9, <1>10, <2>1, Zenon
  <2> QED BY <2>2, <2>3, Zenon DEF N
<1> HIDE DEF E
<1>12. \E g : g = Eq(g)
  BY <1>11, Zenon
<1>13. st = Eq(st)
  BY <1>12, Zenon
<1> HIDE DEF st
<1>14. \A n \in 0..N : st[n] = E[n]
  <2> HIDE DEF Copy
  <2>1. \A n \in 0..N : st[n] = IF n = 0 THEN [data |-> grown, written |-> 0]
                                ELSE Copy(st[n - 1], ps[n])
    BY <1>13, Zenon DEF N
  <2>2. 0 \in 0..N /\ \A n \in 1..N : n \in 0..N /\ n # 0
    BY <1>5
  <2>3. st[0] = E[0]
    BY <1>9, <2>1, <2>2, Zenon
  <2>4. StepsAlike(N, st, E)
    BY <1>10, <2>1, <2>2, <2>3, Zenon DEF StepsAlike
  <2>5. LoopsAgree(N, st, E)
    BY <1>5, <2>4, LoopUnique
  <2> QED BY <2>5 DEF LoopsAgree
<1>15. st[N] = [data |-> Upto(end), written |-> Len(bs)]
  <2>1. N \in 0..N /\ c[N] = end /\ end - at = Len(bs)
    BY <1>0, <1>5 DEF end
  <2> HIDE DEF Upto
  <2> QED BY <1>14, <2>1 DEF E
<1>16. [size |-> size, data |-> Upto(end)] = Written(file, at, bs)
  <2>1. ASSUME NEW j \in 1..nblocks, NEW k \in 0..(BLOCK_SZ - 1)
        PROVE  Upto(end)[j][k] = Written(file, at, bs).data[j][k]
    BY <1>1, <1>7 DEF Written, Grown, After, end, nblocks
  <2>2. Written(file, at, bs).data = [j \in 1..nblocks |-> [k \in 0..(BLOCK_SZ - 1) |->
             Written(file, at, bs).data[j][k]]]
    BY <1>1 DEF Written, Grown, end, nblocks
  <2>3. Upto(end) = [j \in 1..nblocks |-> [k \in 0..(BLOCK_SZ - 1) |-> Upto(end)[j][k]]]
    OBVIOUS
  <2>4. Written(file, at, bs) = [size |-> size, data |-> Written(file, at, bs).data]
    BY <1>1 DEF Written, Grown, end
  <2> HIDE DEF Upto
  <2> QED BY <2>1, <2>2, <2>3, <2>4
<1> HIDE DEF Upto
<1> QED BY <1>2, <1>15, <1>16 DEF N

-----------------------------------------------------------------------------

\* w is the file with bs at place at, by its parts.
IsWritten(w, size, file, at, bs) ==
    /\ w = [size |-> size, data |-> w.data] /\ w.size = size
    /\ w.data = [j \in 1..NBlocks(size) |-> w.data[j]]
    /\ \A j \in 1..NBlocks(size) :
         /\ w.data[j] = [k \in 0..(BLOCK_SZ - 1) |-> w.data[j][k]]
         /\ \A k \in 0..(BLOCK_SZ - 1) : w.data[j][k] = After(file, at, bs, j, k)

\* Written by its parts.
LEMMA WrittenParts ==
    ASSUME NEW file, NEW at, NEW bs
    PROVE  IsWritten(Written(file, at, bs), Grown(file, at + Len(bs)), file, at, bs)
BY DEF Written, IsWritten

\* The blocks that a size needs are those that begin below it.
LEMMA BlocksOf ==
    ASSUME NEW size \in Nat
    PROVE  /\ NBlocks(size) \in Nat
           /\ \A j \in Nat \ {0} : j <= NBlocks(size) <=> (j - 1) * BLOCK_SZ < size
BY CeilDiv, BlockAssumption DEF NBlocks

\* A file that is written to keeps its shape.
LEMMA WrittenGood ==
    ASSUME NEW file \in GoodFile, NEW at \in Nat, NEW bs \in Seq(Byte)
    PROVE  Written(file, at, bs) \in GoodFile
<1> DEFINE W == Written(file, at, bs)
           size == IF file.size <= at + Len(bs) THEN at + Len(bs) ELSE file.size
           n == NBlocks(size)
<1>0. /\ file.size \in Nat /\ file.data \in Seq(Block) /\ Len(file.data) \in Nat
      /\ \A j \in 1..Len(file.data) : file.data[j] \in Block
      /\ \A j \in 1..Len(file.data), k \in 0..(BLOCK_SZ - 1) :
            file.size <= (j - 1) * BLOCK_SZ + k => file.data[j][k] = Zero
      /\ Len(bs) \in Nat
      /\ \A i \in 1..Len(bs) : bs[i] \in Byte
  BY DEF GoodFile
<1>1. size \in Nat /\ file.size <= size /\ at + Len(bs) <= size
  BY <1>0
<1>2. n \in Nat
  <2> HIDE DEF size
  <2> QED BY <1>1, BlocksOf
<1>3. IsWritten(W, size, file, at, bs)
  BY WrittenParts DEF Grown
<1> HIDE DEF W, size, n
<1>4. ASSUME NEW j \in 1..n, NEW k \in 0..(BLOCK_SZ - 1)
      PROVE  /\ W.data[j][k] \in Byte \cup {Zero}
             /\ size <= (j - 1) * BLOCK_SZ + k => W.data[j][k] = Zero
  <2> DEFINE a == (j - 1) * BLOCK_SZ + k
  <2>1. a \in Nat
    BY <1>2, PlaceOf
  <2>2. W.data[j][k] = IF at <= a /\ a < at + Len(bs) THEN bs[a - at + 1]
                       ELSE IF j <= Len(file.data) THEN file.data[j][k] ELSE Zero
    BY <1>3, Zenon DEF IsWritten, After, n
  <2>3. j <= Len(file.data) => /\ file.data[j][k] \in Byte \cup {Zero}
                               /\ file.size <= a => file.data[j][k] = Zero
    <3>1. j <= Len(file.data) => j \in 1..Len(file.data)
      BY <1>0, <1>2
    <3>2. j <= Len(file.data) => file.data[j][k] \in Byte \cup {Zero}
      BY <1>0, <3>1, Zenon DEF Block
    <3> QED BY <1>0, <3>1, <3>2, Zenon
  <2> HIDE DEF a
  <2>4. at <= a /\ a < at + Len(bs) => bs[a - at + 1] \in Byte
    <3>1. at <= a /\ a < at + Len(bs) => a - at + 1 \in 1..Len(bs)
      BY <1>0, <2>1
    <3> QED BY <1>0, <3>1
  <2>5. W.data[j][k] \in Byte \cup {Zero}
    BY <2>2, <2>3, <2>4
  <2>6. size <= a => W.data[j][k] = Zero
    BY <1>0, <1>1, <2>1, <2>2, <2>3
  <2> QED BY <2>5, <2>6 DEF a
<1>5. \A j \in 1..n : W.data[j] \in Block
  BY <1>3, <1>4, Zenon DEF Block, IsWritten, n
<1>6. W.data \in Seq(Block) /\ Len(W.data) = n
  BY <1>2, <1>3, <1>5 DEF IsWritten, n
<1>7. W \in [size : Nat, data : Seq(Block)]
  BY <1>1, <1>3, <1>6, Zenon DEF IsWritten
<1>8. W.size = size
  BY <1>3 DEF IsWritten
<1> QED BY <1>4, <1>6, <1>7, <1>8 DEF GoodFile, W, n

\* The first d bytes and then the ones up to e are the first e.
TwoWrites(file, at, bs, d, e) ==
    Written(Written(file, at, SubSeq(bs, 1, d)), at + d, SubSeq(bs, d + 1, e))
      = Written(file, at, SubSeq(bs, 1, e))

\* Writing the bytes in two parts, one after the other, is writing them all.
LEMMA WrittenTwice ==
    ASSUME NEW file \in GoodFile, NEW at \in Nat, NEW bs \in Seq(Byte),
           NEW d \in Nat, NEW e \in Nat, d <= e, e <= Len(bs)
    PROVE  TwoWrites(file, at, bs, d, e)
<1> DEFINE b1 == SubSeq(bs, 1, d)
           b2 == SubSeq(bs, d + 1, e)
           b3 == SubSeq(bs, 1, e)
           V == Written(file, at, b1)
           W == Written(V, at + d, b2)
           X == Written(file, at, b3)
           s1 == IF file.size <= at + d THEN at + d ELSE file.size
           s2 == IF file.size <= at + e THEN at + e ELSE file.size
           n == NBlocks(s2)
<1>1. /\ b1 \in Seq(Byte) /\ b2 \in Seq(Byte) /\ b3 \in Seq(Byte)
      /\ Len(b1) = d /\ Len(b2) = e - d /\ Len(b3) = e
      /\ \A i \in 1..d : b1[i] = bs[i]
      /\ \A i \in 1..(e - d) : b2[i] = bs[d + i]
      /\ \A i \in 1..e : b3[i] = bs[i]
  <2>1. /\ \A i \in 1..Len(bs) : bs[i] \in Byte
        /\ Len(bs) \in Nat
    OBVIOUS
  <2>2. b1 \in Seq(Byte) /\ Len(b1) = d /\ \A i \in 1..d : b1[i] = bs[i]
    BY <2>1
  <2>3. b2 \in Seq(Byte) /\ Len(b2) = e - d /\ \A i \in 1..(e - d) : b2[i] = bs[d + i]
    BY <2>1
  <2>4. b3 \in Seq(Byte) /\ Len(b3) = e /\ \A i \in 1..e : b3[i] = bs[i]
    BY <2>1
  <2> QED BY <2>2, <2>3, <2>4
<1> HIDE DEF b1, b2, b3
<1>2. file.size \in Nat /\ file.data \in Seq(Block) /\ Len(file.data) \in Nat
      /\ Len(file.data) = NBlocks(file.size)
  BY DEF GoodFile
<1>3. V \in GoodFile
  BY <1>1, WrittenGood, Zenon
<1>4. /\ s1 \in Nat /\ s2 \in Nat /\ file.size <= s1 /\ at + d <= s1 /\ s1 <= s2
      /\ s2 = IF s1 <= at + e THEN at + e ELSE s1
  BY <1>2
<1>5. IsWritten(V, s1, file, at, b1) /\ V.size = s1
  <2>1. IsWritten(V, s1, file, at, b1)
    BY <1>1, WrittenParts DEF Grown
  <2> HIDE DEF V, s1
  <2> QED BY <2>1, Zenon DEF IsWritten
<1> HIDE DEF s1, s2, V
<1>6. NBlocks(s1) \in Nat /\ n \in Nat /\ Len(V.data) = NBlocks(s1)
  <2>1. NBlocks(s1) \in Nat /\ n \in Nat
    BY <1>4, BlocksOf, Zenon
  <2> QED BY <1>3, <1>5, <2>1 DEF GoodFile
<1>7. IsWritten(W, s2, V, at + d, b2)
  <2>1. (at + d) + Len(b2) = at + e
    BY <1>1
  <2>2. Grown(V, at + e) = s2
    BY <1>4, <1>5 DEF Grown
  <2> QED BY <2>1, <2>2, WrittenParts, Zenon
<1>8. IsWritten(X, s2, file, at, b3)
  BY <1>1, WrittenParts DEF Grown, s2
<1> HIDE DEF W, X, n
<1>9. ASSUME NEW j \in 1..n, NEW k \in 0..(BLOCK_SZ - 1) PROVE W.data[j][k] = X.data[j][k]
  <2> DEFINE a == (j - 1) * BLOCK_SZ + k
  <2>1. a \in Nat /\ (j - 1) * BLOCK_SZ <= a /\ j \in Nat \ {0}
    <3>1. j \in Nat \ {0} /\ j - 1 \in Nat /\ k \in Nat
      BY <1>6, BlockAssumption
    <3>2. (j - 1) * BLOCK_SZ \in Nat
      BY <3>1, BlockAssumption
    <3> QED BY <3>1, <3>2
  <2>2. /\ W.data[j][k] = IF at + d <= a /\ a < at + e THEN b2[a - (at + d) + 1]
                          ELSE IF j <= NBlocks(s1) THEN V.data[j][k] ELSE Zero
        /\ X.data[j][k] = IF at <= a /\ a < at + e THEN b3[a - at + 1]
                          ELSE IF j <= Len(file.data) THEN file.data[j][k] ELSE Zero
    <3>1. W.data[j][k] = After(V, at + d, b2, j, k) /\ X.data[j][k] = After(file, at, b3, j, k)
      BY <1>7, <1>8, Zenon DEF IsWritten, n
    <3>2. (at + d) + Len(b2) = at + e
      BY <1>1
    <3> QED BY <1>1, <1>6, <3>1, <3>2 DEF After
  <2>3. j <= NBlocks(s1) =>
          V.data[j][k] = IF at <= a /\ a < at + d THEN b1[a - at + 1]
                         ELSE IF j <= Len(file.data) THEN file.data[j][k] ELSE Zero
    <3>1. j <= NBlocks(s1) => j \in 1..NBlocks(s1)
      BY <1>6, <2>1
    <3>2. j <= NBlocks(s1) => V.data[j][k] = After(file, at, b1, j, k)
      BY <1>5, <3>1, Zenon DEF IsWritten
    <3> QED BY <1>1, <3>2 DEF After
  <2>4. (j - 1) * BLOCK_SZ \in Int
    BY <2>1, BlockAssumption
  <2>5. ~(j <= NBlocks(s1)) => s1 <= a /\ ~(j <= Len(file.data))
    <3>1. (j <= NBlocks(s1) <=> (j - 1) * BLOCK_SZ < s1)
          /\ (j <= NBlocks(file.size) <=> (j - 1) * BLOCK_SZ < file.size)
      BY <1>2, <1>4, <2>1, BlocksOf, Zenon
    <3> HIDE DEF a
    <3> QED BY <1>2, <1>4, <2>1, <2>4, <3>1
  <2> HIDE DEF a
  <2>6. CASE at + d <= a /\ a < at + e
    <3>1. /\ a - (at + d) + 1 \in 1..(e - d) /\ a - at + 1 \in 1..e
          /\ d + (a - (at + d) + 1) = a - at + 1 /\ at <= a
      BY <2>1, <2>6
    <3>2. b2[a - (at + d) + 1] = bs[a - at + 1] /\ b3[a - at + 1] = bs[a - at + 1]
      BY <1>1, <3>1
    <3> QED BY <2>2, <2>6, <3>1, <3>2, Zenon
  <2>7. CASE ~(at + d <= a /\ a < at + e)
    <3>1. CASE at <= a /\ a < at + e
      <4>1. a < at + d /\ a - at + 1 \in 1..d /\ a - at + 1 \in 1..e
        BY <2>1, <2>7, <3>1
      <4>2. b1[a - at + 1] = b3[a - at + 1]
        BY <1>1, <4>1, Zenon
      <4>3. j <= NBlocks(s1)
        BY <1>4, <2>1, <2>5, <4>1
      <4> QED BY <2>2, <2>3, <2>7, <3>1, <4>1, <4>2, <4>3, Zenon
    <3>2. CASE ~(at <= a /\ a < at + e)
      <4>1. ~(at <= a /\ a < at + d)
        BY <2>1, <3>2
      <4> QED BY <2>2, <2>3, <2>5, <2>7, <3>2, <4>1, Zenon
    <3> QED BY <3>1, <3>2
  <2> QED BY <2>6, <2>7
<1>10. \A j \in 1..n : W.data[j] = X.data[j]
  <2> TAKE j \in 1..n
  <2>1. /\ W.data[j] = [k \in 0..(BLOCK_SZ - 1) |-> W.data[j][k]]
        /\ X.data[j] = [k \in 0..(BLOCK_SZ - 1) |-> X.data[j][k]]
    BY <1>7, <1>8, Zenon DEF IsWritten, n
  <2>2. [k \in 0..(BLOCK_SZ - 1) |-> W.data[j][k]] = [k \in 0..(BLOCK_SZ - 1) |-> X.data[j][k]]
    BY <1>9, Zenon
  <2> QED BY <2>1, <2>2, Zenon
<1>11. W.data = X.data
  BY <1>7, <1>8, <1>10 DEF IsWritten, n
<1>12. W = X
  BY <1>7, <1>8, <1>11, Zenon DEF IsWritten
<1> QED BY <1>12 DEF TwoWrites, W, X, V, b1, b2, b3

\* As a sequence of bytes, the file has bs at place at and is else as it was.
LEMMA FlatWritten ==
    ASSUME NEW file \in GoodFile, NEW at \in Nat, NEW bs \in Seq(Byte)
    PROVE  Flat(Written(file, at, bs)) =
             [k \in 1..Max({Len(Flat(file)), at + Len(bs)}) |->
                IF at < k /\ k <= at + Len(bs) THEN bs[k - at]
                ELSE IF k <= Len(Flat(file)) THEN Flat(file)[k] ELSE Zero]
<1> DEFINE W == Written(file, at, bs)
           size == IF file.size <= at + Len(bs) THEN at + Len(bs) ELSE file.size
           n == NBlocks(size)
           G == [k \in 1..size |->
                   IF at < k /\ k <= at + Len(bs) THEN bs[k - at]
                   ELSE IF k <= file.size THEN Flat(file)[k] ELSE Zero]
<1>0. /\ file.size \in Nat /\ file.data \in Seq(Block) /\ Len(file.data) \in Nat
      /\ Len(file.data) = NBlocks(file.size)
      /\ \A j \in 1..Len(file.data), k \in 0..(BLOCK_SZ - 1) :
            file.size <= (j - 1) * BLOCK_SZ + k => file.data[j][k] = Zero
      /\ Len(bs) \in Nat
  BY DEF GoodFile
<1>1. size \in Nat /\ file.size <= size /\ at + Len(bs) <= size
  BY <1>0
<1>2. Len(Flat(file)) = file.size
  BY <1>0 DEF Flat
<1>3. Max({Len(Flat(file)), at + Len(bs)}) = size
  <2>1. file.size \in Int /\ at + Len(bs) \in Int
    BY <1>0
  <2> QED BY <1>2, <2>1, MinMaxTwo, Zenon
<1>4. IsWritten(W, size, file, at, bs) /\ W.size = size
  BY WrittenParts DEF Grown, IsWritten
<1>5. ASSUME NEW k \in 1..size
      PROVE  W.data[(k - 1) \div BLOCK_SZ + 1][(k - 1) % BLOCK_SZ] =
                IF at < k /\ k <= at + Len(bs) THEN bs[k - at]
                ELSE IF k <= file.size THEN Flat(file)[k] ELSE Zero
  <2> HIDE DEF W, size
  <2> DEFINE a == k - 1
             b == a \div BLOCK_SZ
             q == a % BLOCK_SZ
  <2>1. a \in Nat /\ k = a + 1 /\ a < size
    BY <1>1
  <2> HIDE DEF a
  <2>2. b \in Nat /\ q \in 0..(BLOCK_SZ - 1) /\ a = b * BLOCK_SZ + q
    BY <2>1, InBlock, Zenon
  <2> HIDE DEF b, q
  <2>3. b + 1 \in Nat \ {0} /\ (b + 1) - 1 = b /\ b * BLOCK_SZ \in Int /\ b * BLOCK_SZ <= a
    BY <2>2, BlockAssumption
  <2>4. /\ n \in Nat
        /\ b + 1 <= n <=> b * BLOCK_SZ < size
        /\ b + 1 <= Len(file.data) <=> b * BLOCK_SZ < file.size
    BY <1>0, <1>1, <2>3, BlocksOf, Zenon
  <2>5. b + 1 \in 1..n
    BY <1>1, <2>1, <2>3, <2>4
  <2>6. W.data[b + 1][q] = IF at <= a /\ a < at + Len(bs) THEN bs[a - at + 1]
                           ELSE IF b + 1 <= Len(file.data) THEN file.data[b + 1][q] ELSE Zero
    <3>1. W.data[b + 1][q] = After(file, at, bs, b + 1, q)
      BY <1>4, <2>2, <2>5, Zenon DEF IsWritten, n
    <3> QED BY <2>2, <2>3, <3>1 DEF After
  <2>7. k <= file.size => Flat(file)[k] = file.data[b + 1][q]
    BY <1>0, <2>1 DEF Flat, a, b, q
  <2>8. file.size <= a /\ b + 1 <= Len(file.data) => file.data[b + 1][q] = Zero
    <3>1. b + 1 <= Len(file.data) => b + 1 \in 1..Len(file.data)
      BY <1>0, <2>3
    <3> QED BY <1>0, <2>2, <2>3, <3>1
  <2>9. /\ at < k /\ k <= at + Len(bs) <=> at <= a /\ a < at + Len(bs)
        /\ a - at + 1 = k - at
        /\ k <= file.size <=> ~(file.size <= a)
        /\ k <= file.size => b + 1 <= Len(file.data)
    BY <1>0, <2>1, <2>3, <2>4
  <2>10. W.data[b + 1][q] = IF at < k /\ k <= at + Len(bs) THEN bs[k - at]
                            ELSE IF k <= file.size THEN Flat(file)[k] ELSE Zero
    BY <2>6, <2>7, <2>8, <2>9, Zenon
  <2> QED BY <2>10 DEF a, b, q
<1>6. Flat(W) = [k \in 1..size |-> W.data[(k - 1) \div BLOCK_SZ + 1][(k - 1) % BLOCK_SZ]]
  <2> HIDE DEF W, size
  <2> QED BY <1>4, Zenon DEF Flat
<1> HIDE DEF W, size
<1>7. Flat(W) = G
  BY <1>5, <1>6
<1> QED BY <1>2, <1>3, <1>7, Zenon DEF W

-----------------------------------------------------------------------------

\* Where a read of len bytes ends, and the n bytes from a place on.
ReadEnd(size, offset, len) == IF offset + len <= size THEN offset + len ELSE size
BytesAt(data, offset, n) == [k \in 1..n |-> ByteOf(data, offset + k - 1)]

\* ReadAt in these terms.
LEMMA ReadBytes ==
    ASSUME NEW f, files[f].size \in Nat, NEW offset \in Nat, NEW len \in Nat
    PROVE  read_at(f, offset, len) =
             BytesAt(files[f].data, offset, ReadEnd(files[f].size, offset, len) - offset)
<1> DEFINE upto == ReadEnd(files[f].size, offset, len)
<1>1. upto = IF offset + len <= files[f].size THEN offset + len ELSE files[f].size
  BY DEF ReadEnd
<1> HIDE DEF upto
<1>2. read_at(f, offset, len) =
        [k \in 1..(upto - offset) |-> ByteOf(files[f].data, offset + k - 1)]
  BY <1>1, ReadAt
<1> QED BY <1>2 DEF BytesAt, upto

\* The page and the place in it of byte k of a buffer at ptr.
AddressOf(ptr, k) == <<floor(ptr + k - 1), page_offset(ptr + k - 1)>>

\* The slices sl are a buffer of len bytes at ptr, cut after x[1], x[2], ... bytes.
WellSliced(sl, x, ptr, len) ==
    /\ Len(sl) \in Nat /\ x[0] = 0 /\ x[Len(sl)] = len
    /\ \A n \in 0..Len(sl) : x[n] \in Nat /\ x[n] <= len
    /\ \A n \in 1..Len(sl) :
         /\ n \in 0..Len(sl) /\ n - 1 \in 0..Len(sl) /\ x[n - 1] < x[n]
         /\ SliceLen(sl[n]) = x[n] - x[n - 1]
         /\ \A k \in 1..(x[n] - x[n - 1]) :
              <<sl[n].vpn, sl[n].from + k - 1>> = AddressOf(ptr, x[n - 1] + k)

\* translated_byte_buffer covers the buffer: the slices are the bytes in order.
LEMMA BufferSlices ==
    ASSUME NEW ptr \in Nat, NEW len \in Nat
    PROVE  \E x : WellSliced(translated_byte_buffer(ptr, len), x, ptr, len)
<1> DEFINE sl == translated_byte_buffer(ptr, len)
           N == Len(sl)
<1>1. sl \in Seq(Slice) /\ \E c : SlicedAt(sl, c, ptr, ptr + len)
  BY SlicesCut, Zenon
<1>2. PICK c : SlicedAt(sl, c, ptr, ptr + len)
  BY <1>1, Zenon
<1> HIDE DEF sl
<1>3. N \in Nat
  BY <1>1
<1> DEFINE x == [n \in 0..N |-> c[n] - ptr]
<1>4. /\ c[0] = ptr /\ c[N] = ptr + len
      /\ \A n \in 0..N : c[n] \in Nat /\ ptr <= c[n] /\ c[n] <= ptr + len
  <2>1. \A n \in 0..N : c[n] \in Nat
    BY <1>2 DEF SlicedAt
  <2> QED BY <1>2, <2>1, Zenon DEF SlicedAt
<1>5. \A n \in 0..N : x[n] \in Nat /\ x[n] <= len
  BY <1>4
<1>6. x[0] = 0 /\ x[N] = len
  BY <1>3, <1>4
<1>7. ASSUME NEW n \in 1..N
      PROVE  /\ n \in 0..N /\ n - 1 \in 0..N /\ x[n - 1] < x[n]
             /\ SliceLen(sl[n]) = x[n] - x[n - 1]
             /\ \A k \in 1..(x[n] - x[n - 1]) :
                  <<sl[n].vpn, sl[n].from + k - 1>> = AddressOf(ptr, x[n - 1] + k)
  <2> DEFINE s == c[n - 1]
             e == c[n]
  <2>1. n \in 0..N /\ n - 1 \in 0..N
    BY <1>3
  <2>2. /\ sl[n] = [vpn |-> floor(s), from |-> page_offset(s), to |-> page_offset(s) + (e - s)]
        /\ s < e /\ page_offset(s) + (e - s) <= PAGE_SIZE
    BY <1>2, Zenon DEF SlicedAt
  <2>3. s \in Nat /\ e \in Nat /\ ptr <= s
    BY <1>4, <2>1
  <2>4. x[n - 1] = s - ptr /\ x[n] = e - ptr
    BY <2>1
  <2> HIDE DEF s, e, x
  <2>5. page_offset(s) \in Nat
    BY <2>3, InPage, Zenon
  <2>6. x[n] - x[n - 1] = e - s /\ x[n - 1] < x[n]
    BY <2>2, <2>3, <2>4
  <2>7. SliceLen(sl[n]) = e - s
    BY <2>2, <2>3, <2>5 DEF SliceLen
  <2>8. ASSUME NEW k \in 1..(e - s)
        PROVE  <<sl[n].vpn, sl[n].from + k - 1>> = AddressOf(ptr, x[n - 1] + k)
    <3>1. k - 1 \in Nat /\ page_offset(s) + (k - 1) < PAGE_SIZE
      BY <2>2, <2>3, <2>5, PageAssumption
    <3>2. floor(s + (k - 1)) = floor(s) /\ page_offset(s + (k - 1)) = page_offset(s) + (k - 1)
      BY <2>3, <3>1, SameBlock, PageAssumption, Zenon DEF floor, page_offset
    <3>3. ptr + (x[n - 1] + k) - 1 = s + (k - 1)
      BY <2>3, <2>4
    <3>4. sl[n].vpn = floor(s) /\ sl[n].from + k - 1 = page_offset(s) + (k - 1)
      BY <2>2, <2>5
    <3> QED BY <3>2, <3>3, <3>4 DEF AddressOf
  <2> QED BY <2>1, <2>6, <2>7, <2>8
<1> HIDE DEF x
<1>8. WellSliced(sl, x, ptr, len)
  BY <1>3, <1>5, <1>6, <1>7, Zenon DEF WellSliced
<1> QED BY <1>8, Zenon DEF sl

\* r is what a read of len bytes from place at of the file gives: the bytes from there
\* on at consecutive addresses from ptr on, and the place after them.
ReadResult(r, ptr, file, at, len) ==
    LET upto == ReadEnd(file.size, at, len)
    IN  /\ r.offset = IF at <= upto THEN upto ELSE at
        /\ r.out = [k \in 1..(upto - at) |-> <<AddressOf(ptr, k), ByteOf(file.data, at + k - 1)>>]

\* OSInode::read reads what is there, over slices and blocks.
LEMMA OSInodeRead ==
    ASSUME NEW o, objs[o].offset \in Nat, files[objs[o].file].size \in Nat,
           NEW ptr \in Nat, NEW len \in Nat
    PROVE  ReadResult(OSInode_read(o, translated_byte_buffer(ptr, len)), ptr,
                      files[objs[o].file], objs[o].offset, len)
<1> SUFFICES ASSUME NEW at \in Nat, at = objs[o].offset
             PROVE  ReadResult(OSInode_read(o, translated_byte_buffer(ptr, len)), ptr,
                               files[objs[o].file], at, len)
  BY Zenon
<1> SUFFICES ASSUME NEW f, f = objs[o].file
             PROVE  ReadResult(OSInode_read(o, translated_byte_buffer(ptr, len)), ptr,
                               files[f], at, len)
  BY Zenon
<1> SUFFICES ASSUME NEW size \in Nat, size = files[f].size, NEW upto, upto = ReadEnd(size, at, len)
             PROVE  LET r == OSInode_read(o, translated_byte_buffer(ptr, len))
                    IN  /\ r.offset = IF at <= upto THEN upto ELSE at
                        /\ r.out = [k \in 1..(upto - at) |->
                                      <<AddressOf(ptr, k), ByteOf(files[f].data, at + k - 1)>>]
  BY Zenon DEF ReadResult
<1>0. upto = IF at + len <= size THEN at + len ELSE size
  BY DEF ReadEnd
<1> DEFINE sl == translated_byte_buffer(ptr, len)
           N == Len(sl)
           Step(was, s) ==
               LET got == read_at(objs[o].file, was.offset, SliceLen(s))
               IN  IF was.end \/ got = <<>>
                   THEN [offset |-> was.offset, out |-> was.out, end |-> TRUE]
                   ELSE [offset |-> was.offset + Len(got),
                         out |-> was.out \o Placed(s, got), end |-> FALSE]
           Start == [offset |-> objs[o].offset, out |-> <<>>, end |-> FALSE]
           Eq(g) == [n \in 0..Len(sl) |-> IF n = 0 THEN Start ELSE Step(g[n - 1], sl[n])]
           st == CHOOSE g : g = Eq(g)
           G == [k \in Nat |-> <<AddressOf(ptr, k), ByteOf(files[f].data, at + k - 1)>>]
<1>1. OSInode_read(o, sl) = st[Len(sl)]
  BY Zenon DEF OSInode_read
<1>2. PICK x : WellSliced(sl, x, ptr, len)
  BY BufferSlices
<1> HIDE DEF sl
<1>3. /\ N \in Nat /\ x[0] = 0 /\ x[N] = len
      /\ \A n \in 0..N : x[n] \in Nat /\ x[n] <= len
      /\ \A n \in 1..N :
           /\ n \in 0..N /\ n - 1 \in 0..N /\ x[n - 1] < x[n]
           /\ SliceLen(sl[n]) = x[n] - x[n - 1]
           /\ \A k \in 1..(x[n] - x[n - 1]) :
                <<sl[n].vpn, sl[n].from + k - 1>> = AddressOf(ptr, x[n - 1] + k)
  BY <1>2, Zenon DEF WellSliced
<1> DEFINE d(n) == IF at + x[n] <= size THEN x[n] ELSE IF at <= size THEN size - at ELSE 0
           Out(m) == FirstOf(G, m)
           E == [n \in 0..N |-> [offset |-> at + d(n), out |-> Out(d(n)),
                                 end |-> n > 0 /\ size <= at + x[n - 1]]]
<1> HIDE DEF G, N
<1>4. \A n \in 0..N : d(n) \in Nat
  BY <1>3
<1>5. E[0] = Start
  <2>1. 0 \in 0..N /\ d(0) = 0 /\ at + 0 = at
    BY <1>3
  <2>2. Out(0) = <<>>
    BY DEF FirstOf
  <2>3. E[0] = [offset |-> at, out |-> Out(0), end |-> 0 > 0 /\ size <= at + x[0 - 1]]
    <3> HIDE DEF d, Out
    <3> QED BY <2>1
  <2>4. (0 > 0 /\ size <= at + x[0 - 1]) = FALSE
    OBVIOUS
  <2> HIDE DEF Out, E
  <2> QED BY <2>2, <2>3, <2>4, Zenon
<1>6. ASSUME NEW n \in 1..N PROVE E[n] = Step(E[n - 1], sl[n])
  <2> DEFINE y == x[n - 1]
             z == x[n]
             s == sl[n]
             was == E[n - 1]
             got == read_at(f, was.offset, z - y)
             e0 == n - 1 > 0 /\ size <= at + x[(n - 1) - 1]
             e1 == n > 0 /\ size <= at + y
  <2>1. y \in Nat /\ z \in Nat /\ y < z /\ n - 1 \in 0..N /\ n \in 0..N /\ n > 0
    <3>1. N \in Nat /\ y < z /\ n - 1 \in 0..N /\ n \in 0..N
      BY <1>3, Zenon
    <3>2. y \in Nat /\ z \in Nat
      BY <1>3, <3>1, Zenon
    <3>3. n > 0
      BY <3>1
    <3> QED BY <3>1, <3>2, <3>3, Zenon
  <2>2. /\ SliceLen(s) = z - y
        /\ \A k \in 1..(z - y) : <<s.vpn, s.from + k - 1>> = AddressOf(ptr, y + k)
    BY <1>3, Zenon
  <2>3. d(n) \in Nat /\ d(n - 1) \in Nat
    BY <1>4, <2>1, Zenon
  <2>4. /\ E[n] = [offset |-> at + d(n), out |-> Out(d(n)), end |-> e1]
        /\ was = [offset |-> at + d(n - 1), out |-> Out(d(n - 1)), end |-> e0]
    <3> HIDE DEF d, Out
    <3> QED BY <2>1, Zenon
  <2>5. Step(was, s) =
          IF was.end \/ got = <<>> THEN [offset |-> was.offset, out |-> was.out, end |-> TRUE]
          ELSE [offset |-> was.offset + Len(got),
                out |-> was.out \o Placed(s, got), end |-> FALSE]
    <3> HIDE DEF E
    <3> QED BY <2>2, Zenon
  <2>6. n - 1 > 0 => x[(n - 1) - 1] \in Nat /\ x[(n - 1) - 1] < y
    <3>1. n - 1 > 0 => n - 1 \in 1..N /\ (n - 1) - 1 \in 0..N
      <4>1. N \in Nat
        BY <1>3, Zenon
      <4> HIDE DEF E, d, Out, Step, s, was, got
      <4> QED BY <4>1
    <3> QED BY <1>3, <3>1, Zenon
  <2>7. CASE at + y < size
    <3> DEFINE u == at + d(n)
    <3>1. d(n - 1) = y /\ y < d(n) /\ d(n) <= z
          /\ u = (IF (at + y) + (z - y) <= size THEN (at + y) + (z - y) ELSE size)
      <4> HIDE DEF E, Out, Step, s, was, got
      <4> QED BY <2>1, <2>7
    <3>2. was = [offset |-> at + y, out |-> Out(y), end |-> FALSE]
      <4>1. e0 = FALSE
        <5> HIDE DEF E, d, Out, Step, s, was, got
        <5> QED BY <2>1, <2>6, <2>7
      <4> HIDE DEF E, d, Out, e0
      <4> QED BY <2>4, <3>1, <4>1, Zenon
    <3>3. E[n] = [offset |-> u, out |-> Out(d(n)), end |-> FALSE]
      <4>1. e1 = FALSE
        BY <2>1, <2>7
      <4> HIDE DEF E, d, Out, e1
      <4> QED BY <2>4, <4>1, Zenon
    <3> HIDE DEF E, d, Out, e0
    <3>4. got = BytesAt(files[f].data, at + y, d(n) - y)
      <4>1. at + y \in Nat /\ z - y \in Nat /\ u - (at + y) = d(n) - y /\ was.offset = at + y
        BY <2>1, <2>3, <3>2
      <4>2. ReadEnd(size, at + y, z - y) = u
        BY <3>1 DEF ReadEnd
      <4> HIDE DEF u, was
      <4>3. read_at(f, at + y, z - y) = BytesAt(files[f].data, at + y, ReadEnd(size, at + y, z - y) - (at + y))
        BY <4>1, ReadBytes, Zenon
      <4> QED BY <4>1, <4>2, <4>3, Zenon
    <3> HIDE DEF got, was
    <3>5. Len(got) = d(n) - y /\ got # <<>> /\ d(n) - y \in Nat
          /\ \A k \in 1..(d(n) - y) : got[k] = ByteOf(files[f].data, at + y + k - 1)
      <4>1. d(n) - y \in Nat /\ d(n) - y # 0
        BY <2>1, <2>3, <3>1
      <4>2. Len(got) = d(n) - y
        BY <3>4, <4>1 DEF BytesAt
      <4> QED BY <3>4, <4>1, <4>2 DEF BytesAt
    <3> DEFINE zip == Placed(s, got)
    <3>6. zip = RestOf(G, y, d(n))
      <4> DEFINE m == d(n) - y
      <4>1. Len(got) = m /\ m \in Nat
        BY <3>5
      <4>4. ASSUME NEW k \in 1..m PROVE << <<s.vpn, s.from + k - 1>>, got[k]>> = G[y + k]
        <5>1. k \in 1..(z - y) /\ y + k \in Nat /\ at + (y + k) - 1 = at + y + k - 1
          BY <2>1, <2>3, <3>1
        <5>2. <<s.vpn, s.from + k - 1>> = AddressOf(ptr, y + k)
          BY <2>2, <5>1
        <5>3. got[k] = ByteOf(files[f].data, at + (y + k) - 1)
          BY <3>5, <5>1
        <5> QED BY <5>1, <5>2, <5>3, Zenon DEF G
      <4>2. DOMAIN got = 1..m
        BY <3>5, <4>1
      <4> HIDE DEF m, s
      <4>5. Placed(s, got) = [k \in 1..m |-> << <<s.vpn, s.from + k - 1>>, got[k]>>]
        BY <4>2, Zenon DEF Placed
      <4> QED BY <4>1, <4>4, <4>5, Zenon DEF m, RestOf
    <3>7. Out(y) \o zip = Out(d(n))
      <4>1. y \in 0..d(n)
        BY <2>1, <2>3, <3>1
      <4> HIDE DEF zip
      <4> QED BY <2>3, <3>6, <4>1, FirstAndRest, Zenon DEF Out
    <3> HIDE DEF Step, s, zip
    <3>8. ~was.end /\ was.offset = at + y /\ was.out = Out(y)
      BY <3>2
    <3>9. Step(was, s) = [offset |-> was.offset + Len(got), out |-> was.out \o zip, end |-> FALSE]
      BY <2>5, <3>5, <3>8, Zenon DEF zip
    <3>10. at + y + Len(got) = u
      BY <2>1, <2>3, <3>5
    <3> HIDE DEF u
    <3>11. Step(was, s) = [offset |-> u, out |-> Out(d(n)), end |-> FALSE]
      BY <3>7, <3>8, <3>9, <3>10, Zenon
    <3> QED BY <3>3, <3>11, Zenon DEF was, s
  <2>8. CASE ~(at + y < size)
    <3>1. d(n) = d(n - 1) /\ size <= at + d(n - 1)
      <4> HIDE DEF E, Out, Step, s, was, got
      <4> QED BY <2>1, <2>8
    <3>2. E[n] = [offset |-> at + d(n - 1), out |-> Out(d(n - 1)), end |-> TRUE]
      <4>1. e1 = TRUE
        BY <2>1, <2>8
      <4> HIDE DEF E, d, Out, e1
      <4> QED BY <2>4, <3>1, <4>1, Zenon
    <3> HIDE DEF E, d, Out, e0
    <3>3. got = <<>>
      <4> DEFINE off == at + d(n - 1)
      <4>1. off \in Nat /\ z - y \in Nat /\ z - y # 0 /\ was.offset = off /\ size <= off
        BY <2>1, <2>3, <2>4, <3>1
      <4> HIDE DEF off, was
      <4>2. ReadEnd(size, off, z - y) = size
        <5>1. \A m \in Nat : m # 0 => ~(off + m <= size)
          BY <4>1
        <5> QED BY <4>1, <5>1, Zenon DEF ReadEnd
      <4>3. read_at(f, off, z - y) = BytesAt(files[f].data, off, ReadEnd(size, off, z - y) - off)
        BY <4>1, ReadBytes, Zenon
      <4>4. 1..(size - off) = {}
        BY <4>1
      <4>5. BytesAt(files[f].data, off, size - off) = <<>>
        <5> HIDE DEF Step, s, got
        <5> QED BY <4>4 DEF BytesAt
      <4> QED BY <4>1, <4>2, <4>3, <4>5, Zenon
    <3>5. was.offset = at + d(n - 1) /\ was.out = Out(d(n - 1))
      <4> HIDE DEF Step, s, was, got
      <4> QED BY <2>4
    <3> HIDE DEF Step, s, was, got
    <3>6. Step(was, s) = [offset |-> was.offset, out |-> was.out, end |-> TRUE]
      BY <2>5, <3>3, Zenon
    <3> QED BY <3>2, <3>5, <3>6 DEF s, was
  <2> HIDE DEF E, Step, d, Out
  <2> QED BY <2>7, <2>8, Zenon
<1>7. E = Eq(E)
  <2>1. \A n \in 0..N : n = 0 \/ n \in 1..N
    BY <1>3
  <2>2. E = [n \in 0..N |-> E[n]]
    BY Zenon
  <2> HIDE DEF E, Step, Start
  <2>3. \A n \in 0..N : E[n] = IF n = 0 THEN Start ELSE Step(E[n - 1], sl[n])
    BY <1>5, <1>6, <2>1, Zenon
  <2> QED BY <2>2, <2>3, Zenon DEF N
<1> HIDE DEF E
<1>8. \E g : g = Eq(g)
  BY <1>7, Zenon
<1>9. st = Eq(st)
  BY <1>8, Zenon
<1> HIDE DEF st
<1>10. st[N] = E[N]
  <2> HIDE DEF Step, Start
  <2>1. \A n \in 0..N : st[n] = IF n = 0 THEN Start ELSE Step(st[n - 1], sl[n])
    BY <1>9, Zenon DEF N
  <2>2. 0 \in 0..N /\ N \in 0..N /\ \A n \in 1..N : n \in 0..N /\ n # 0
    BY <1>3
  <2>3. st[0] = E[0]
    BY <1>5, <2>1, <2>2, Zenon
  <2>4. StepsAlike(N, st, E)
    BY <1>6, <2>1, <2>2, <2>3, Zenon DEF StepsAlike
  <2>5. LoopsAgree(N, st, E)
    BY <1>3, <2>4, LoopUnique
  <2> QED BY <2>2, <2>5 DEF LoopsAgree
<1>11. /\ E[N].offset = at + d(N) /\ E[N].out = Out(d(N))
  <2>1. N \in 0..N
    BY <1>3
  <2> HIDE DEF d, Out
  <2> QED BY <2>1 DEF E
<1>12. /\ at + d(N) = IF at <= upto THEN upto ELSE at
       /\ 1..d(N) = 1..(upto - at)
  <2>1. x[N] = len
    BY <1>3
  <2>2. d(N) = IF at <= upto THEN upto - at ELSE 0
    BY <1>0, <2>1
  <2> HIDE DEF d
  <2>3. CASE at <= upto
    BY <1>0, <2>2, <2>3
  <2>4. CASE ~(at <= upto)
    BY <1>0, <2>2, <2>4
  <2> QED BY <2>3, <2>4
<1>13. Out(d(N)) = [k \in 1..(upto - at) |->
                      <<AddressOf(ptr, k), ByteOf(files[f].data, at + k - 1)>>]
  <2> HIDE DEF d
  <2>1. Out(d(N)) = [k \in 1..(upto - at) |-> G[k]]
    BY <1>12 DEF FirstOf
  <2>2. \A k \in 1..(upto - at) : k \in Nat
    BY <1>0
  <2> QED BY <2>1, <2>2, Zenon DEF G
<1> HIDE DEF d, Out
<1> QED BY <1>1, <1>10, <1>11, <1>12, <1>13, Zenon DEF N, sl

-----------------------------------------------------------------------------

\* w is what a write of bs at place at of the file old gives.
WriteResult(w, old, at, bs) ==
    /\ w.ok = TRUE /\ w.offset = at + Len(bs)
    /\ bs = <<>> => w.file = old
    /\ bs # <<>> => w.file = Written(old, at, bs)

\* OSInode::write puts the whole buffer into the file at the offset, moves the offset
\* past it, and its assertion on the size written holds.
LEMMA OSInodeWrite ==
    ASSUME NEW o, objs[o].offset \in Nat, files[objs[o].file] \in GoodFile,
           NEW ptr \in Nat, NEW bs \in Seq(Byte)
    PROVE  WriteResult(OSInode_write(o, translated_byte_buffer(ptr, Len(bs)), bs),
                       files[objs[o].file], objs[o].offset, bs)
<1> SUFFICES ASSUME NEW at \in Nat, at = objs[o].offset,
                    NEW old \in GoodFile, old = files[objs[o].file]
             PROVE  LET w == OSInode_write(o, translated_byte_buffer(ptr, Len(bs)), bs)
                    IN  /\ w.ok = TRUE /\ w.offset = at + Len(bs)
                        /\ bs = <<>> => w.file = old
                        /\ bs # <<>> => w.file = Written(old, at, bs)
  BY Zenon DEF WriteResult
<1> DEFINE sl == translated_byte_buffer(ptr, Len(bs))
           N == Len(sl)
           Step(was, s) ==
               LET part == SubSeq(bs, was.done + 1, was.done + SliceLen(s))
                   w == write_at(was.file, was.offset, part)
               IN  [file |-> w.file, offset |-> was.offset + w.written,
                    done |-> was.done + SliceLen(s), ok |-> was.ok /\ w.written = SliceLen(s)]
           Start == [file |-> files[objs[o].file], offset |-> objs[o].offset,
                     done |-> 0, ok |-> TRUE]
           Eq(g) == [n \in 0..Len(sl) |-> IF n = 0 THEN Start ELSE Step(g[n - 1], sl[n])]
           st == CHOOSE g : g = Eq(g)
<1>0. Len(bs) \in Nat /\ (bs = <<>> <=> Len(bs) = 0)
  BY NoLength
<1>1. OSInode_write(o, sl, bs) = st[Len(sl)]
  BY Zenon DEF OSInode_write
<1>2. PICK x : WellSliced(sl, x, ptr, Len(bs))
  BY <1>0, BufferSlices
<1> HIDE DEF sl
<1>3. /\ N \in Nat /\ x[0] = 0 /\ x[N] = Len(bs)
      /\ \A n \in 0..N : x[n] \in Nat /\ x[n] <= Len(bs)
      /\ \A n \in 1..N : /\ n \in 0..N /\ n - 1 \in 0..N /\ x[n - 1] < x[n]
                         /\ SliceLen(sl[n]) = x[n] - x[n - 1]
  BY <1>2, Zenon DEF WellSliced
<1> DEFINE F(n) == IF n = 0 THEN old ELSE Written(old, at, SubSeq(bs, 1, x[n]))
           E == [n \in 0..N |-> [file |-> F(n), offset |-> at + x[n], done |-> x[n], ok |-> TRUE]]
<1> HIDE DEF N
<1>4. \A i, j \in Nat : i <= j /\ j <= Len(bs) =>
         SubSeq(bs, i + 1, j) \in Seq(Byte) /\ Len(SubSeq(bs, i + 1, j)) = j - i
  <2> TAKE i, j \in Nat
  <2> HAVE i <= j /\ j <= Len(bs)
  <2>1. \A k \in 1..Len(bs) : bs[k] \in Byte
    OBVIOUS
  <2> QED BY <1>0, <2>1
<1>5. E[0] = Start
  <2>1. 0 \in 0..N /\ at + x[0] = at /\ x[0] = 0 /\ F(0) = old
    BY <1>3
  <2> HIDE DEF F
  <2> QED BY <2>1, Zenon
<1>6. ASSUME NEW n \in 1..N PROVE E[n] = Step(E[n - 1], sl[n])
  <2> DEFINE y == x[n - 1]
             z == x[n]
             s == sl[n]
             was == E[n - 1]
             part == SubSeq(bs, y + 1, z)
  <2>1. /\ y \in Nat /\ z \in Nat /\ y < z /\ z <= Len(bs) /\ n - 1 \in 0..N /\ n \in 0..N
        /\ n # 0 /\ SliceLen(s) = z - y
    BY <1>3
  <2>2. /\ E[n] = [file |-> F(n), offset |-> at + z, done |-> z, ok |-> TRUE]
        /\ was = [file |-> F(n - 1), offset |-> at + y, done |-> y, ok |-> TRUE]
    <3> HIDE DEF F
    <3> QED BY <2>1
  <2>3. /\ part \in Seq(Byte) /\ Len(part) = z - y /\ part # <<>>
        /\ at + y \in Nat
    <3>1. part \in Seq(Byte) /\ Len(part) = z - y
      BY <1>4, <2>1
    <3>2. z - y # 0
      BY <2>1
    <3> HIDE DEF part
    <3> QED BY <2>1, <3>1, <3>2
  <2> HIDE DEF E, part
  <2>4. F(n - 1) \in GoodFile /\ Written(F(n - 1), at + y, part) = F(n)
    <3>1. F(n) = Written(old, at, SubSeq(bs, 1, z))
      BY <2>1
    <3>2. CASE n - 1 = 0
      <4>1. F(n - 1) = old /\ y = 0
        BY <1>3, <3>2
      <4>2. at + y = at /\ part = SubSeq(bs, 1, z)
        BY <4>1 DEF part
      <4> HIDE DEF F
      <4> QED BY <3>1, <4>1, <4>2
    <3>3. CASE n - 1 # 0
      <4> DEFINE V == Written(old, at, SubSeq(bs, 1, y))
      <4>1. F(n - 1) = V
        BY <3>3
      <4>2. SubSeq(bs, 1, y) \in Seq(Byte)
        <5>1. SubSeq(bs, 0 + 1, y) \in Seq(Byte)
          BY <1>4, <2>1
        <5> QED BY <5>1
      <4>3. V \in GoodFile
        BY <4>2, WrittenGood, Zenon
      <4>4. y <= z
        BY <2>1
      <4> HIDE DEF F, y, z
      <4>5. Written(V, at + y, part) = Written(old, at, SubSeq(bs, 1, z))
        <5>1. TwoWrites(old, at, bs, y, z)
          BY <2>1, <4>4, WrittenTwice, Zenon
        <5> QED BY <5>1, Zenon DEF TwoWrites, part
      <4> QED BY <3>1, <4>1, <4>3, <4>5
    <3> QED BY <3>2, <3>3
  <2> HIDE DEF F, y, z, s, was
  <2> DEFINE w == write_at(F(n - 1), at + y, part)
  <2>5. w = [file |-> F(n), written |-> z - y]
    <3>1. w = [file |-> Written(F(n - 1), at + y, part), written |-> Len(part)]
      BY <2>3, <2>4, WriteAt, Zenon
    <3> QED BY <2>3, <2>4, <3>1, Zenon
  <2>6. was.done = y /\ was.file = F(n - 1) /\ was.offset = at + y /\ was.ok = TRUE
    BY <2>2
  <2>7. was.done + SliceLen(s) = z /\ (at + y) + (z - y) = at + z
    <3>1. was.done = y
      BY <2>6, Zenon
    <3>2. SliceLen(s) = z - y /\ y \in Nat /\ z \in Nat
      BY <2>1, Zenon
    <3>3. y + (z - y) = z /\ (at + y) + (z - y) = at + z
      BY <3>2
    <3> QED BY <3>1, <3>2, <3>3, Zenon
  <2>8. SubSeq(bs, was.done + 1, was.done + SliceLen(s)) = part
    BY <2>6, <2>7, Zenon DEF part
  <2>9. write_at(was.file, was.offset, SubSeq(bs, was.done + 1, was.done + SliceLen(s))) = w
    BY <2>6, <2>8, Zenon
  <2> HIDE DEF w
  <2>10. Step(was, s) = [file |-> w.file, offset |-> was.offset + w.written,
                         done |-> was.done + SliceLen(s),
                         ok |-> was.ok /\ w.written = SliceLen(s)]
    BY <2>9, Zenon
  <2>11. /\ w.file = F(n) /\ was.offset + w.written = at + z
         /\ was.done + SliceLen(s) = z /\ (was.ok /\ w.written = SliceLen(s)) = TRUE
    BY <2>1, <2>5, <2>6, <2>7
  <2> HIDE DEF Step
  <2>12. Step(was, s) = E[n]
    BY <2>2, <2>10, <2>11, Zenon
  <2> QED BY <2>12 DEF was, s
<1>7. E = Eq(E)
  <2>1. \A n \in 0..N : n = 0 \/ n \in 1..N
    BY <1>3
  <2>2. E = [n \in 0..N |-> E[n]]
    OBVIOUS
  <2> HIDE DEF E, Step, Start
  <2>3. \A n \in 0..N : E[n] = IF n = 0 THEN Start ELSE Step(E[n - 1], sl[n])
    BY <1>5, <1>6, <2>1, Zenon
  <2> QED BY <2>2, <2>3, Zenon DEF N
<1> HIDE DEF E
<1>8. \E g : g = Eq(g)
  BY <1>7, Zenon
<1>9. st = Eq(st)
  BY <1>8, Zenon
<1> HIDE DEF st
<1>10. st[N] = E[N]
  <2> HIDE DEF Step, Start
  <2>1. \A n \in 0..N : st[n] = IF n = 0 THEN Start ELSE Step(st[n - 1], sl[n])
    BY <1>9 DEF N
  <2>2. 0 \in 0..N /\ N \in 0..N /\ \A n \in 1..N : n \in 0..N /\ n # 0
    BY <1>3
  <2>3. st[0] = E[0]
    BY <1>5, <2>1, <2>2, Zenon
  <2>4. StepsAlike(N, st, E)
    BY <1>6, <2>1, <2>2, <2>3, Zenon DEF StepsAlike
  <2>5. LoopsAgree(N, st, E)
    BY <1>3, <2>4, LoopUnique
  <2> QED BY <2>2, <2>5 DEF LoopsAgree
<1>11. /\ E[N].offset = at + Len(bs) /\ E[N].file = F(N) /\ E[N].ok = TRUE
  <2>1. N \in 0..N /\ x[N] = Len(bs)
    BY <1>3
  <2> HIDE DEF F
  <2> QED BY <2>1 DEF E
<1>12. /\ bs = <<>> => F(N) = old
       /\ bs # <<>> => F(N) = Written(old, at, bs)
  <2>1. N = 0 <=> Len(bs) = 0
    <3>1. N # 0 => N \in 1..N
      BY <1>3
    <3> QED BY <1>3, <3>1
  <2>2. SubSeq(bs, 1, x[N]) = bs
    BY <1>3
  <2> QED BY <1>0, <2>1, <2>2, Zenon
<1> HIDE DEF F
<1> QED BY <1>1, <1>10, <1>11, <1>12 DEF N, sl

-----------------------------------------------------------------------------

\* What a table may hold.
Entry == Object \cup {Stdin, Stdout, None}

\* The inductive invariant: tables and files have their shape, an object has a file as
\* long as a table refers to it and is unused else, and a block without a process has an
\* empty table.
IInv ==
    /\ task \in [Task -> {"none", "live", "zombie"}]
    /\ table \in [Task -> Seq(Entry)]
    /\ objs \in [Object -> [file : File \cup {None}, offset : Nat]]
    /\ \A o \in Object : /\ o \in Referenced(table) => objs[o].file \in File
                         /\ o \notin Referenced(table) => objs[o] = Unused
    /\ files \in [File -> GoodFile]
    /\ \A t \in Task : task[t] = "none" => table[t] = <<>>
    /\ LengthsAgree

\* An object is referred to when it is somewhere in a table.
LEMMA InSomeTable ==
    ASSUME NEW tables, NEW o
    PROVE  o \in Referenced(tables) <=>
             o \in Object /\ \E t \in Task : \E k \in DOMAIN tables[t] : tables[t][k] = o
BY DEF Referenced, Range

\* An empty file has its shape.
LEMMA EmptyFileGood == EmptyFile \in GoodFile
<1>1. NBlocks(0) = 0
  <2>1. (0 + BLOCK_SZ - 1) = 0 * BLOCK_SZ + (BLOCK_SZ - 1) /\ BLOCK_SZ - 1 \in 0..(BLOCK_SZ - 1)
    BY BlockAssumption
  <2>2. (0 * BLOCK_SZ + (BLOCK_SZ - 1)) \div BLOCK_SZ = 0
    BY <2>1, DivModUnique, BlockAssumption
  <2> QED BY <2>1, <2>2 DEF NBlocks
<1>2. EmptyFile \in [size : Nat, data : Seq(Block)] /\ Len(EmptyFile.data) = 0 /\ EmptyFile.size = 0
  BY DEF EmptyFile
<1> QED BY <1>1, <1>2 DEF GoodFile

\* The buffers of calls and their slices.
LEMMA SlicesOf ==
    ASSUME NEW ptr \in Ptr, NEW len \in 0..MaxLen
    PROVE  ptr \in Nat /\ len \in Nat /\ Slices[ptr][len] = translated_byte_buffer(ptr, len)
<1>1. MaxLen \in Nat /\ StructSize \in Nat
  BY FileIOAssumption, PageAssumption
<1>2. ptr \in Nat /\ len \in Nat
  BY <1>1, PageAssumption DEF Ptr
<1>3. Max({MaxLen, StructSize}) = IF MaxLen <= StructSize THEN StructSize ELSE MaxLen
  BY <1>1, MinMaxTwo
<1>4. len \in 0..Max({MaxLen, StructSize})
  BY <1>1, <1>2, <1>3
<1> QED BY <1>2, <1>4 DEF Slices

\* What programs write is bytes, at most MaxLen.
LEMMA PayloadBytes ==
    ASSUME NEW bs \in Payload
    PROVE  bs \in Seq(Byte) /\ Len(bs) \in 0..MaxLen
<1>1. MaxLen \in Nat /\ bs \in UNION {[1..m -> Byte] : m \in 0..MaxLen}
  BY FileIOAssumption
<1>2. PICK m \in 0..MaxLen : bs \in [1..m -> Byte]
  BY <1>1
<1>3. m \in Nat
  BY <1>1
<1> QED BY <1>2, <1>3

\* What sys_read does with the object o.
LEMMA ReadStep ==
    ASSUME IInv, NEW o \in Referenced(table), NEW ptr \in Ptr, NEW len \in 0..MaxLen
    PROVE  /\ objs[o].file \in File /\ objs[o].offset \in Nat /\ len \in Nat
           /\ files[objs[o].file] \in GoodFile /\ files[objs[o].file].size \in Nat
           /\ ReadResult(OSInode_read(o, Slices[ptr][len]), ptr,
                         files[objs[o].file], objs[o].offset, len)
<1>1. o \in Object
  BY InSomeTable
<1>2. objs[o].file \in File /\ objs[o].offset \in Nat /\ files[objs[o].file] \in GoodFile
  BY <1>1 DEF IInv
<1>3. files[objs[o].file].size \in Nat
  BY <1>2, Zenon DEF GoodFile
<1>4. ptr \in Nat /\ len \in Nat /\ Slices[ptr][len] = translated_byte_buffer(ptr, len)
  BY SlicesOf
<1>5. ReadResult(OSInode_read(o, translated_byte_buffer(ptr, len)), ptr,
                 files[objs[o].file], objs[o].offset, len)
  BY <1>2, <1>3, <1>4, OSInodeRead, Zenon
<1> QED BY <1>2, <1>3, <1>4, <1>5, Zenon

\* What sys_write does with the object o.
LEMMA WriteStep ==
    ASSUME IInv, NEW o \in Referenced(table), NEW ptr \in Ptr, NEW bs \in Payload
    PROVE  /\ objs[o].file \in File /\ objs[o].offset \in Nat
           /\ files[objs[o].file] \in GoodFile
           /\ bs \in Seq(Byte) /\ Len(bs) \in 0..MaxLen
           /\ WriteResult(OSInode_write(o, Slices[ptr][Len(bs)], bs),
                          files[objs[o].file], objs[o].offset, bs)
<1>1. o \in Object
  BY InSomeTable
<1>2. objs[o].file \in File /\ objs[o].offset \in Nat /\ files[objs[o].file] \in GoodFile
  BY <1>1 DEF IInv
<1>3. bs \in Seq(Byte) /\ Len(bs) \in 0..MaxLen
  BY PayloadBytes
<1>4. ptr \in Nat /\ Slices[ptr][Len(bs)] = translated_byte_buffer(ptr, Len(bs))
  BY <1>3, SlicesOf, Zenon
<1>5. WriteResult(OSInode_write(o, translated_byte_buffer(ptr, Len(bs)), bs),
                  files[objs[o].file], objs[o].offset, bs)
  BY <1>2, <1>3, <1>4, OSInodeWrite, Zenon
<1> QED BY <1>2, <1>3, <1>4, <1>5, Zenon

\* The whole contents of a file in its size.
LEMMA FlatBytes ==
    ASSUME NEW file \in GoodFile
    PROVE  /\ Flat(file) \in Seq(Byte \cup {Zero}) /\ Len(Flat(file)) = file.size
           /\ \A k \in 1..file.size : Flat(file)[k] = ByteOf(file.data, k - 1)
<1>1. file.size \in Nat /\ file.data \in Seq(Block) /\ Len(file.data) = NBlocks(file.size)
  BY DEF GoodFile
<1>2. Flat(file) = [k \in 1..file.size |-> ByteOf(file.data, k - 1)]
  BY DEF Flat, ByteOf
<1>3. ASSUME NEW k \in 1..file.size PROVE ByteOf(file.data, k - 1) \in Byte \cup {Zero}
  <2> DEFINE a == k - 1
             b == a \div BLOCK_SZ
             q == a % BLOCK_SZ
  <2>1. a \in Nat /\ a < file.size
    BY <1>1
  <2> HIDE DEF a
  <2>2. b \in Nat /\ q \in 0..(BLOCK_SZ - 1) /\ a = b * BLOCK_SZ + q
    BY <2>1, InBlock, Zenon
  <2> HIDE DEF b, q
  <2>3. b + 1 \in Nat \ {0} /\ (b + 1) - 1 = b /\ b * BLOCK_SZ \in Int /\ b * BLOCK_SZ <= a
    BY <2>2, BlockAssumption
  <2>4. b + 1 <= NBlocks(file.size) <=> b * BLOCK_SZ < file.size
    BY <1>1, <2>3, BlocksOf, Zenon
  <2>5. b + 1 \in 1..Len(file.data)
    BY <1>1, <2>1, <2>3, <2>4
  <2>6. file.data[b + 1] \in Block
    BY <1>1, <2>5
  <2> QED BY <2>2, <2>6, Zenon DEF ByteOf, Block, a, b, q
<1> HIDE DEF ByteOf
<1> QED BY <1>1, <1>2, <1>3

\* The reads of ReadsInOrder in every state of the invariant.
LEMMA ReadsFollow == IInv => ReadsInOrder
<1> SUFFICES ASSUME IInv, NEW o \in Referenced(table), NEW ptr \in Ptr, NEW len \in 0..MaxLen
             PROVE  LET r == OSInode_read(o, Slices[ptr][len])
                        upto == Min({objs[o].offset + len, files[objs[o].file].size})
                        expected == SubSeq(Flat(files[objs[o].file]), objs[o].offset + 1, upto)
                    IN  r.out = [n \in DOMAIN expected |->
                          << <<floor(ptr + n - 1), page_offset(ptr + n - 1)>>, expected[n]>>]
  BY Zenon DEF ReadsInOrder
<1> DEFINE f == objs[o].file
           at == objs[o].offset
           size == files[f].size
           upto == ReadEnd(size, at, len)
           flat == Flat(files[f])
           expected == SubSeq(flat, at + 1, upto)
<1>0. /\ at \in Nat /\ len \in Nat /\ files[f] \in GoodFile /\ size \in Nat
      /\ ReadResult(OSInode_read(o, Slices[ptr][len]), ptr, files[f], at, len)
  BY ReadStep, Zenon
<1>1. /\ at \in Nat /\ files[f] \in GoodFile /\ size \in Nat /\ upto \in Nat /\ upto <= size
      /\ OSInode_read(o, Slices[ptr][len]).out =
                [k \in 1..(upto - at) |->
                   <<AddressOf(ptr, k), ByteOf(files[f].data, at + k - 1)>>]
  <2>1. upto \in Nat /\ upto <= size
    <3> HIDE DEF at, size
    <3> QED BY <1>0 DEF ReadEnd
  <2> HIDE DEF f, at
  <2> QED BY <1>0, <2>1, Zenon DEF ReadResult
<1>2. Min({at + len, size}) = upto
  <2> HIDE DEF at, size
  <2>1. at + len \in Int /\ size \in Int
    BY <1>0
  <2> QED BY <2>1, MinMaxTwo, Zenon DEF ReadEnd, upto
<1>3. /\ flat \in Seq(Byte \cup {Zero}) /\ Len(flat) = size
      /\ \A k \in 1..size : flat[k] = ByteOf(files[f].data, k - 1)
  BY <1>1, FlatBytes, Zenon
<1> HIDE DEF f, at, size, upto, flat
<1>4. expected = [n \in 1..(upto - at) |-> flat[at + n]]
  <2>1. at \in Nat /\ upto \in Nat /\ upto <= Len(flat)
    BY <1>1, <1>3, Zenon
  <2> QED BY <1>3, <2>1, SubSeqOf, Zenon
<1>5. ASSUME NEW n \in 1..(upto - at)
      PROVE  flat[at + n] = ByteOf(files[f].data, at + n - 1)
  <2>1. at + n \in 1..size /\ (at + n) - 1 = at + n - 1
    BY <1>1
  <2> QED BY <1>3, <2>1, Zenon
<1> HIDE DEF expected
<1>6. OSInode_read(o, Slices[ptr][len]).out =
        [n \in DOMAIN expected |->
            << <<floor(ptr + n - 1), page_offset(ptr + n - 1)>>, expected[n]>>]
  <2>1. DOMAIN expected = 1..(upto - at) /\ \A n \in 1..(upto - at) : expected[n] = flat[at + n]
    BY <1>4, Zenon
  <2> QED BY <1>1, <1>5, <2>1, ZenonT(30) DEF AddressOf
<1> QED BY <1>2, <1>6, Zenon DEF f, at, size, upto, flat, expected

\* The writes of WritesInOrder in every state of the invariant.
LEMMA WritesFollow == IInv => WritesInOrder
<1> SUFFICES ASSUME IInv, NEW o \in Referenced(table), NEW ptr \in Ptr,
                    NEW bs \in Payload \ {<<>>}
             PROVE  LET w == OSInode_write(o, Slices[ptr][Len(bs)], bs).file
                        at == objs[o].offset
                        old == Flat(files[objs[o].file])
                        Expected(k) == IF at < k /\ k <= at + Len(bs) THEN bs[k - at]
                                       ELSE IF k <= Len(old) THEN old[k] ELSE Zero
                    IN  Flat(w) = [k \in 1..Max({Len(old), at + Len(bs)}) |-> Expected(k)]
  BY Zenon DEF WritesInOrder
<1> DEFINE f == objs[o].file
           at == objs[o].offset
<1>1. /\ at \in Nat /\ files[f] \in GoodFile /\ bs \in Seq(Byte)
      /\ OSInode_write(o, Slices[ptr][Len(bs)], bs).file = Written(files[f], at, bs)
  <2>1. /\ at \in Nat /\ files[f] \in GoodFile /\ bs \in Seq(Byte)
        /\ WriteResult(OSInode_write(o, Slices[ptr][Len(bs)], bs), files[f], at, bs)
    BY WriteStep, Zenon
  <2> QED BY <2>1, Zenon DEF WriteResult
<1> HIDE DEF f, at
<1>2. Flat(Written(files[f], at, bs)) =
        [k \in 1..Max({Len(Flat(files[f])), at + Len(bs)}) |->
           IF at < k /\ k <= at + Len(bs) THEN bs[k - at]
           ELSE IF k <= Len(Flat(files[f])) THEN Flat(files[f])[k] ELSE Zero]
  BY <1>1, FlatWritten, Zenon
<1> QED BY <1>1, <1>2, Zenon DEF f, at

-----------------------------------------------------------------------------

\* The slot alloc_fd gives is the first that is free, at most one past the end.
LEMMA AllocFd ==
    ASSUME NEW S, NEW tab \in Seq(S)
    PROVE  /\ alloc_fd(tab) \in 1..(Len(tab) + 1)
           /\ \A j \in 1..(alloc_fd(tab) - 1) : tab[j] # None
           /\ alloc_fd(tab) <= Len(tab) => tab[alloc_fd(tab)] = None
<1>0. DOMAIN tab = 1..Len(tab) /\ Len(tab) \in Nat
  OBVIOUS
<1>1. CASE \E k \in DOMAIN tab : tab[k] = None
  <2> DEFINE Free == {k \in DOMAIN tab : tab[k] = None}
  <2>1. Free \subseteq Nat /\ Free # {}
    BY <1>0, <1>1
  <2>2. PICK k \in Free : \A j \in Free : k <= j
    <3> HIDE DEF Free
    <3> QED BY <2>1, NatMin, Zenon
  <2>3. k \in DOMAIN tab /\ tab[k] = None /\ \A j \in 1..(k - 1) : tab[j] # None
    <3>1. ASSUME NEW j \in 1..(k - 1) PROVE tab[j] # None
      <4>1. j \in DOMAIN tab /\ ~(k <= j)
        BY <1>0, <2>2
      <4> QED BY <2>2, <4>1
    <3> QED BY <2>2, <3>1
  <2> DEFINE P(i) == tab[i] = None /\ \A j \in 1..(i - 1) : tab[j] # None
             c == CHOOSE i \in DOMAIN tab : P(i)
  <2>4. c \in DOMAIN tab /\ P(c)
    <3>1. \E i \in DOMAIN tab : P(i)
      BY <2>3
    <3> HIDE DEF P
    <3> QED BY <3>1
  <2>5. alloc_fd(tab) = c
    BY <1>1, Zenon DEF alloc_fd
  <2> HIDE DEF c
  <2> QED BY <1>0, <2>4, <2>5
<1>2. CASE ~\E k \in DOMAIN tab : tab[k] = None
  <2>1. alloc_fd(tab) = Len(tab) + 1
    BY <1>2, Zenon DEF alloc_fd
  <2>2. (Len(tab) + 1) - 1 = Len(tab) /\ Len(tab) + 1 \in 1..(Len(tab) + 1)
        /\ ~(Len(tab) + 1 <= Len(tab))
    BY <1>0
  <2> QED BY <1>0, <1>2, <2>1, <2>2, Zenon
<1> QED BY <1>1, <1>2

\* The table after sys_open.
Opened(tab, k, o) == [j \in 1..Max({Len(tab), k}) |-> IF j = k THEN o ELSE tab[j]]

\* new is tab with o at k.
HasEntry(new, tab, k, o) ==
    /\ new \in Seq(Entry) /\ DOMAIN new = DOMAIN tab \cup {k}
    /\ new[k] = o /\ \A j \in DOMAIN tab \ {k} : new[j] = tab[j]

\* It has one entry more or one that was free replaced.
LEMMA OpenedTable ==
    ASSUME NEW tab \in Seq(Entry), NEW o \in Object
    PROVE  HasEntry(Opened(tab, alloc_fd(tab), o), tab, alloc_fd(tab), o)
<1> DEFINE k == alloc_fd(tab)
<1>1. k \in 1..(Len(tab) + 1) /\ DOMAIN tab = 1..Len(tab) /\ Len(tab) \in Nat
  BY AllocFd
<1> HIDE DEF k
<1>2. Max({Len(tab), k}) = IF Len(tab) <= k THEN k ELSE Len(tab)
  <2>1. Len(tab) \in Int /\ k \in Int
    BY <1>1
  <2> QED BY <2>1, MinMaxTwo, Zenon
<1>3. 1..Max({Len(tab), k}) = DOMAIN tab \cup {k} /\ Max({Len(tab), k}) \in Nat
  BY <1>1, <1>2
<1> DEFINE m == Max({Len(tab), k})
<1> HIDE DEF m
<1>4. Opened(tab, k, o) = [j \in 1..m |-> IF j = k THEN o ELSE tab[j]]
  BY Zenon DEF Opened, m
<1>5. \A j \in 1..m : (IF j = k THEN o ELSE tab[j]) \in Entry
  <2>1. o \in Entry
    BY DEF Entry
  <2>2. \A j \in DOMAIN tab : tab[j] \in Entry
    OBVIOUS
  <2> QED BY <1>3, <2>1, <2>2, Zenon DEF m
<1>6. m \in Nat /\ 1..m = DOMAIN tab \cup {k}
  BY <1>3, Zenon DEF m
<1>7. HasEntry(Opened(tab, k, o), tab, k, o)
  BY <1>4, <1>5, <1>6 DEF HasEntry
<1> QED BY <1>7, Zenon DEF k

\* A call on a descriptor that is neither free nor a stream is on an object in use.
LEMMA CallOnObject ==
    ASSUME IInv, NEW t \in Task, NEW k, Calls(t, k)
    PROVE  /\ table[t][k] \in Object \cup {Stdin, Stdout}
           /\ table[t][k] \in Object => table[t][k] \in Referenced(table)
<1>1. table[t] \in Seq(Entry) /\ k \in DOMAIN table[t] /\ table[t][k] # None
  BY DEF IInv, Calls
<1>2. table[t][k] \in Entry
  BY <1>1
<1> QED BY <1>1, <1>2, InSomeTable DEF Entry

\* The empty table.
LEMMA NoEntries == <<>> \in Seq(Entry) /\ DOMAIN <<>> = {}
OBVIOUS

\* A panic other than that of the assertion leaves the invariant.
LEMMA StopsKeeps ==
    ASSUME IInv, NEW why, Stops(why),
           why # "size written"
    PROVE  IInv'
<1>1. /\ task' = [t \in Task |-> "none"] /\ table' = [t \in Task |-> <<>>]
      /\ objs' = [o \in Object |-> Unused] /\ files' = files /\ panic' = why
  BY Zenon DEF Stops
<1>2. \A o \in Object : o \notin Referenced(table')
  <2>1. \A t \in Task : DOMAIN table'[t] = {}
    BY <1>1, NoEntries, Zenon
  <2> QED BY <2>1, InSomeTable, Zenon
<1>3. table' \in [Task -> Seq(Entry)]
  BY <1>1, NoEntries, Zenon
<1>4. objs' \in [Object -> [file : File \cup {None}, offset : Nat]]
  BY <1>1, Zenon DEF Unused
<1>5. LengthsAgree'
  BY <1>1, Zenon DEF LengthsAgree
<1>6. \A o \in Object : /\ o \in Referenced(table') => objs'[o].file \in File
                        /\ o \notin Referenced(table') => objs'[o] = Unused
  BY <1>1, <1>2, Zenon
<1> QED BY <1>1, <1>3, <1>4, <1>5, <1>6, Zenon DEF IInv

\* Dropping entries of tables leaves the objects as the invariant wants them.
LEMMA SetTablesKeeps ==
    ASSUME IInv, NEW tables \in [Task -> Seq(Entry)], SetTables(tables),
           Referenced(tables) \subseteq Referenced(table)
    PROVE  /\ table' \in [Task -> Seq(Entry)]
           /\ objs' \in [Object -> [file : File \cup {None}, offset : Nat]]
           /\ \A o \in Object : /\ o \in Referenced(table') => objs'[o].file \in File
                                /\ o \notin Referenced(table') => objs'[o] = Unused
<1>1. /\ table' = tables
      /\ objs' = [o \in Object |-> IF o \in Referenced(tables) THEN objs[o] ELSE Unused]
  BY DEF SetTables
<1>2. Unused \in [file : File \cup {None}, offset : Nat]
  BY DEF Unused
<1>3. \A o \in Object : objs[o] \in [file : File \cup {None}, offset : Nat]
  BY DEF IInv
<1>4. \A o \in Referenced(table) : o \in Object /\ objs[o].file \in File
  BY InSomeTable DEF IInv
<1>5. \A o \in Object : objs'[o] = IF o \in Referenced(tables) THEN objs[o] ELSE Unused
  BY <1>1
<1>6. objs' \in [Object -> [file : File \cup {None}, offset : Nat]]
  BY <1>1, <1>2, <1>3
<1> QED BY <1>1, <1>4, <1>5, <1>6

\* A step that leaves tables, objects and files alone.
LEMMA SameFiles ==
    ASSUME IInv, table' = table, objs' = objs, files' = files,
           task' \in [Task -> {"none", "live", "zombie"}],
           \A t \in Task : task'[t] = "none" => table[t] = <<>>,
           LengthsAgree'
    PROVE  IInv'
<1>1. Referenced(table') = Referenced(table)
  OBVIOUS
<1>2. \A o \in Object : /\ o \in Referenced(table') => objs'[o].file \in File
                        /\ o \notin Referenced(table') => objs'[o] = Unused
  BY <1>1 DEF IInv
<1> QED BY <1>2 DEF IInv

\* Every initial state has the invariant.
LEMMA InitInv == Init => IInv
<1> SUFFICES ASSUME Init PROVE IInv
  OBVIOUS
<1>1. fresh_table \in Seq(Entry) /\ <<>> \in Seq(Entry)
  BY DEF fresh_table, Entry
<1>2. table \in [Task -> Seq(Entry)]
  BY <1>1 DEF Init
<1>3. \A o \in Object : o \notin Referenced(table)
  <2>1. \A t \in Task : \A k \in DOMAIN table[t] : table[t][k] \in {Stdin, Stdout}
    BY DEF Init, fresh_table
  <2> QED BY <2>1, InSomeTable, FileIOAssumption
<1>4. objs \in [Object -> [file : File \cup {None}, offset : Nat]] /\ \A o \in Object : objs[o] = Unused
  BY DEF Init, Unused
<1>5. files \in [File -> GoodFile]
  BY EmptyFileGood DEF Init
<1>6. task \in [Task -> {"none", "live", "zombie"}] /\ LengthsAgree
  BY DEF Init, LengthsAgree
<1>7. \A t \in Task : task[t] = "none" => table[t] = <<>>
  BY DEF Init
<1> QED BY <1>2, <1>3, <1>4, <1>5, <1>6, <1>7 DEF IInv

\* What sys_open does to tables and objects: the entry alloc_fd finds is o, and o is
\* the one new reference.
OpensAs(t, f, o) ==
    /\ objs' = [objs EXCEPT ![o] = [file |-> f, offset |-> 0]]
    /\ table' \in [Task -> Seq(Entry)]
    /\ HasEntry(table'[t], table[t], alloc_fd(table[t]), o)
    /\ \A u \in Task \ {t} : table'[u] = table[u]
    /\ \A p : p \in Referenced(table') <=> p \in Referenced(table) \/ p = o

\* sys_open puts a new description, at offset 0, in the descriptor that alloc_fd returns,
\* and changes no other descriptor.
LEMMA OpenStep ==
    ASSUME IInv, NEW t \in Task, NEW f \in File, NEW clear \in BOOLEAN, sys_open(t, f, clear)
    PROVE  \E o \in Object \ Referenced(table) : OpensAs(t, f, o)
<1> DEFINE tab == table[t]
           k == alloc_fd(tab)
<1>1. tab \in Seq(Entry)
  BY DEF IInv
<1>2. PICK o \in Object \ Referenced(table) :
        /\ table' = [table EXCEPT ![t] = Opened(tab, k, o)]
        /\ objs' = [objs EXCEPT ![o] = [file |-> f, offset |-> 0]]
  BY Zenon DEF sys_open, Opened
<1> DEFINE new == Opened(tab, k, o)
<1>3. HasEntry(new, tab, k, o)
  <2>1. o \in Object
    BY <1>2
  <2> QED BY <1>1, <2>1, OpenedTable, Zenon
<1>4. /\ new \in Seq(Entry) /\ DOMAIN new = DOMAIN tab \cup {k} /\ new[k] = o
      /\ \A j \in DOMAIN tab \ {k} : new[j] = tab[j]
  BY <1>3, Zenon DEF HasEntry
<1>5. k \in DOMAIN tab => tab[k] = None
  <2>1. DOMAIN tab = 1..Len(tab)
    BY <1>1
  <2>2. k \in 1..Len(tab) => k <= Len(tab)
    BY <1>1
  <2> QED BY <1>1, <2>1, <2>2, AllocFd
<1> HIDE DEF new, k, tab
<1>6. /\ table' \in [Task -> Seq(Entry)] /\ table'[t] = new
      /\ \A u \in Task \ {t} : table'[u] = table[u]
  BY <1>2, <1>4 DEF IInv, new
<1>7. ASSUME NEW p \in Object
      PROVE  p \in Referenced(table') <=> p \in Referenced(table) \/ p = o
  <2>1. ASSUME NEW u \in Task, NEW j \in DOMAIN table'[u], table'[u][j] = p, p # o
        PROVE  p \in Referenced(table)
    <3>1. CASE u = t
      <4>1. j \in DOMAIN tab /\ tab[j] = p
        BY <1>4, <1>6, <2>1, <3>1
      <4> QED BY <4>1, InSomeTable DEF tab
    <3>2. CASE u # t
      <4>1. j \in DOMAIN table[u] /\ table[u][j] = p
        BY <1>6, <2>1, <3>2
      <4> QED BY <4>1, InSomeTable
    <3> QED BY <3>1, <3>2
  <2>2. ASSUME NEW u \in Task, NEW j \in DOMAIN table[u], table[u][j] = p
        PROVE  p \in Referenced(table')
    <3>1. CASE u = t
      <4>1. j \in DOMAIN tab /\ tab[j] = p /\ p # None
        BY <2>2, <3>1, FileIOAssumption, Zenon DEF tab
      <4>2. j \in DOMAIN new /\ new[j] = p
        BY <1>4, <1>5, <4>1
      <4>3. j \in DOMAIN table'[t] /\ table'[t][j] = p
        BY <1>6, <4>2
      <4> QED BY <4>3, InSomeTable
    <3>2. CASE u # t
      <4>1. j \in DOMAIN table'[u] /\ table'[u][j] = p
        BY <1>6, <2>2, <3>2
      <4> QED BY <4>1, InSomeTable
    <3> QED BY <3>1, <3>2
  <2>3. o \in Referenced(table')
    <3>1. k \in DOMAIN table'[t] /\ table'[t][k] = o /\ o \in Object
      BY <1>4, <1>6, Zenon
    <3> QED BY <3>1, InSomeTable
  <2>4. p \in Referenced(table') => p \in Referenced(table) \/ p = o
    BY <2>1, InSomeTable
  <2>5. p \in Referenced(table) => p \in Referenced(table')
    BY <2>2, InSomeTable
  <2> QED BY <2>3, <2>4, <2>5
<1>8. \A p : p \in Referenced(table') <=> p \in Referenced(table) \/ p = o
  BY <1>2, <1>7, InSomeTable, Zenon
<1>9. HasEntry(table'[t], table[t], alloc_fd(table[t]), o)
  BY <1>3, <1>6, Zenon DEF k, tab
<1>10. OpensAs(t, f, o)
  BY <1>2, <1>6, <1>8, <1>9, Zenon DEF OpensAs
<1> QED BY <1>2, <1>10, Zenon

\* sys_open keeps the invariant.
LEMMA OpenKeeps ==
    ASSUME IInv, NEW t \in Task, NEW f \in File, NEW clear \in BOOLEAN, sys_open(t, f, clear)
    PROVE  IInv'
<1>1. PICK o \in Object \ Referenced(table) : OpensAs(t, f, o)
  BY OpenStep, Zenon
<1>2. /\ objs' = [objs EXCEPT ![o] = [file |-> f, offset |-> 0]]
      /\ table' \in [Task -> Seq(Entry)]
      /\ \A u \in Task \ {t} : table'[u] = table[u]
      /\ \A p : p \in Referenced(table') <=> p \in Referenced(table) \/ p = o
  BY <1>1, Zenon DEF OpensAs
<1>3. /\ files' = IF clear THEN [files EXCEPT ![f] = EmptyFile] ELSE files
      /\ task' = task /\ panic' = panic /\ task[t] = "live"
  BY DEF sys_open
<1>8. /\ objs' \in [Object -> [file : File \cup {None}, offset : Nat]]
      /\ objs'[o].file = f /\ \A p \in Object \ {o} : objs'[p] = objs[p]
  BY <1>2 DEF IInv
<1>9. files' \in [File -> GoodFile]
  BY <1>3, EmptyFileGood DEF IInv
<1>10. \A p \in Object : /\ p \in Referenced(table') => objs'[p].file \in File
                         /\ p \notin Referenced(table') => objs'[p] = Unused
  BY <1>2, <1>8 DEF IInv
<1>11. \A u \in Task : task'[u] = "none" => table'[u] = <<>>
  BY <1>2, <1>3 DEF IInv
<1>12. LengthsAgree' /\ task' \in [Task -> {"none", "live", "zombie"}]
  BY <1>3, Zenon DEF IInv, LengthsAgree
<1> QED BY <1>2, <1>8, <1>9, <1>10, <1>11, <1>12 DEF IInv

\* The tables after sys_close and reap refer to nothing new.
LEMMA FewerReferences ==
    ASSUME NEW tables,
           \A u \in Task : \A j \in DOMAIN tables[u] :
              tables[u][j] = None \/ (j \in DOMAIN table[u] /\ tables[u][j] = table[u][j])
    PROVE  Referenced(tables) \subseteq Referenced(table)
<1> SUFFICES ASSUME NEW p \in Referenced(tables) PROVE p \in Referenced(table)
  OBVIOUS
<1>1. p \in Object
  BY InSomeTable
<1>2. PICK u \in Task : \E j \in DOMAIN tables[u] : tables[u][j] = p
  BY InSomeTable
<1>5. PICK j \in DOMAIN tables[u] : tables[u][j] = p
  BY <1>2, Zenon
<1>3. p # None
  BY <1>1, FileIOAssumption, Zenon
<1>4. j \in DOMAIN table[u] /\ table[u][j] = p
  BY <1>3, <1>5, Zenon
<1> QED BY <1>1, <1>4, InSomeTable

\* sys_close keeps the invariant.
LEMMA CloseKeeps ==
    ASSUME IInv, NEW t \in Task, NEW k, sys_close(t, k)
    PROVE  IInv'
<1> DEFINE tables == [table EXCEPT ![t][k] = None]
<1>1. /\ Calls(t, k) /\ SetTables(tables) /\ task' = task /\ files' = files /\ panic' = panic
  BY DEF sys_close
<1>2. table \in [Task -> Seq(Entry)] /\ k \in DOMAIN table[t] /\ task[t] = "live"
  BY <1>1 DEF IInv, Calls
<1>3. table[t] \in Seq(Entry) /\ None \in Entry
  BY <1>2 DEF Entry
<1>4. /\ tables \in [Task -> Seq(Entry)]
      /\ \A u \in Task \ {t} : tables[u] = table[u]
      /\ DOMAIN tables[t] = DOMAIN table[t]
      /\ \A j \in DOMAIN table[t] : tables[t][j] = IF j = k THEN None ELSE table[t][j]
  <2>1. [table[t] EXCEPT ![k] = None] \in Seq(Entry)
    BY <1>2, <1>3
  <2> QED BY <1>2, <2>1
<1> HIDE DEF tables
<1>5. Referenced(tables) \subseteq Referenced(table)
  <2>1. \A u \in Task : \A j \in DOMAIN tables[u] :
           tables[u][j] = None \/ (j \in DOMAIN table[u] /\ tables[u][j] = table[u][j])
    BY <1>4
  <2> QED BY <2>1, FewerReferences
<1>6. /\ table' \in [Task -> Seq(Entry)]
      /\ objs' \in [Object -> [file : File \cup {None}, offset : Nat]]
      /\ \A o \in Object : /\ o \in Referenced(table') => objs'[o].file \in File
                           /\ o \notin Referenced(table') => objs'[o] = Unused
  BY <1>1, <1>4, <1>5, SetTablesKeeps
<1>7. \A u \in Task : task'[u] = "none" => table'[u] = <<>>
  BY <1>1, <1>2, <1>4 DEF IInv, SetTables
<1> QED BY <1>1, <1>6, <1>7, Zenon DEF IInv, LengthsAgree

\* Reaping a zombie, which drops its table, keeps the invariant.
LEMMA ReapKeeps ==
    ASSUME IInv, NEW t \in Task, reap(t)
    PROVE  IInv'
<1> DEFINE tables == [table EXCEPT ![t] = <<>>]
<1>1. /\ SetTables(tables) /\ task' = [task EXCEPT ![t] = "none"] /\ files' = files /\ panic' = panic
  BY DEF reap
<1>2. table \in [Task -> Seq(Entry)]
  BY DEF IInv
<1>3. /\ tables \in [Task -> Seq(Entry)]
      /\ \A u \in Task \ {t} : tables[u] = table[u]
      /\ tables[t] = <<>>
  BY <1>2
<1> HIDE DEF tables
<1>4. Referenced(tables) \subseteq Referenced(table)
  <2>1. \A u \in Task : \A j \in DOMAIN tables[u] :
           tables[u][j] = None \/ (j \in DOMAIN table[u] /\ tables[u][j] = table[u][j])
    BY <1>3
  <2> QED BY <2>1, FewerReferences
<1>5. /\ table' \in [Task -> Seq(Entry)]
      /\ objs' \in [Object -> [file : File \cup {None}, offset : Nat]]
      /\ \A o \in Object : /\ o \in Referenced(table') => objs'[o].file \in File
                           /\ o \notin Referenced(table') => objs'[o] = Unused
  BY <1>1, <1>3, <1>4, SetTablesKeeps, Zenon
<1>6. \A u \in Task : task'[u] = "none" => table'[u] = <<>>
  BY <1>1, <1>3 DEF IInv, SetTables
<1>7. task' \in [Task -> {"none", "live", "zombie"}]
  BY <1>1 DEF IInv
<1> QED BY <1>1, <1>5, <1>6, <1>7, Zenon DEF IInv, LengthsAgree

\* Moving the offset of an open file.
LEMMA MovedOffset ==
    ASSUME objs \in [Object -> [file : File \cup {None}, offset : Nat]],
           NEW o \in Object, NEW e \in Nat, objs' = [objs EXCEPT ![o].offset = e]
    PROVE  /\ objs' \in [Object -> [file : File \cup {None}, offset : Nat]]
           /\ \A p \in Object : objs'[p].file = objs[p].file
           /\ \A p \in Object \ {o} : objs'[p] = objs[p]
<1>1. objs[o] \in [file : File \cup {None}, offset : Nat]
  OBVIOUS
<1>2. /\ [objs[o] EXCEPT !.offset = e] \in [file : File \cup {None}, offset : Nat]
      /\ [objs[o] EXCEPT !.offset = e].file = objs[o].file
  BY <1>1
<1>3. objs' = [objs EXCEPT ![o] = [objs[o] EXCEPT !.offset = e]]
  OBVIOUS
<1>4. /\ objs'[o] = [objs[o] EXCEPT !.offset = e] /\ \A p \in Object \ {o} : objs'[p] = objs[p]
  BY <1>3
<1>5. objs' \in [Object -> [file : File \cup {None}, offset : Nat]]
  BY <1>2, <1>3
<1> QED BY <1>2, <1>4, <1>5

\* The outcomes of sys_read.
LEMMA ReadCases ==
    ASSUME IInv, NEW t \in Task, NEW k, NEW ptr, NEW len, sys_read(t, k, ptr, len)
    PROVE  /\ table[t][k] \in Object => table[t][k] \in Referenced(table)
           /\ \/ Stops("read of other than one character") \/ UNCHANGED vars
              \/ Stops("read from stdout")
              \/ /\ table[t][k] \in Object
                 /\ objs' = [objs EXCEPT ![table[t][k]].offset =
                                OSInode_read(table[t][k], Slices[ptr][len]).offset]
                 /\ UNCHANGED <<task, table, files, panic>>
<1> DEFINE o == table[t][k]
           slices == Slices[ptr][len]
<1>1. Calls(t, k)
  BY Zenon DEF sys_read
<1>2. /\ o \in Object \cup {Stdin, Stdout}
      /\ o \in Object => o \in Referenced(table)
  BY <1>1, CallOnObject
<1>3. \/ Stops("read of other than one character") \/ UNCHANGED vars \/ Stops("read from stdout")
      \/ /\ o \in Object
         /\ objs' = [objs EXCEPT ![o].offset = OSInode_read(o, slices).offset]
         /\ UNCHANGED <<task, table, files, panic>>
  <2>1. CASE o = Stdin /\ BufferLen(slices) # 1
    BY <2>1, FileIOAssumption, Zenon DEF sys_read
  <2>2. CASE o = Stdin /\ BufferLen(slices) = 1
    BY <2>2, FileIOAssumption DEF sys_read
  <2>3. CASE o = Stdout
    BY <2>3, FileIOAssumption, Zenon DEF sys_read
  <2>4. CASE o \notin {Stdin, Stdout}
    BY <1>2, <2>4, Zenon DEF sys_read
  <2> QED BY <2>1, <2>2, <2>3, <2>4, Zenon
<1> QED BY <1>2, <1>3, Zenon

\* sys_read on an object moves its offset forward and changes nothing else.
LEMMA ReadKeeps ==
    ASSUME IInv, NEW t \in Task, NEW k, NEW ptr \in Ptr, NEW len \in 0..MaxLen,
           sys_read(t, k, ptr, len)
    PROVE  IInv'
<1> DEFINE o == table[t][k]
           slices == Slices[ptr][len]
<1>2. o \in Object => o \in Referenced(table)
  BY ReadCases, Zenon
<1>3. \/ Stops("read of other than one character") \/ UNCHANGED vars \/ Stops("read from stdout")
      \/ /\ o \in Object
         /\ objs' = [objs EXCEPT ![o].offset = OSInode_read(o, slices).offset]
         /\ UNCHANGED <<task, table, files, panic>>
  BY ReadCases, Zenon
<1>4. CASE Stops("read of other than one character")
  BY <1>4, StopsKeeps, Zenon
<1>5. CASE Stops("read from stdout")
  BY <1>5, StopsKeeps, Zenon
<1>6. CASE UNCHANGED vars
  BY <1>6, SameFiles, Zenon DEF vars, IInv, LengthsAgree
<1>7. CASE /\ o \in Object
           /\ objs' = [objs EXCEPT ![o].offset = OSInode_read(o, slices).offset]
           /\ UNCHANGED <<task, table, files, panic>>
  <2> DEFINE r == OSInode_read(o, slices)
             at == objs[o].offset
             upto == ReadEnd(files[objs[o].file].size, at, len)
  <2>1. /\ at \in Nat /\ len \in Nat /\ files[objs[o].file].size \in Nat
        /\ ReadResult(r, ptr, files[objs[o].file], at, len)
    BY <1>2, <1>7, ReadStep, Zenon
  <2> HIDE DEF r, at
  <2>2. upto \in Nat
    <3> HIDE DEF o
    <3> QED BY <2>1 DEF ReadEnd
  <2>7. r.offset = IF at <= upto THEN upto ELSE at
    BY <2>1, Zenon DEF ReadResult
  <2> HIDE DEF upto
  <2>3. r.offset \in Nat
    BY <2>1, <2>2, <2>7, Zenon
  <2>4. /\ objs' \in [Object -> [file : File \cup {None}, offset : Nat]]
        /\ \A p \in Object : objs'[p].file = objs[p].file
        /\ \A p \in Object \ {o} : objs'[p] = objs[p]
    <3>1. /\ objs \in [Object -> [file : File \cup {None}, offset : Nat]]
          /\ o \in Object /\ objs' = [objs EXCEPT ![o].offset = r.offset]
      BY <1>7, Zenon DEF IInv, r
    <3> HIDE DEF o
    <3> QED BY <2>3, <3>1, MovedOffset, Zenon
  <2>5. Referenced(table') = Referenced(table) /\ o \in Referenced(table)
    BY <1>2, <1>7
  <2>6. \A p \in Object : /\ p \in Referenced(table') => objs'[p].file \in File
                          /\ p \notin Referenced(table') => objs'[p] = Unused
    BY <2>4, <2>5 DEF IInv
  <2> QED BY <1>7, <2>4, <2>6, Zenon DEF IInv, LengthsAgree
<1> QED BY <1>3, <1>4, <1>5, <1>6, <1>7, Zenon

\* A write of bs through the open file o changes its file and its offset.
WritesAs(o, ptr, bs) ==
    LET f == objs[o].file
        st == OSInode_write(o, Slices[ptr][Len(bs)], bs)
    IN  /\ o \in Object /\ o \in Referenced(table)
        /\ f \in File /\ objs[o].offset \in Nat /\ files[f] \in GoodFile
        /\ bs \in Seq(Byte) /\ Len(bs) \in 0..MaxLen
        /\ WriteResult(st, files[f], objs[o].offset, bs)
        /\ files' = [files EXCEPT ![f] = st.file] /\ objs' = [objs EXCEPT ![o].offset = st.offset]
        /\ UNCHANGED <<task, table, panic>>

\* What sys_write does: its assertion always holds.
LEMMA WriteCase ==
    ASSUME IInv, NEW t \in Task, NEW k, NEW ptr \in Ptr, NEW bs \in Payload,
           sys_write(t, k, ptr, bs)
    PROVE  WritesAs(table[t][k], ptr, bs)
<1> DEFINE o == table[t][k]
           f == objs[o].file
           st == OSInode_write(o, Slices[ptr][Len(bs)], bs)
<1>1. Calls(t, k) /\ o \in Object
  BY Zenon DEF sys_write
<1>2. o \in Referenced(table)
  BY <1>1, CallOnObject
<1>3. /\ f \in File /\ objs[o].offset \in Nat /\ files[f] \in GoodFile
      /\ bs \in Seq(Byte) /\ Len(bs) \in 0..MaxLen
      /\ WriteResult(st, files[f], objs[o].offset, bs)
  BY <1>2, WriteStep, Zenon
<1>4. st.ok
  BY <1>3, Zenon DEF WriteResult
<1>5. /\ files' = [files EXCEPT ![f] = st.file] /\ objs' = [objs EXCEPT ![o].offset = st.offset]
      /\ UNCHANGED <<task, table, panic>>
  BY <1>4, Zenon DEF sys_write
<1> QED BY <1>1, <1>2, <1>3, <1>5, Zenon DEF WritesAs

\* sys_write keeps the file in its shape; its assertion holds.
LEMMA WriteKeeps ==
    ASSUME IInv, NEW t \in Task, NEW k, NEW ptr \in Ptr, NEW bs \in Payload,
           sys_write(t, k, ptr, bs)
    PROVE  IInv'
<1> DEFINE o == table[t][k]
           f == objs[o].file
           st == OSInode_write(o, Slices[ptr][Len(bs)], bs)
<1>1. /\ o \in Object /\ o \in Referenced(table)
      /\ f \in File /\ objs[o].offset \in Nat /\ files[f] \in GoodFile
      /\ bs \in Seq(Byte) /\ Len(bs) \in 0..MaxLen
      /\ WriteResult(st, files[f], objs[o].offset, bs)
      /\ files' = [files EXCEPT ![f] = st.file] /\ objs' = [objs EXCEPT ![o].offset = st.offset]
      /\ UNCHANGED <<task, table, panic>>
  <2>1. WritesAs(o, ptr, bs)
    BY WriteCase, Zenon
  <2> QED BY <2>1, Zenon DEF WritesAs
<1>2. o \in Referenced(table)
  BY <1>1
<1>3. /\ f \in File /\ objs[o].offset \in Nat /\ files[f] \in GoodFile
      /\ bs \in Seq(Byte) /\ Len(bs) \in 0..MaxLen
      /\ WriteResult(st, files[f], objs[o].offset, bs)
  BY <1>1, Zenon
<1>5. /\ files' = [files EXCEPT ![f] = st.file] /\ objs' = [objs EXCEPT ![o].offset = st.offset]
      /\ UNCHANGED <<task, table, panic>>
  BY <1>1
<1> HIDE DEF st
<1>6. st.file \in GoodFile
  <2>1. bs = <<>> => st.file = files[f]
    BY <1>3, Zenon DEF WriteResult
  <2>2. bs # <<>> => st.file = Written(files[f], objs[o].offset, bs)
    BY <1>3, Zenon DEF WriteResult
  <2> HIDE DEF f, o
  <2> QED BY <1>3, <2>1, <2>2, WrittenGood, Zenon
<1>7. st.offset \in Nat
  <2>1. st.offset = objs[o].offset + Len(bs)
    BY <1>3, Zenon DEF WriteResult
  <2>2. objs[o].offset \in Nat /\ bs \in Seq(Byte)
    BY <1>3, Zenon
  <2> HIDE DEF o, f
  <2> QED BY <2>1, <2>2
<1>8. files' \in [File -> GoodFile]
  BY <1>5, <1>6, Zenon DEF IInv
<1> HIDE DEF f
<1>9. /\ objs' \in [Object -> [file : File \cup {None}, offset : Nat]]
      /\ \A p \in Object : objs'[p].file = objs[p].file
      /\ \A p \in Object \ {o} : objs'[p] = objs[p]
  <2>1. objs \in [Object -> [file : File \cup {None}, offset : Nat]]
    BY DEF IInv
  <2> HIDE DEF o
  <2> QED BY <1>1, <1>5, <1>7, <2>1, MovedOffset, Zenon
<1>10. Referenced(table') = Referenced(table)
  BY <1>5
<1>11. \A p \in Object : /\ p \in Referenced(table') => objs'[p].file \in File
                         /\ p \notin Referenced(table') => objs'[p] = Unused
  BY <1>2, <1>9, <1>10 DEF IInv
<1> QED BY <1>5, <1>8, <1>9, <1>11, Zenon DEF IInv, LengthsAgree

\* The calls that stop the kernel or change nothing.
LEMMA OtherCalls ==
    ASSUME NEW t, NEW k, NEW ptr, NEW text,
           sys_write_text(t, k, ptr, text) \/ sys_fstat(t, k, ptr) \/ sys_get_time(t, ptr)
    PROVE  \/ Stops("write to stdin") \/ Stops("from_utf8 of a cut character")
           \/ Stops("copy_from_slice of another length") \/ UNCHANGED vars
<1>1. \/ Stops("write to stdin") \/ Stops("from_utf8 of a cut character")
      \/ Stops("copy_from_slice of another length") \/ UNCHANGED vars
  <2>1. CASE sys_write_text(t, k, ptr, text)
    BY <2>1, Zenon DEF sys_write_text
  <2>2. CASE sys_fstat(t, k, ptr)
    BY <2>2, Zenon DEF sys_fstat, CopyOut
  <2>3. CASE sys_get_time(t, ptr)
    BY <2>3, Zenon DEF sys_get_time, CopyOut
  <2> QED BY <2>1, <2>2, <2>3, Zenon
<1> QED BY <1>1, Zenon

\* They keep the invariant.
LEMMA OtherCallsKeep ==
    ASSUME IInv, NEW t \in Task, NEW k, NEW ptr \in Ptr, NEW text,
           sys_write_text(t, k, ptr, text) \/ sys_fstat(t, k, ptr) \/ sys_get_time(t, ptr)
    PROVE  IInv'
<1>1. \/ Stops("write to stdin") \/ Stops("from_utf8 of a cut character")
      \/ Stops("copy_from_slice of another length") \/ UNCHANGED vars
  BY OtherCalls, Zenon
<1>2. CASE UNCHANGED vars
  BY <1>2, SameFiles, Zenon DEF vars, IInv, LengthsAgree
<1> QED BY <1>1, <1>2, StopsKeeps, Zenon

\* A stop on what a call was given is not a failed assertion.
LEMMA RefuseKeeps ==
    ASSUME IInv, NEW t, NEW why \in Unwrapped, refuse(t, why)
    PROVE  IInv'
<1>1. why # "size written"
  BY DEF Unwrapped
<1>2. Stops(why)
  BY DEF refuse
<1> QED BY <1>1, <1>2, StopsKeeps, Zenon

\* A task comes or stops; a zombie keeps its table.
LEMMA TasksKeep ==
    ASSUME IInv, NEW t \in Task, NEW u \in Task, fork(t, u) \/ spawn(t, u) \/ exit(t)
    PROVE  IInv'
<1>0. /\ task \in [Task -> {"none", "live", "zombie"}] /\ table \in [Task -> Seq(Entry)]
      /\ \A v \in Task : task[v] = "none" => table[v] = <<>>
  BY DEF IInv
<1>1. CASE exit(t)
  <2>1. /\ task' = [task EXCEPT ![t] = "zombie"] /\ UNCHANGED <<table, objs, files, panic>>
    BY <1>1 DEF exit
  <2>2. task' \in [Task -> {"none", "live", "zombie"}] /\ \A v \in Task : task'[v] = "none" => table[v] = <<>>
    BY <1>0, <2>1
  <2> QED BY <2>1, <2>2, SameFiles, Zenon DEF IInv, LengthsAgree
<1>2. CASE fork(t, u) \/ spawn(t, u)
  <2>1. PICK new \in {table[t], fresh_table} :
          /\ task[u] = "none" /\ task' = [task EXCEPT ![u] = "live"]
          /\ table' = [table EXCEPT ![u] = new] /\ UNCHANGED <<objs, files, panic>>
    BY <1>2 DEF fork, spawn
  <2>2. new \in Seq(Entry)
    <3>1. fresh_table \in Seq(Entry)
      BY DEF fresh_table, Entry
    <3>2. table[t] \in Seq(Entry)
      BY <1>0
    <3> QED BY <2>1, <3>1, <3>2
  <2>3. /\ table' \in [Task -> Seq(Entry)] /\ table'[u] = new
        /\ \A v \in Task \ {u} : table'[v] = table[v]
    BY <1>0, <2>1, <2>2
  <2>4. table[u] = <<>>
    BY <1>0, <2>1
  <2>5. \A p \in Object : p \in Referenced(table') <=> p \in Referenced(table)
    <3> TAKE p \in Object
    <3>1. ASSUME NEW v \in Task, NEW j \in DOMAIN table'[v], table'[v][j] = p
          PROVE  p \in Referenced(table)
      <4>1. CASE v # u
        BY <2>3, <3>1, <4>1, InSomeTable, Zenon
      <4>2. CASE v = u /\ new = table[t]
        BY <2>3, <3>1, <4>2, InSomeTable, Zenon
      <4>3. CASE v = u /\ new = fresh_table
        <5>1. p \in {Stdin, Stdout}
          BY <2>3, <3>1, <4>3 DEF fresh_table
        <5> QED BY <5>1, FileIOAssumption, Zenon
      <4> QED BY <2>1, <4>1, <4>2, <4>3
    <3>2. ASSUME NEW v \in Task, NEW j \in DOMAIN table[v], table[v][j] = p
          PROVE  p \in Referenced(table')
      <4>1. v # u
        BY <2>4, <3>2
      <4>2. j \in DOMAIN table'[v] /\ table'[v][j] = p
        BY <2>3, <3>2, <4>1
      <4> QED BY <4>2, InSomeTable
    <3> QED BY <3>1, <3>2, InSomeTable
  <2>6. \A v \in Task : task'[v] = "none" => table'[v] = <<>>
    BY <1>0, <2>1, <2>3
  <2>7. task' \in [Task -> {"none", "live", "zombie"}]
    BY <1>0, <2>1
  <2>8. \A p \in Object : /\ p \in Referenced(table') => objs'[p].file \in File
                          /\ p \notin Referenced(table') => objs'[p] = Unused
    BY <2>1, <2>5, Zenon DEF IInv
  <2>9. LengthsAgree'
    BY <2>1, Zenon DEF IInv, LengthsAgree
  <2>10. objs' \in [Object -> [file : File \cup {None}, offset : Nat]] /\ files' \in [File -> GoodFile]
    BY <2>1 DEF IInv
  <2> QED BY <2>3, <2>6, <2>7, <2>8, <2>9, <2>10, Zenon DEF IInv
<1> QED BY <1>1, <1>2

\* Every step keeps the invariant.
LEMMA NextKeeps == IInv /\ [Next]_vars => IInv'
<1> SUFFICES ASSUME IInv, [Next]_vars PROVE IInv'
  OBVIOUS
<1>1. CASE \E t \in Task, f \in File, clear \in BOOLEAN : sys_open(t, f, clear)
  BY <1>1, OpenKeeps
<1>2. CASE \E t \in Task, k \in 1..MaxFds, ptr \in Ptr, len \in 0..MaxLen : sys_read(t, k, ptr, len)
  BY <1>2, ReadKeeps
<1>3. CASE \E t \in Task, k \in 1..MaxFds, ptr \in Ptr, bs \in Payload : sys_write(t, k, ptr, bs)
  BY <1>3, WriteKeeps
<1>4. CASE \E t \in Task, k \in 1..MaxFds, ptr \in Ptr, text \in Text : sys_write_text(t, k, ptr, text)
  BY <1>4, OtherCallsKeep, Zenon
<1>5. CASE \E t \in Task, k \in 1..MaxFds, ptr \in Ptr : sys_fstat(t, k, ptr)
  BY <1>5, OtherCallsKeep
<1>6. CASE \E t \in Task, ptr \in Ptr : sys_get_time(t, ptr)
  BY <1>6, OtherCallsKeep
<1>7. CASE \E t \in Task, k \in Closed : sys_close(t, k)
  BY <1>7, CloseKeeps
<1>8. CASE \E t, u \in Task : fork(t, u) \/ spawn(t, u)
  BY <1>8, TasksKeep
<1>9. CASE \E t \in Task : exit(t) \/ reap(t)
  BY <1>9, TasksKeep, ReapKeeps
<1>10. CASE Halted \/ UNCHANGED vars
  BY <1>10, SameFiles, Zenon DEF Halted, vars, IInv, LengthsAgree
<1>11. CASE \E t \in Task, why \in Unwrapped : refuse(t, why)
  BY <1>11, RefuseKeeps, Zenon
<1> QED BY <1>1, <1>2, <1>3, <1>4, <1>5, <1>6, <1>7, <1>8, <1>9, <1>10, <1>11, Zenon DEF Next

\* The invariant holds in every reachable state, whatever the tasks open, read, write,
\* close, fork, exit and reap.
THEOREM Invariance == Spec => []IInv
BY InitInv, NextKeeps, PTL DEF Spec

\* The invariant gives the type invariant.
LEMMA TypeFollows == IInv => TypeOK
<1> SUFFICES ASSUME IInv PROVE TypeOK
  OBVIOUS
<1>1. \A t \in Task : Range(table[t]) \subseteq Object \cup {Stdin, Stdout, None}
  <2> TAKE t \in Task
  <2>1. table[t] \in Seq(Entry)
    BY DEF IInv
  <2> QED BY <2>1 DEF Entry, Range
<1>2. \A o \in Object : objs[o] = Unused <=> o \notin Referenced(table)
  BY FileIOAssumption DEF IInv, Unused
<1>3. \A f \in File : Len(files[f].data) = (files[f].size + BLOCK_SZ - 1) \div BLOCK_SZ
  BY DEF IInv, GoodFile, NBlocks
<1> QED BY <1>1, <1>2, <1>3 DEF TypeOK, IInv

\* The type invariant: a description is in use exactly while some table has it, and a file
\* has exactly the blocks its size needs (DiskInode::blocks_num_needed).
THEOREM TypeCorrect == Spec => []TypeOK
BY Invariance, TypeFollows, PTL

\* sys_read hands a user the bytes of the file from the description's offset on, in order
\* and as many as there are, however the buffer is cut into pages by
\* translated_byte_buffer and the range into blocks by DiskInode::read_at.
THEOREM ReadsCorrect == Spec => []ReadsInOrder
BY Invariance, ReadsFollow, PTL

\* sys_write leaves in the file the bytes of the buffer, in order, from the description's
\* offset on, keeps the bytes outside that range and fills a gap with zeros, although
\* OSInode::write calls Inode::write_at once for each page of the buffer.
THEOREM WritesCorrect == Spec => []WritesInOrder
BY Invariance, WritesFollow, PTL

\* What OSInode::write asserts of the length that write_at returns never fails, for every
\* buffer, however it is cut, and every offset, beyond the end of the file too.
THEOREM LengthsCorrect == Spec => []LengthsAgree
<1>1. IInv => LengthsAgree
  BY DEF IInv
<1> QED BY <1>1, Invariance, PTL

-----------------------------------------------------------------------------

\* What Descriptors keeps of a table.
LEMMA DescriptorsOf ==
    ASSUME NEW tab \in Seq(Entry)
    PROVE  /\ \A k : k \in DOMAIN Descriptors(tab) <=>
                       k \in Nat /\ k + 1 \in DOMAIN tab /\ tab[k + 1] # None
           /\ \A k \in DOMAIN Descriptors(tab) : Descriptors(tab)[k] = tab[k + 1]
           /\ Descriptors(tab) = [k \in DOMAIN Descriptors(tab) |-> Descriptors(tab)[k]]
<1> DEFINE D == {j - 1 : j \in {n \in DOMAIN tab : tab[n] # None}}
<1>1. Descriptors(tab) = [k \in D |-> tab[k + 1]]
  BY Zenon DEF Descriptors
<1>2. \A k : k \in D <=> k \in Nat /\ k + 1 \in DOMAIN tab /\ tab[k + 1] # None
  <2>1. DOMAIN tab = 1..Len(tab) /\ Len(tab) \in Nat
    OBVIOUS
  <2>2. ASSUME NEW k, k \in D PROVE k \in Nat /\ k + 1 \in DOMAIN tab /\ tab[k + 1] # None
    <3>1. PICK j \in DOMAIN tab : tab[j] # None /\ k = j - 1
      BY <2>2
    <3>2. j \in 1..Len(tab)
      BY <2>1
    <3>3. k \in Nat /\ k + 1 = j
      BY <2>1, <3>1, <3>2
    <3> QED BY <3>1, <3>3
  <2>3. ASSUME NEW k, k \in Nat, k + 1 \in DOMAIN tab, tab[k + 1] # None PROVE k \in D
    <3>1. (k + 1) - 1 = k
      BY <2>3
    <3> QED BY <2>3, <3>1
  <2> QED BY <2>2, <2>3, Zenon
<1> HIDE DEF D
<1>3. DOMAIN Descriptors(tab) = D /\ \A k \in D : Descriptors(tab)[k] = tab[k + 1]
  BY <1>1
<1>4. Descriptors(tab) = [k \in D |-> Descriptors(tab)[k]]
  BY <1>1
<1> QED BY <1>2, <1>3, <1>4

\* A function on nothing is the empty sequence.
LEMMA NoValues ==
    ASSUME NEW g, g = [x \in {} |-> g[x]]
    PROVE  g = <<>>
<1>1. {} = 1..0
  OBVIOUS
<1>2. g \in Seq({}) /\ Len(g) = 0
  BY <1>1
<1> QED BY <1>2, NoLength

\* The descriptors of the tasks that are there.
FdsOf(tk, tabs) == [t \in {u \in Task : tk[u] # "none"} |-> Descriptors(tabs[t])]

\* A name is the object of a descriptor.
LEMMA NamedObjects ==
    ASSUME NEW tk, NEW tabs \in [Task -> Seq(Entry)],
           \A t \in Task : tk[t] = "none" => tabs[t] = <<>>
    PROVE  O!Named(FdsOf(tk, tabs)) = Referenced(tabs)
<1> DEFINE F == FdsOf(tk, tabs)
<1>1. DOMAIN F = {u \in Task : tk[u] # "none"} /\ \A t \in DOMAIN F : F[t] = Descriptors(tabs[t])
  BY DEF FdsOf
<1> HIDE DEF F
<1>2. \A o : o \in O!Named(F) <=> o \in Object /\ \E t \in DOMAIN F : \E k \in DOMAIN F[t] : F[t][k] = o
  BY DEF O!Named, O!Range
<1>3. ASSUME NEW o \in O!Named(F) PROVE o \in Referenced(tabs)
  <2>1. PICK t \in DOMAIN F : \E k \in DOMAIN F[t] : F[t][k] = o
    BY <1>2
  <2>2. PICK k \in DOMAIN F[t] : F[t][k] = o
    BY <2>1
  <2>3. t \in Task /\ F[t] = Descriptors(tabs[t]) /\ tabs[t] \in Seq(Entry)
    BY <1>1, <2>1
  <2>4. k + 1 \in DOMAIN tabs[t] /\ tabs[t][k + 1] = o
    BY <2>2, <2>3, DescriptorsOf
  <2> QED BY <1>2, <2>3, <2>4, InSomeTable
<1>4. ASSUME NEW o \in Referenced(tabs) PROVE o \in O!Named(F)
  <2>1. o \in Object /\ \E t \in Task : \E k \in DOMAIN tabs[t] : tabs[t][k] = o
    BY InSomeTable
  <2>2. PICK t \in Task : \E k \in DOMAIN tabs[t] : tabs[t][k] = o
    BY <2>1
  <2>3. PICK k \in DOMAIN tabs[t] : tabs[t][k] = o
    BY <2>2
  <2>4. tabs[t] \in Seq(Entry) /\ o # None
    BY <2>1, FileIOAssumption
  <2>5. k - 1 \in Nat /\ (k - 1) + 1 = k
    BY <2>3, <2>4
  <2>6. k - 1 \in DOMAIN Descriptors(tabs[t]) /\ Descriptors(tabs[t])[k - 1] = o
    BY <2>3, <2>4, <2>5, DescriptorsOf
  <2>7. t \in DOMAIN F
    <3>1. tabs[t] # <<>>
      BY <2>3, NoEntries
    <3> QED BY <1>1, <3>1
  <2> QED BY <1>1, <1>2, <2>1, <2>6, <2>7
<1> QED BY <1>3, <1>4, Zenon DEF F

\* The state of OpenFiles in every state of the invariant.
LEMMA Mapped ==
    ASSUME IInv
    PROVE  /\ Fds = FdsOf(task, table) /\ O!Named(Fds) = Referenced(table)
           /\ DOMAIN Fds = {u \in Task : task[u] # "none"}
           /\ \A t \in DOMAIN Fds : Fds[t] = Descriptors(table[t])
           /\ OpenObjs = [o \in Referenced(table) |-> objs[o]]
           /\ DOMAIN OpenObjs = Referenced(table)
<1>1. Fds = FdsOf(task, table)
  BY Zenon DEF Fds, FdsOf
<1>2. O!Named(FdsOf(task, table)) = Referenced(table)
  BY NamedObjects DEF IInv
<1>3. OpenObjs = [o \in Referenced(table) |-> objs[o]]
  BY Zenon DEF OpenObjs, Restrict
<1> QED BY <1>1, <1>2, <1>3 DEF FdsOf

\* The same of the state after a step.
LEMMA MappedNext ==
    ASSUME IInv'
    PROVE  /\ Fds' = FdsOf(task', table') /\ O!Named(Fds') = Referenced(table')
           /\ DOMAIN Fds' = {u \in Task : task'[u] # "none"}
           /\ \A t \in DOMAIN Fds' : Fds'[t] = Descriptors(table'[t])
           /\ OpenObjs' = [o \in Referenced(table') |-> objs'[o]]
           /\ Contents' = [f \in File |-> Flat(files'[f])]
<1>1. Fds' = FdsOf(task', table')
  BY Zenon DEF Fds, FdsOf
<1>2. O!Named(FdsOf(task', table')) = Referenced(table')
  <2>1. table' \in [Task -> Seq(Entry)] /\ \A t \in Task : task'[t] = "none" => table'[t] = <<>>
    BY DEF IInv
  <2> QED BY <2>1, NamedObjects
<1>3. OpenObjs' = [o \in Referenced(table') |-> objs'[o]]
  BY Zenon DEF OpenObjs, Restrict
<1>4. Contents' = [f \in File |-> Flat(files'[f])]
  BY Zenon DEF Contents
<1> QED BY <1>1, <1>2, <1>3, <1>4 DEF FdsOf

\* An empty file has no bytes.
LEMMA FlatEmpty == Flat(EmptyFile) = <<>>
<1>1. 1..0 = {} /\ EmptyFile.size = 0
  BY DEF EmptyFile
<1>2. Flat(EmptyFile) = [k \in {} |-> Flat(EmptyFile)[k]]
  BY <1>1 DEF Flat
<1> QED BY <1>2, NoValues

\* The first state.
LEMMA InitMapped == Init => O!Init
<1> SUFFICES ASSUME Init PROVE O!Init
  OBVIOUS
<1>1. Contents = [f \in File |-> <<>>]
  BY FlatEmpty DEF Init, Contents
<1>2. IInv
  BY InitInv
<1>3. Referenced(table) = {}
  <2>1. \A o \in Object : objs[o].file = None
    BY DEF Init, Unused
  <2>2. \A o \in Referenced(table) : o \in Object /\ objs[o].file \in File
    BY <1>2, InSomeTable DEF IInv
  <2> QED BY <2>1, <2>2, FileIOAssumption
<1>4. OpenObjs = <<>>
  <2>1. OpenObjs = [o \in {} |-> OpenObjs[o]]
    BY <1>2, <1>3, Mapped
  <2> QED BY <2>1, NoValues
<1>5. Fds = [u \in {Initial} |-> NewFds]
  <2>1. Initial \in Task /\ \A t \in Task : task[t] # "none" <=> t = Initial
    BY FileIOAssumption DEF Init
  <2>2. {u \in Task : task[u] # "none"} = {Initial} /\ table[Initial] = fresh_table
    BY <2>1 DEF Init
  <2> QED BY <2>2 DEF Fds, NewFds
<1>6. Initial \in Task
  BY FileIOAssumption
<1> QED BY <1>1, <1>4, <1>5, <1>6 DEF O!Init

\* A panic is a shutdown.
LEMMA StopsMapped ==
    ASSUME IInv, NEW why, Stops(why), IInv'
    PROVE  O!Shutdown
<1>1. /\ task' = [t \in Task |-> "none"] /\ table' = [t \in Task |-> <<>>] /\ files' = files
  BY DEF Stops
<1>2. Contents' = Contents
  BY <1>1 DEF Contents
<1>3. Fds' = <<>>
  <2>1. {u \in Task : task'[u] # "none"} = {}
    BY <1>1
  <2>2. Fds' = [t \in {} |-> Fds'[t]]
    BY <2>1, MappedNext, Zenon DEF FdsOf
  <2> QED BY <2>2, NoValues
<1>4. OpenObjs' = <<>>
  <2>1. \A t \in Task : DOMAIN table'[t] = {}
    BY <1>1, NoEntries, Zenon
  <2>2. Referenced(table') = {}
    BY <2>1, InSomeTable
  <2>3. OpenObjs' = [o \in {} |-> OpenObjs'[o]]
    BY <2>2, MappedNext
  <2> QED BY <2>3, NoValues
<1> QED BY <1>2, <1>3, <1>4, Zenon DEF O!Shutdown

\* Tables that lose entries: the open files still named stay.
LEMMA TablesMapped ==
    ASSUME IInv, IInv', NEW tabs, NEW fds, SetTables(tabs), Fds' = fds,
           Referenced(tabs) \subseteq Referenced(table)
    PROVE  O!Tables(fds)
<1>1. /\ table' = tabs
      /\ objs' = [o \in Object |-> IF o \in Referenced(tabs) THEN objs[o] ELSE Unused]
  BY DEF SetTables
<1>2. O!Named(fds) = Referenced(tabs)
  BY <1>1, MappedNext, Zenon
<1>3. OpenObjs' = [o \in Referenced(tabs) |-> objs'[o]]
  BY <1>1, MappedNext, Zenon
<1>4. \A o \in Referenced(tabs) : o \in Object
  BY InSomeTable
<1>5. \A o \in Referenced(tabs) : objs'[o] = objs[o]
  BY <1>1, <1>4
<1>6. \A o \in Referenced(tabs) : OpenObjs[o] = objs[o]
  BY Mapped
<1>7. OpenObjs' = [o \in Referenced(tabs) |-> OpenObjs[o]]
  BY <1>3, <1>5, <1>6
<1>8. OpenObjs' = O!Restrict(OpenObjs, O!Named(fds))
  BY <1>2, <1>7 DEF O!Restrict
<1> QED BY <1>8 DEF O!Tables

-----------------------------------------------------------------------------

\* sys_open gives the lowest free descriptor and makes a new open file.
LEMMA OpenMapped ==
    ASSUME IInv, IInv', NEW t \in Task, NEW f \in File, NEW clear \in BOOLEAN,
           sys_open(t, f, clear)
    PROVE  O!Open(t, f) /\ t \in DOMAIN Fds
<1> DEFINE tab == table[t]
           k == alloc_fd(tab)
           D == Descriptors(tab)
           new == table'[t]
<1>1. PICK o \in Object \ Referenced(table) : OpensAs(t, f, o)
  BY OpenStep, Zenon
<1>2. /\ files' = IF clear THEN [files EXCEPT ![f] = EmptyFile] ELSE files
      /\ task' = task /\ task[t] = "live"
  BY DEF sys_open
<1>3. tab \in Seq(Entry) /\ objs \in [Object -> [file : File \cup {None}, offset : Nat]]
  BY DEF IInv
<1>4. /\ objs' = [objs EXCEPT ![o] = [file |-> f, offset |-> 0]]
      /\ \A u \in Task \ {t} : table'[u] = table[u]
      /\ \A q : q \in Referenced(table') <=> q \in Referenced(table) \/ q = o
      /\ HasEntry(new, tab, k, o)
  BY <1>1, Zenon DEF OpensAs
<1>5. /\ new \in Seq(Entry) /\ DOMAIN new = DOMAIN tab \cup {k} /\ new[k] = o
      /\ \A j \in DOMAIN tab \ {k} : new[j] = tab[j]
  BY <1>4, Zenon DEF HasEntry
<1>6. /\ k \in Nat /\ k # 0 /\ k \in 1..(Len(tab) + 1)
      /\ \A j \in 1..(k - 1) : j \in DOMAIN tab /\ tab[j] # None
      /\ k \in DOMAIN tab => tab[k] = None
  <2>1. /\ k \in 1..(Len(tab) + 1) /\ \A j \in 1..(k - 1) : tab[j] # None
        /\ k <= Len(tab) => tab[k] = None
    BY <1>3, AllocFd
  <2>2. DOMAIN tab = 1..Len(tab) /\ Len(tab) \in Nat
    BY <1>3
  <2> HIDE DEF k, tab
  <2>3. k \in Nat /\ k # 0 /\ (k \in DOMAIN tab => k <= Len(tab)) /\ \A j \in 1..(k - 1) : j \in DOMAIN tab
    BY <2>1, <2>2
  <2> QED BY <2>1, <2>3
<1> HIDE DEF new, k
<1>7. /\ \A j : j \in DOMAIN D <=> j \in Nat /\ j + 1 \in DOMAIN tab /\ tab[j + 1] # None
      /\ \A j \in DOMAIN D : D[j] = tab[j + 1]
  BY <1>3, DescriptorsOf
<1> DEFINE Dn == Descriptors(new)
<1>8. /\ \A j : j \in DOMAIN Dn <=> j \in Nat /\ j + 1 \in DOMAIN new /\ new[j + 1] # None
      /\ \A j \in DOMAIN Dn : Dn[j] = new[j + 1]
      /\ Dn = [j \in DOMAIN Dn |-> Dn[j]]
  BY <1>5, DescriptorsOf
<1> HIDE DEF D, Dn, tab
<1> DEFINE p == k - 1
<1>9. p \in Nat /\ p + 1 = k
  BY <1>6
<1>10. p \notin DOMAIN D
  BY <1>6, <1>7, <1>9
<1>11. 0..(p - 1) \subseteq DOMAIN D
  <2> SUFFICES ASSUME NEW j \in 0..(p - 1) PROVE j \in DOMAIN D
    OBVIOUS
  <2>1. j \in Nat /\ j + 1 \in 1..(k - 1)
    BY <1>9
  <2> QED BY <1>6, <1>7, <2>1
<1>12. p \in {0} \cup {j + 1 : j \in DOMAIN D}
  <2>1. CASE p # 0
    <3>1. p - 1 \in 0..(p - 1) /\ (p - 1) + 1 = p
      BY <1>9, <2>1
    <3>2. p - 1 \in DOMAIN D
      BY <1>11, <3>1
    <3> QED BY <3>1, <3>2
  <2> QED BY <2>1
<1>13. Dn = O!With(D, p, o)
  <2>1. o # None /\ o \in Object
    BY <1>1, FileIOAssumption, Zenon
  <2>2. ASSUME NEW j PROVE j \in DOMAIN Dn <=> j \in DOMAIN D \cup {p}
    <3>1. CASE j = p
      BY <1>5, <1>8, <1>9, <2>1, <3>1
    <3>2. CASE j \in Nat /\ j # p
      <4>1. j + 1 # k
        BY <1>9, <3>2
      <4> QED BY <1>5, <1>7, <1>8, <3>2, <4>1
    <3>3. CASE j \notin Nat
      BY <1>7, <1>8, <1>9, <3>3
    <3> QED BY <3>1, <3>2, <3>3
  <2>3. ASSUME NEW j \in DOMAIN Dn PROVE Dn[j] = IF j = p THEN o ELSE D[j]
    <3>1. CASE j = p
      BY <1>5, <1>8, <1>9, <3>1
    <3>2. CASE j # p
      <4>1. j \in Nat /\ j + 1 # k /\ j \in DOMAIN D
        BY <1>7, <1>9, <2>2, <3>2
      <4>2. j + 1 \in DOMAIN tab \ {k}
        BY <1>7, <4>1
      <4> QED BY <1>5, <1>7, <1>8, <3>2, <4>1, <4>2
    <3> QED BY <3>1, <3>2
  <2>4. DOMAIN Dn = DOMAIN D \cup {p}
    BY <2>2
  <2>5. Dn = [j \in DOMAIN D \cup {p} |-> IF j = p THEN o ELSE D[j]]
    BY <1>8, <2>3, <2>4
  <2> QED BY <2>5, Zenon DEF O!With
<1> HIDE DEF p
<1>14. /\ t \in DOMAIN Fds /\ Fds[t] = D /\ DOMAIN Fds = {u \in Task : task[u] # "none"}
       /\ \A u \in DOMAIN Fds : Fds[u] = Descriptors(table[u])
       /\ DOMAIN OpenObjs = Referenced(table) /\ OpenObjs = [q \in Referenced(table) |-> objs[q]]
  BY <1>2, Mapped, Zenon DEF D, tab
<1>15. Fds' = [Fds EXCEPT ![t] = O!With(Fds[t], p, o)]
  <2>1. /\ DOMAIN Fds' = DOMAIN Fds /\ \A u \in DOMAIN Fds : Fds'[u] = Descriptors(table'[u])
        /\ Fds' = [u \in DOMAIN Fds |-> Fds'[u]]
    BY <1>2, <1>14, MappedNext DEF FdsOf
  <2>3. Fds'[t] = O!With(Fds[t], p, o)
    BY <1>13, <1>14, <2>1 DEF Dn, new
  <2>4. \A u \in DOMAIN Fds \ {t} : Fds'[u] = Fds[u]
    BY <1>4, <1>14, <2>1
  <2>5. Fds = [u \in DOMAIN Fds |-> Fds[u]]
    BY Zenon DEF Fds
  <2> QED BY <1>14, <2>1, <2>3, <2>4, <2>5
<1>16. o \in Object \ DOMAIN OpenObjs
  BY <1>1, <1>14, Zenon
<1>17. OpenObjs' = O!With(OpenObjs, o, [file |-> f, offset |-> 0])
  <2>1. \A q : q \in Referenced(table') <=> q \in DOMAIN OpenObjs \cup {o}
    BY <1>4, <1>14, Zenon
  <2>2. Referenced(table') = DOMAIN OpenObjs \cup {o}
    BY <2>1, Zenon
  <2>3. \A q \in Referenced(table') : objs'[q] = IF q = o THEN [file |-> f, offset |-> 0] ELSE OpenObjs[q]
    <3>1. \A q \in Referenced(table') : q \in Object
      BY InSomeTable, Zenon
    <3> QED BY <1>3, <1>4, <1>14, <3>1, Zenon
  <2>4. OpenObjs' = [q \in DOMAIN OpenObjs \cup {o} |->
                       IF q = o THEN [file |-> f, offset |-> 0] ELSE OpenObjs[q]]
    BY <2>2, <2>3, MappedNext, Zenon
  <2> QED BY <2>4, Zenon DEF O!With
<1>18. Contents' \in {Contents, [Contents EXCEPT ![f] = <<>>]}
  <2>1. CASE ~clear
    BY <1>2, <2>1 DEF Contents
  <2>2. CASE clear
    <3>1. files' = [files EXCEPT ![f] = EmptyFile] /\ files \in [File -> GoodFile]
      BY <1>2, <2>2 DEF IInv
    <3>2. \A g \in File : files'[g] = IF g = f THEN EmptyFile ELSE files[g]
      BY <3>1
    <3>3. \A g \in File : Flat(files'[g]) = IF g = f THEN <<>> ELSE Flat(files[g])
      BY <3>2, FlatEmpty
    <3>4. Contents' = [g \in File |-> IF g = f THEN <<>> ELSE Flat(files[g])]
      BY <3>3, MappedNext, Zenon
    <3>5. Contents' = [Contents EXCEPT ![f] = <<>>]
      BY <3>4, Zenon DEF Contents
    <3> QED BY <3>5
  <2> QED BY <2>1, <2>2
<1>19. O!Open(t, f)
  BY <1>10, <1>11, <1>12, <1>14, <1>15, <1>16, <1>17, <1>18, Zenon DEF O!Open
<1> QED BY <1>14, <1>19, Zenon

-----------------------------------------------------------------------------

\* sys_close takes one descriptor away.
LEMMA CloseMapped ==
    ASSUME IInv, IInv', NEW t \in Task, NEW k, sys_close(t, k)
    PROVE  O!Close(t) /\ t \in DOMAIN Fds
<1> DEFINE tab == table[t]
           tables == [table EXCEPT ![t][k] = None]
           new == [tab EXCEPT ![k] = None]
           D == Descriptors(tab)
           Dn == Descriptors(new)
           p == k - 1
<1>1. /\ task[t] = "live" /\ k \in DOMAIN tab /\ tab[k] # None
      /\ SetTables(tables) /\ task' = task /\ files' = files
  BY DEF sys_close, Calls
<1>2. table \in [Task -> Seq(Entry)] /\ tab \in Seq(Entry) /\ None \in Entry
  BY DEF IInv, Entry
<1>3. /\ new \in Seq(Entry) /\ DOMAIN new = DOMAIN tab
      /\ \A j \in DOMAIN tab : new[j] = IF j = k THEN None ELSE tab[j]
  <2> HIDE DEF tab
  <2> QED BY <1>1, <1>2
<1>4. tables[t] = new /\ \A u \in Task \ {t} : tables[u] = table[u]
  BY <1>2
<1>5. p \in Nat /\ p + 1 = k
  BY <1>1, <1>2
<1>6. /\ \A j : j \in DOMAIN D <=> j \in Nat /\ j + 1 \in DOMAIN tab /\ tab[j + 1] # None
      /\ \A j \in DOMAIN D : D[j] = tab[j + 1]
  BY <1>2, DescriptorsOf
<1> HIDE DEF new
<1>7. /\ \A j : j \in DOMAIN Dn <=> j \in Nat /\ j + 1 \in DOMAIN new /\ new[j + 1] # None
      /\ \A j \in DOMAIN Dn : Dn[j] = new[j + 1]
      /\ Dn = [j \in DOMAIN Dn |-> Dn[j]]
  BY <1>3, DescriptorsOf
<1>8. /\ t \in DOMAIN Fds /\ Fds[t] = D /\ DOMAIN Fds = {u \in Task : task[u] # "none"}
      /\ \A u \in DOMAIN Fds : Fds[u] = Descriptors(table[u])
  BY <1>1, Mapped
<1>9. table' = tables
  BY <1>1 DEF SetTables
<1> HIDE DEF tables, tab, D, Dn, p
<1>10. p \in DOMAIN D
  BY <1>1, <1>5, <1>6, Zenon
<1>11. Dn = O!Restrict(D, DOMAIN D \ {p})
  <2>1. ASSUME NEW j PROVE j \in DOMAIN Dn <=> j \in DOMAIN D \ {p}
    <3>1. j \in Nat => (j + 1 = k <=> j = p)
      BY <1>5
    <3> QED BY <1>3, <1>6, <1>7, <3>1
  <2>2. ASSUME NEW j \in DOMAIN Dn PROVE Dn[j] = D[j]
    <3>1. j \in DOMAIN D \ {p} /\ j \in Nat
      BY <1>7, <2>1
    <3>2. j + 1 # k
      BY <1>5, <3>1
    <3> QED BY <1>3, <1>6, <1>7, <3>1, <3>2
  <2>3. DOMAIN Dn = DOMAIN D \ {p}
    BY <2>1
  <2>4. Dn = [j \in DOMAIN D \ {p} |-> D[j]]
    BY <1>7, <2>2, <2>3
  <2> QED BY <2>4, Zenon DEF O!Restrict
<1> DEFINE fds == [Fds EXCEPT ![t] = O!Restrict(Fds[t], DOMAIN Fds[t] \ {p})]
<1>12. Fds' = fds
  <2>1. /\ DOMAIN Fds' = DOMAIN Fds /\ \A u \in DOMAIN Fds : Fds'[u] = Descriptors(table'[u])
        /\ Fds' = [u \in DOMAIN Fds |-> Fds'[u]]
    BY <1>1, <1>8, MappedNext DEF FdsOf
  <2>2. Fds'[t] = O!Restrict(Fds[t], DOMAIN Fds[t] \ {p})
    BY <1>4, <1>8, <1>9, <1>11, <2>1 DEF Dn
  <2>3. \A u \in DOMAIN Fds \ {t} : Fds'[u] = Fds[u]
    BY <1>4, <1>8, <1>9, <2>1
  <2>4. Fds = [u \in DOMAIN Fds |-> Fds[u]]
    BY Zenon DEF Fds
  <2> QED BY <1>8, <2>1, <2>2, <2>3, <2>4
<1>13. Referenced(tables) \subseteq Referenced(table)
  <2>1. \A u \in Task : \A j \in DOMAIN tables[u] :
           tables[u][j] = None \/ (j \in DOMAIN table[u] /\ tables[u][j] = table[u][j])
    BY <1>3, <1>4 DEF tab
  <2> QED BY <2>1, FewerReferences
<1> HIDE DEF fds
<1>14. O!Tables(fds)
  BY <1>1, <1>12, <1>13, TablesMapped
<1>15. Contents' = Contents
  BY <1>1 DEF Contents
<1>16. O!Close(t)
  BY <1>8, <1>10, <1>14, <1>15, Zenon DEF O!Close, fds
<1> QED BY <1>8, <1>16

\* A reaped zombie takes its descriptors with it.
LEMMA ReapMapped ==
    ASSUME IInv, IInv', NEW t \in Task, reap(t)
    PROVE  O!EndTask(t) /\ t \in DOMAIN Fds
<1> DEFINE tables == [table EXCEPT ![t] = <<>>]
<1>1. /\ SetTables(tables) /\ task' = [task EXCEPT ![t] = "none"] /\ files' = files
      /\ task[t] = "zombie"
  BY DEF reap
<1>2. table \in [Task -> Seq(Entry)] /\ task \in [Task -> {"none", "live", "zombie"}]
  BY DEF IInv
<1>3. tables[t] = <<>> /\ \A u \in Task \ {t} : tables[u] = table[u]
  BY <1>2
<1>4. table' = tables
  BY <1>1 DEF SetTables
<1> HIDE DEF tables
<1>5. Referenced(tables) \subseteq Referenced(table)
  <2>1. \A u \in Task : \A j \in DOMAIN tables[u] :
           tables[u][j] = None \/ (j \in DOMAIN table[u] /\ tables[u][j] = table[u][j])
    BY <1>3, NoEntries
  <2> QED BY <2>1, FewerReferences
<1>6. /\ t \in DOMAIN Fds /\ DOMAIN Fds = {u \in Task : task[u] # "none"}
      /\ \A u \in DOMAIN Fds : Fds[u] = Descriptors(table[u])
  BY <1>1, Mapped, Zenon
<1> DEFINE fds == O!Restrict(Fds, DOMAIN Fds \ {t})
<1>7. Fds' = fds
  <2>1. /\ DOMAIN Fds' = {u \in Task : task'[u] # "none"}
        /\ \A u \in DOMAIN Fds' : Fds'[u] = Descriptors(table'[u])
        /\ Fds' = [u \in DOMAIN Fds' |-> Fds'[u]]
    BY MappedNext DEF FdsOf
  <2>2. DOMAIN Fds' = DOMAIN Fds \ {t}
    BY <1>1, <1>2, <1>6, <2>1
  <2>3. \A u \in DOMAIN Fds \ {t} : Fds'[u] = Fds[u]
    BY <1>3, <1>4, <1>6, <2>1, <2>2
  <2>4. Fds' = [u \in DOMAIN Fds \ {t} |-> Fds[u]]
    BY <2>1, <2>2, <2>3
  <2> QED BY <2>4, Zenon DEF O!Restrict
<1> HIDE DEF fds
<1>8. O!Tables(fds)
  BY <1>1, <1>5, <1>7, TablesMapped
<1>9. Contents' = Contents
  BY <1>1 DEF Contents
<1> QED BY <1>6, <1>8, <1>9, Zenon DEF O!EndTask, fds

\* fork shares the open files; spawn starts with the standard streams.
LEMMA NewTaskMapped ==
    ASSUME IInv, IInv', NEW t \in Task, NEW u \in Task, fork(t, u) \/ spawn(t, u)
    PROVE  O!NewTask(u) /\ u \notin DOMAIN Fds
<1>1. PICK new \in {table[t], fresh_table} :
        /\ task[t] = "live" /\ task[u] = "none" /\ task' = [task EXCEPT ![u] = "live"]
        /\ table' = [table EXCEPT ![u] = new] /\ objs' = objs /\ files' = files
  BY DEF fork, spawn
<1>2. table \in [Task -> Seq(Entry)] /\ task \in [Task -> {"none", "live", "zombie"}]
  BY DEF IInv
<1>3. table'[u] = new /\ \A v \in Task \ {u} : table'[v] = table[v]
  BY <1>1, <1>2
<1>4. /\ t \in DOMAIN Fds /\ u \notin DOMAIN Fds /\ DOMAIN Fds = {v \in Task : task[v] # "none"}
      /\ \A v \in DOMAIN Fds : Fds[v] = Descriptors(table[v])
      /\ DOMAIN OpenObjs = Referenced(table) /\ OpenObjs = [o \in Referenced(table) |-> objs[o]]
  BY <1>1, Mapped
<1> DEFINE g == Descriptors(new)
<1>5. g \in O!Range(Fds) \cup {NewFds}
  <2>1. CASE new = table[t]
    BY <1>4, <2>1, Zenon DEF O!Range
  <2>2. CASE new = fresh_table
    BY <2>2 DEF NewFds
  <2> QED BY <1>1, <2>1, <2>2
<1>6. Fds' = O!With(Fds, u, g)
  <2>1. /\ DOMAIN Fds' = {v \in Task : task'[v] # "none"}
        /\ \A v \in DOMAIN Fds' : Fds'[v] = Descriptors(table'[v])
        /\ Fds' = [v \in DOMAIN Fds' |-> Fds'[v]]
    BY MappedNext DEF FdsOf
  <2>2. DOMAIN Fds' = DOMAIN Fds \cup {u}
    BY <1>1, <1>2, <1>4, <2>1
  <2>3. \A v \in DOMAIN Fds' : Fds'[v] = IF v = u THEN g ELSE Fds[v]
    BY <1>3, <1>4, <2>1, <2>2
  <2> HIDE DEF g
  <2>4. Fds' = [v \in DOMAIN Fds \cup {u} |-> IF v = u THEN g ELSE Fds[v]]
    BY <2>1, <2>2, <2>3
  <2> QED BY <2>4, Zenon DEF O!With
<1>7. OpenObjs' = OpenObjs
  <2>1. \A o \in Object : o \in Referenced(table') <=> o \in Referenced(table)
    <3> TAKE o \in Object
    <3>1. o \in Referenced(table) => objs[o].file \in File
      BY DEF IInv
    <3>2. o \notin Referenced(table) => objs[o].file = None
      BY DEF IInv, Unused
    <3>3. o \in Referenced(table') => objs'[o].file \in File
      BY DEF IInv
    <3>4. o \notin Referenced(table') => objs'[o].file = None
      BY DEF IInv, Unused
    <3> QED BY <1>1, <3>1, <3>2, <3>3, <3>4, FileIOAssumption
  <2>2. Referenced(table') = Referenced(table)
    BY <2>1, InSomeTable, Zenon
  <2> QED BY <1>1, <1>4, <2>2, MappedNext, Zenon
<1>8. Contents' = Contents
  BY <1>1 DEF Contents
<1> HIDE DEF g
<1> QED BY <1>4, <1>5, <1>6, <1>7, <1>8, Zenon DEF O!NewTask

\* A zombie keeps its descriptors.
LEMMA ExitMapped ==
    ASSUME IInv, IInv', NEW t \in Task, exit(t)
    PROVE  O!NoEffect
<1>1. /\ task[t] = "live" /\ task' = [task EXCEPT ![t] = "zombie"]
      /\ table' = table /\ objs' = objs /\ files' = files
  BY DEF exit
<1>2. task \in [Task -> {"none", "live", "zombie"}]
  BY DEF IInv
<1>3. {u \in Task : task'[u] # "none"} = {u \in Task : task[u] # "none"}
  BY <1>1, <1>2
<1>4. Fds' = Fds
  BY <1>1, <1>3 DEF Fds
<1>5. Contents' = Contents /\ OpenObjs' = OpenObjs
  BY <1>1 DEF Contents, OpenObjs
<1> QED BY <1>4, <1>5, Zenon DEF O!NoEffect, O!vars

\* Where nothing changes.
LEMMA SameMapped == UNCHANGED vars => O!NoEffect
<1> SUFFICES ASSUME UNCHANGED vars PROVE O!NoEffect
  OBVIOUS
<1>1. task' = task /\ table' = table /\ objs' = objs /\ files' = files
  BY DEF vars
<1>2. Contents' = Contents /\ OpenObjs' = OpenObjs /\ Fds' = Fds
  BY <1>1 DEF Contents, OpenObjs, Fds
<1> QED BY <1>2, Zenon DEF O!NoEffect, O!vars

-----------------------------------------------------------------------------

\* A call that moves the offset of an open file.
LEMMA OffsetMapped ==
    ASSUME IInv, IInv', NEW o \in Referenced(table), NEW e,
           objs' = [objs EXCEPT ![o].offset = e], task' = task, table' = table
    PROVE  /\ Fds' = Fds /\ o \in DOMAIN OpenObjs /\ OpenObjs[o] = objs[o]
           /\ OpenObjs' = [OpenObjs EXCEPT ![o].offset = e]
           /\ e = objs[o].offset => OpenObjs' = OpenObjs
<1>1. Fds' = Fds
  BY DEF Fds
<1>2. /\ OpenObjs = [q \in Referenced(table) |-> objs[q]] /\ DOMAIN OpenObjs = Referenced(table)
      /\ OpenObjs' = [q \in Referenced(table) |-> objs'[q]]
  BY Mapped, MappedNext
<1>3. /\ objs \in [Object -> [file : File \cup {None}, offset : Nat]] /\ o \in Object
      /\ \A q \in Referenced(table) : q \in Object
  BY InSomeTable DEF IInv
<1>4. /\ objs'[o] = [objs[o] EXCEPT !.offset = e]
      /\ \A q \in Referenced(table) \ {o} : objs'[q] = objs[q]
  BY <1>3
<1>5. OpenObjs[o] = objs[o]
  BY <1>2
<1>6. OpenObjs' = [OpenObjs EXCEPT ![o].offset = e]
  BY <1>2, <1>4, <1>5
<1>7. ASSUME e = objs[o].offset PROVE OpenObjs' = OpenObjs
  <2>1. objs'[o] = objs[o]
    BY <1>3, <1>4, <1>7
  <2>2. \A q \in Referenced(table) : objs'[q] = objs[q]
    BY <1>4, <2>1
  <2> QED BY <1>2, <2>2
<1> QED BY <1>1, <1>2, <1>5, <1>6, <1>7

\* sys_read moves the offset over bytes that are there, or changes nothing.
LEMMA ReadMapped ==
    ASSUME IInv, IInv', NEW t \in Task, NEW k, NEW ptr \in Ptr, NEW len \in 0..MaxLen,
           sys_read(t, k, ptr, len)
    PROVE  O!NoEffect \/ O!Shutdown \/ \E o \in DOMAIN OpenObjs : O!Read(o)
<1> DEFINE o == table[t][k]
           slices == Slices[ptr][len]
<1>1. o \in Object => o \in Referenced(table)
  BY ReadCases, Zenon
<1>2. \/ Stops("read of other than one character") \/ UNCHANGED vars \/ Stops("read from stdout")
      \/ /\ o \in Object
         /\ objs' = [objs EXCEPT ![o].offset = OSInode_read(o, slices).offset]
         /\ UNCHANGED <<task, table, files, panic>>
  BY ReadCases, Zenon
<1>3. CASE Stops("read of other than one character") \/ Stops("read from stdout")
  BY <1>3, StopsMapped, Zenon
<1>4. CASE UNCHANGED vars
  BY <1>4, SameMapped
<1>5. CASE /\ o \in Object
           /\ objs' = [objs EXCEPT ![o].offset = OSInode_read(o, slices).offset]
           /\ UNCHANGED <<task, table, files, panic>>
  <2> DEFINE f == objs[o].file
             at == objs[o].offset
             size == files[f].size
             upto == ReadEnd(size, at, len)
             e == OSInode_read(o, slices).offset
             n == upto - at
  <2>1. /\ f \in File /\ at \in Nat /\ len \in Nat /\ files[f] \in GoodFile /\ size \in Nat
        /\ ReadResult(OSInode_read(o, slices), ptr, files[f], at, len)
    BY <1>1, <1>5, ReadStep, Zenon
  <2>2. e = IF at <= upto THEN upto ELSE at
    BY <2>1, Zenon DEF ReadResult
  <2> HIDE DEF e, slices
  <2>3. /\ Fds' = Fds /\ o \in DOMAIN OpenObjs /\ OpenObjs[o] = objs[o]
        /\ OpenObjs' = [OpenObjs EXCEPT ![o].offset = e]
        /\ e = at => OpenObjs' = OpenObjs
    <3>1. objs' = [objs EXCEPT ![o].offset = e] /\ task' = task /\ table' = table
      BY <1>5, Zenon DEF e
    <3> HIDE DEF o
    <3> QED BY <1>1, <1>5, <3>1, OffsetMapped, Zenon
  <2>4. Contents' = Contents
    BY <1>5 DEF Contents
  <2>5. Contents[f] = Flat(files[f]) /\ Len(Flat(files[f])) = size
    BY <2>1, FlatBytes, Zenon DEF Contents
  <2> HIDE DEF o, f, at, size
  <2>6. CASE upto <= at
    <3>1. e = at
      BY <2>1, <2>2, <2>6 DEF ReadEnd
    <3> QED BY <2>3, <2>4, <3>1 DEF O!NoEffect, O!vars
  <2>7. CASE at < upto
    <3>1. n \in Nat /\ 1 <= n /\ n <= len /\ at + n = upto /\ upto <= size /\ e = upto
      BY <2>1, <2>2, <2>7 DEF ReadEnd
    <3>2. n \in 1..MaxLen
      <4>1. MaxLen \in Nat
        BY FileIOAssumption
      <4> QED BY <3>1, <4>1
    <3> HIDE DEF n, upto
    <3>3. OpenObjs[o].offset = at /\ OpenObjs[o].file = f
      BY <2>3, Zenon DEF at, f
    <3>4. OpenObjs[o].offset + n <= Len(Contents[OpenObjs[o].file])
      BY <2>5, <3>1, <3>3
    <3>5. OpenObjs' = [OpenObjs EXCEPT ![o].offset = OpenObjs[o].offset + n]
      BY <2>3, <3>1, <3>3, Zenon
    <3>6. O!Read(o)
      BY <2>3, <2>4, <3>2, <3>4, <3>5, Zenon DEF O!Read
    <3> QED BY <2>3, <3>6
  <2>8. upto <= at \/ at < upto
    BY <2>1 DEF ReadEnd
  <2> QED BY <2>6, <2>7, <2>8
<1> QED BY <1>2, <1>3, <1>4, <1>5, Zenon

\* sys_write replaces the bytes at the offset and moves it past them; a write of
\* nothing changes nothing.
LEMMA WriteMapped ==
    ASSUME IInv, IInv', NEW t \in Task, NEW k, NEW ptr \in Ptr, NEW bs \in Payload,
           sys_write(t, k, ptr, bs)
    PROVE  O!NoEffect \/ \E o \in DOMAIN OpenObjs : \E n \in 1..MaxLen : O!Write(o, n)
<1> DEFINE o == table[t][k]
           f == objs[o].file
           at == objs[o].offset
           n == Len(bs)
           old == Flat(files[f])
           new == Contents'[f]
           st == OSInode_write(o, Slices[ptr][Len(bs)], bs)
<1>1. /\ o \in Object /\ o \in Referenced(table)
      /\ f \in File /\ at \in Nat /\ files[f] \in GoodFile
      /\ bs \in Seq(Byte) /\ Len(bs) \in 0..MaxLen
      /\ WriteResult(st, files[f], at, bs)
      /\ files' = [files EXCEPT ![f] = st.file] /\ objs' = [objs EXCEPT ![o].offset = st.offset]
      /\ UNCHANGED <<task, table, panic>>
  <2>1. WritesAs(o, ptr, bs)
    BY WriteCase, Zenon
  <2> QED BY <2>1, Zenon DEF WritesAs
<1>2. /\ st.offset = at + n /\ (bs = <<>> => st.file = files[f])
      /\ bs # <<>> => st.file = Written(files[f], at, bs)
  BY <1>1, Zenon DEF WriteResult
<1> HIDE DEF st
<1>3. /\ Fds' = Fds /\ o \in DOMAIN OpenObjs /\ OpenObjs[o] = objs[o]
      /\ OpenObjs' = [OpenObjs EXCEPT ![o].offset = st.offset]
      /\ st.offset = at => OpenObjs' = OpenObjs
  <2>1. o \in Referenced(table) /\ objs' = [objs EXCEPT ![o].offset = st.offset]
        /\ task' = task /\ table' = table
    BY <1>1, Zenon
  <2> HIDE DEF o
  <2> QED BY <2>1, OffsetMapped, Zenon
<1>4. /\ Contents'[f] = Flat(st.file) /\ \A g \in File \ {f} : Contents'[g] = Contents[g]
      /\ Contents[f] = old
  <2>1. files \in [File -> GoodFile]
    BY DEF IInv
  <2> HIDE DEF f
  <2>2. files'[f] = st.file /\ \A g \in File \ {f} : files'[g] = files[g]
    BY <1>1, <2>1
  <2> QED BY <1>1, <2>2, MappedNext DEF Contents
<1>5. old \in Seq(Byte \cup {Zero}) /\ Len(old) = files[f].size /\ Len(old) \in Nat
  <2>1. old \in Seq(Byte \cup {Zero}) /\ Len(old) = files[f].size
    BY <1>1, FlatBytes, Zenon
  <2> HIDE DEF old, new, n, at, f, o
  <2> QED BY <2>1
<1>6. CASE bs = <<>>
  <2>1. st.offset = at /\ st.file = files[f]
    <3>1. n = 0
      BY <1>6
    <3> HIDE DEF at, n
    <3> QED BY <1>1, <1>2, <1>6, <3>1
  <2>2. \A g \in File : Contents'[g] = Contents[g]
    BY <1>4, <2>1, Zenon
  <2>3. Contents' = Contents
    <3>1. Contents = [g \in File |-> Contents[g]] /\ Contents' = [g \in File |-> Contents'[g]]
      BY Zenon DEF Contents
    <3> QED BY <2>2, <3>1
  <2> QED BY <1>3, <2>1, <2>3 DEF O!NoEffect, O!vars
<1>7. CASE bs # <<>>
  <2> DEFINE size == Max({Len(old), at + n})
  <2>1. n \in 1..MaxLen
    BY <1>1, <1>7
  <2>2. new = [j \in 1..size |-> IF at < j /\ j <= at + n THEN bs[j - at]
                                 ELSE IF j <= Len(old) THEN old[j] ELSE Zero]
    <3>1. new = Flat(Written(files[f], at, bs))
      BY <1>2, <1>4, <1>7, Zenon
    <3>2. Flat(Written(files[f], at, bs)) =
            [j \in 1..Max({Len(Flat(files[f])), at + Len(bs)}) |->
               IF at < j /\ j <= at + Len(bs) THEN bs[j - at]
               ELSE IF j <= Len(Flat(files[f])) THEN Flat(files[f])[j] ELSE Zero]
      BY <1>1, FlatWritten, Zenon
    <3> QED BY <3>1, <3>2, Zenon
  <2>3. size \in Nat /\ size = IF at + n <= Len(old) THEN Len(old) ELSE at + n
    <3>0. at \in Nat /\ n \in Nat /\ Len(old) \in Nat
      <4>1. bs \in Seq(Byte) /\ at \in Nat
        BY <1>1, Zenon
      <4>2. n \in Nat
        BY <4>1
      <4> QED BY <1>5, <4>1, <4>2, Zenon
    <3> HIDE DEF at, old, n
    <3>1. Len(old) \in Int /\ at + n \in Int /\ at + n \in Nat
      BY <3>0
    <3>2. size = IF Len(old) <= at + n THEN at + n ELSE Len(old)
      BY <3>1, MinMaxTwo, Zenon
    <3> HIDE DEF size
    <3> QED BY <3>0, <3>1, <3>2
  <2> HIDE DEF size, old, new, at, n
  <2>4. Len(new) = size /\ \A j \in 1..size : new[j] = IF at < j /\ j <= at + n THEN bs[j - at]
                                 ELSE IF j <= Len(old) THEN old[j] ELSE Zero
    BY <2>2, <2>3
  <2>5. ASSUME NEW j \in 1..size
        PROVE  \/ j \in (at + 1)..(at + n) /\ new[j] \in Byte
               \/ j \notin (at + 1)..(at + n) /\ j <= Len(old) /\ new[j] = old[j]
               \/ j \notin (at + 1)..(at + n) /\ j > Len(old) /\ new[j] = Zero
    <3>1. j \in (at + 1)..(at + n) <=> at < j /\ j <= at + n
      BY <1>1, <2>1, <2>3
    <3>2. CASE at < j /\ j <= at + n
      <4>1. j - at \in 1..Len(bs)
        BY <1>1, <2>3, <3>2 DEF n
      <4>2. bs[j - at] \in Byte
        BY <1>1, <4>1
      <4>3. new[j] = bs[j - at]
        BY <2>4, <3>2, Zenon
      <4>4. new[j] \in Byte
        BY <4>2, <4>3, Zenon
      <4>5. j \in (at + 1)..(at + n)
        BY <3>1, <3>2, Zenon
      <4> QED BY <4>4, <4>5, Zenon
    <3>3. CASE ~(at < j /\ j <= at + n)
      <4>0. Len(old) \in Nat /\ size \in Nat
        BY <1>5, <2>3, Zenon
      <4>1. j \in Int /\ Len(old) \in Int
        BY <4>0
      <4>2. j <= Len(old) <=> ~(j > Len(old))
        BY <4>1
      <4>3. new[j] = IF j <= Len(old) THEN old[j] ELSE Zero
        BY <2>4, <3>3, Zenon
      <4> QED BY <3>1, <3>3, <4>2, <4>3, Zenon
    <3> QED BY <3>2, <3>3, Zenon
  <2>6. OpenObjs[o].offset = at /\ OpenObjs[o].file = f
    BY <1>3, Zenon DEF at, f
  <2>7. OpenObjs' = [OpenObjs EXCEPT ![o].offset = OpenObjs[o].offset + n]
    <3> HIDE DEF o
    <3> QED BY <1>2, <1>3, <2>6
  <2> HIDE DEF o, f
  <2>8. Contents'[f] = new /\ Contents[f] = old
    BY <1>4 DEF new
  <2>9. O!Write(o, n)
    BY <1>3, <1>4, <2>3, <2>4, <2>5, <2>6, <2>7, <2>8, Zenon DEF O!Write
  <2> QED BY <1>3, <2>1, <2>9
<1> QED BY <1>6, <1>7

\* The calls that stop the kernel or change nothing.
LEMMA OthersMapped ==
    ASSUME IInv, IInv', NEW t, NEW k, NEW ptr, NEW text,
           sys_write_text(t, k, ptr, text) \/ sys_fstat(t, k, ptr) \/ sys_get_time(t, ptr)
    PROVE  O!NoEffect \/ O!Shutdown
<1>1. \/ Stops("write to stdin") \/ Stops("from_utf8 of a cut character")
      \/ Stops("copy_from_slice of another length") \/ UNCHANGED vars
  BY OtherCalls, Zenon
<1> QED BY <1>1, StopsMapped, SameMapped, Zenon

\* Every step is a step of OpenFiles.
LEMMA NextMapped == IInv /\ IInv' /\ [Next]_vars => O!Next
<1> SUFFICES ASSUME IInv, IInv', [Next]_vars PROVE O!Next
  OBVIOUS
<1>1. CASE \E t \in Task, f \in File, clear \in BOOLEAN : sys_open(t, f, clear)
  <2>1. \E t \in DOMAIN Fds, f \in File : O!Open(t, f)
    BY <1>1, OpenMapped
  <2> QED BY <2>1, Zenon DEF O!Next
<1>2. CASE \E t \in Task, k \in 1..MaxFds, ptr \in Ptr, len \in 0..MaxLen : sys_read(t, k, ptr, len)
  <2>1. O!NoEffect \/ O!Shutdown \/ \E o \in DOMAIN OpenObjs : O!Read(o)
    BY <1>2, ReadMapped
  <2> QED BY <2>1, Zenon DEF O!Next
<1>3. CASE \E t \in Task, k \in 1..MaxFds, ptr \in Ptr, bs \in Payload : sys_write(t, k, ptr, bs)
  <2>1. O!NoEffect \/ \E o \in DOMAIN OpenObjs : \E n \in 1..MaxLen : O!Write(o, n)
    BY <1>3, WriteMapped
  <2> QED BY <2>1, Zenon DEF O!Next
<1>4. CASE \E t \in Task, k \in 1..MaxFds, ptr \in Ptr, text \in Text : sys_write_text(t, k, ptr, text)
  BY <1>4, OthersMapped DEF O!Next
<1>5. CASE \E t \in Task, k \in 1..MaxFds, ptr \in Ptr : sys_fstat(t, k, ptr)
  BY <1>5, OthersMapped DEF O!Next
<1>6. CASE \E t \in Task, ptr \in Ptr : sys_get_time(t, ptr)
  BY <1>6, OthersMapped DEF O!Next
<1>7. CASE \E t \in Task, k \in Closed : sys_close(t, k)
  <2>1. \E t \in DOMAIN Fds : O!Close(t)
    BY <1>7, CloseMapped
  <2> QED BY <2>1, Zenon DEF O!Next
<1>8. CASE \E t, u \in Task : fork(t, u) \/ spawn(t, u)
  <2>1. \E u \in Task \ DOMAIN Fds : O!NewTask(u)
    BY <1>8, NewTaskMapped
  <2> QED BY <2>1, Zenon DEF O!Next
<1>9. CASE \E t \in Task : exit(t)
  BY <1>9, ExitMapped DEF O!Next
<1>10. CASE \E t \in Task : reap(t)
  <2>1. \E t \in DOMAIN Fds : O!EndTask(t)
    BY <1>10, ReapMapped
  <2> QED BY <2>1, Zenon DEF O!Next
<1>11. CASE Halted \/ UNCHANGED vars
  BY <1>11, SameMapped DEF Halted, O!Next
<1>12. CASE \E t \in Task, why \in Unwrapped : refuse(t, why)
  <2>1. \E why : Stops(why)
    BY <1>12, Zenon DEF refuse
  <2>2. O!Shutdown
    BY <2>1, StopsMapped, Zenon
  <2> QED BY <2>2, Zenon DEF O!Next
<1> QED BY <1>1, <1>2, <1>3, <1>4, <1>5, <1>6, <1>7, <1>8, <1>9, <1>10, <1>11, <1>12, Zenon DEF Next

\* The file calls implement OpenFiles: read and write through the slices of buffers and
\* the blocks of files are reads and writes of sequences of bytes at shared offsets.
THEOREM Refinement == Spec => ActsAsOpenFiles
<1>1. Init => O!Init
  BY InitMapped
<1>2. IInv /\ IInv' /\ [Next]_vars => [O!Next]_O!vars
  BY NextMapped
<1> QED BY <1>1, <1>2, Invariance, PTL DEF Spec, ActsAsOpenFiles, O!Spec
=============================================================================
