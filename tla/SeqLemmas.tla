----------------------------- MODULE SeqLemmas -----------------------------
(***************************************************************************)
(* What the vector operations of the kernel (push, pop, remove, extend) do *)
(* to the elements of a vector and to the absence of duplicates.           *)
(***************************************************************************)
EXTENDS Integers, SequencesExt, SequenceTheorems, TLAPS

\* Vec::remove(i) closes the gap and keeps the order of the rest.
LEMMA RemoveAtFacts ==
    ASSUME NEW S, NEW s \in Seq(S), NEW i \in 1..Len(s)
    PROVE  /\ RemoveAt(s, i) \in Seq(S)
           /\ Len(RemoveAt(s, i)) = Len(s) - 1
           /\ \A j \in 1..(Len(s) - 1) :
                RemoveAt(s, i)[j] = IF j < i THEN s[j] ELSE s[j + 1]
<1> DEFINE a == SubSeq(s, 1, i - 1)
           b == SubSeq(s, i + 1, Len(s))
<1>1. /\ a \in Seq(S) /\ Len(a) = i - 1
      /\ \A j \in 1..(i - 1) : a[j] = s[j]
  BY SubSeqProperties
<1>2. /\ b \in Seq(S) /\ Len(b) = Len(s) - i
      /\ \A j \in 1..(Len(s) - i) : b[j] = s[i + j]
  BY SubSeqProperties
<1> HIDE DEF a, b
<1>3. /\ a \o b \in Seq(S) /\ Len(a \o b) = Len(a) + Len(b)
      /\ \A j \in 1..(Len(a) + Len(b)) :
            (a \o b)[j] = IF j <= Len(a) THEN a[j] ELSE b[j - Len(a)]
  BY <1>1, <1>2, ConcatProperties
<1>4. Len(a) + Len(b) = Len(s) - 1
  BY <1>1, <1>2
<1>5. ASSUME NEW j \in 1..(Len(s) - 1)
      PROVE  (a \o b)[j] = IF j < i THEN s[j] ELSE s[j + 1]
  <2>1. CASE j < i
    BY <2>1, <1>1, <1>3, <1>4
  <2>2. CASE ~(j < i)
    <3>1. j - Len(a) \in 1..(Len(s) - i) /\ ~(j <= Len(a)) /\ i + (j - Len(a)) = j + 1
      BY <2>2, <1>1
    <3> QED BY <2>2, <3>1, <1>2, <1>3, <1>4
  <2> QED BY <2>1, <2>2
<1> QED
  BY <1>3, <1>4, <1>5 DEF RemoveAt, a, b

\* Vec::pop splits a vector into its last element and the rest.
LEMMA FrontLastFacts ==
    ASSUME NEW S, NEW s \in Seq(S), s # <<>>
    PROVE  /\ Len(s) \in Nat \ {0}
           /\ Last(s) = s[Len(s)] /\ Last(s) \in S
           /\ Front(s) \in Seq(S) /\ Len(Front(s)) = Len(s) - 1
           /\ \A j \in 1..(Len(s) - 1) : Front(s)[j] = s[j]
<1>1. Len(s) \in Nat \ {0}
  BY EmptySeq
<1>2. /\ SubSeq(s, 1, Len(s) - 1) \in Seq(S)
      /\ Len(SubSeq(s, 1, Len(s) - 1)) = Len(s) - 1
      /\ \A j \in 1..(Len(s) - 1) : SubSeq(s, 1, Len(s) - 1)[j] = s[j]
  <2> DEFINE n == Len(s) - 1
  <2>1. n \in Int /\ \A j \in 1..n : s[j] \in S
    BY <1>1
  <2> HIDE DEF n
  <2>2. /\ SubSeq(s, 1, n) \in Seq(S)
        /\ Len(SubSeq(s, 1, n)) = IF 1 <= n THEN n - 1 + 1 ELSE 0
        /\ \A j \in 1..(n - 1 + 1) : SubSeq(s, 1, n)[j] = s[1 + j - 1]
    BY <2>1, SubSeqProperties
  <2>3. n \in Nat /\ n = Len(s) - 1 /\ n - 1 + 1 = n
    BY <1>1 DEF n
  <2>4. (IF 1 <= n THEN n - 1 + 1 ELSE 0) = n /\ \A j \in 1..n : 1 + j - 1 = j
    BY <2>3
  <2> QED BY <2>2, <2>3, <2>4
<1> QED
  BY <1>1, <1>2 DEF Last, Front

\* Membership in a vector is membership at an index.
LEMMA ToSetFacts ==
    ASSUME NEW S, NEW s \in Seq(S)
    PROVE  /\ DOMAIN s = 1..Len(s)
           /\ ToSet(s) \subseteq S
           /\ \A x : x \in ToSet(s) <=> \E j \in 1..Len(s) : s[j] = x
BY DEF ToSet

\* push adds one element, and no duplicate if the element is new.
LEMMA AppendSet ==
    ASSUME NEW S, NEW s \in Seq(S), NEW e \in S
    PROVE  /\ Append(s, e) \in Seq(S)
           /\ ToSet(Append(s, e)) = ToSet(s) \cup {e}
           /\ IsInjective(s) /\ e \notin ToSet(s) => IsInjective(Append(s, e))
<1>1. /\ Append(s, e) \in Seq(S) /\ Len(Append(s, e)) = Len(s) + 1
      /\ \A j \in 1..Len(s) : Append(s, e)[j] = s[j]
      /\ Append(s, e)[Len(s) + 1] = e
  BY AppendProperties
<1>2. \A j \in 1..(Len(s) + 1) : j \in 1..Len(s) \/ j = Len(s) + 1
  OBVIOUS
<1>3. DOMAIN s = 1..Len(s) /\ DOMAIN Append(s, e) = 1..(Len(s) + 1)
  BY <1>1
<1>4. ToSet(Append(s, e)) = ToSet(s) \cup {e}
  BY <1>1, <1>2, <1>3 DEF ToSet
<1>5. ASSUME IsInjective(s), e \notin ToSet(s) PROVE IsInjective(Append(s, e))
  BY <1>1, <1>2, <1>3, <1>5 DEF IsInjective, ToSet
<1> QED
  BY <1>1, <1>4, <1>5

\* Removing an entry of a vector without duplicates removes its element.
LEMMA RemoveAtSet ==
    ASSUME NEW S, NEW s \in Seq(S), NEW i \in 1..Len(s), IsInjective(s)
    PROVE  /\ RemoveAt(s, i) \in Seq(S)
           /\ ToSet(RemoveAt(s, i)) = ToSet(s) \ {s[i]}
           /\ IsInjective(RemoveAt(s, i))
<1> DEFINE r == RemoveAt(s, i)
           src(j) == IF j < i THEN j ELSE j + 1
<1>1. /\ r \in Seq(S) /\ Len(r) = Len(s) - 1
      /\ \A j \in 1..(Len(s) - 1) : r[j] = IF j < i THEN s[j] ELSE s[j + 1]
  BY RemoveAtFacts
<1> HIDE DEF r
<1>2. /\ DOMAIN s = 1..Len(s) /\ DOMAIN r = 1..(Len(s) - 1)
      /\ \A j \in 1..(Len(s) - 1) : r[j] = s[src(j)]
      /\ \A j \in 1..(Len(s) - 1) : src(j) \in 1..Len(s) /\ src(j) # i
  BY <1>1
<1>3. \A k \in 1..Len(s) : k # i => \E j \in 1..(Len(s) - 1) : src(j) = k
  <2> TAKE k \in 1..Len(s)
  <2> HAVE k # i
  <2>1. CASE k < i
    <3>1. k \in 1..(Len(s) - 1) /\ src(k) = k
      BY <2>1
    <3> QED BY <3>1
  <2>2. CASE k > i
    <3>1. k - 1 \in 1..(Len(s) - 1) /\ src(k - 1) = k
      BY <2>2
    <3> QED BY <3>1
  <2> QED BY <2>1, <2>2
<1>4. \A j, k \in 1..(Len(s) - 1) : src(j) = src(k) => j = k
  OBVIOUS
<1>5. \A j, k \in 1..Len(s) : s[j] = s[k] => j = k
  BY <1>2 DEF IsInjective
<1> HIDE DEF src
<1>6. IsInjective(r)
  BY <1>2, <1>4, <1>5 DEF IsInjective
<1>7. ToSet(r) = ToSet(s) \ {s[i]}
  <2>1. \A x \in ToSet(r) : x \in ToSet(s) /\ x # s[i]
    BY <1>2, <1>5 DEF ToSet
  <2>2. ASSUME NEW x \in ToSet(s), x # s[i] PROVE x \in ToSet(r)
    <3>1. PICK k \in 1..Len(s) : s[k] = x /\ k # i
      BY <1>2, <2>2 DEF ToSet
    <3>2. PICK j \in 1..(Len(s) - 1) : src(j) = k
      BY <1>3, <3>1
    <3>3. r[j] = x /\ j \in DOMAIN r
      BY <1>2, <3>1, <3>2
    <3> QED BY <3>3 DEF ToSet
  <2> QED BY <2>1, <2>2
<1> QED
  BY <1>1, <1>6, <1>7 DEF r

\* Popping a vector without duplicates removes its last element.
LEMMA FrontSet ==
    ASSUME NEW S, NEW s \in Seq(S), s # <<>>, IsInjective(s)
    PROVE  /\ Front(s) \in Seq(S)
           /\ Last(s) \in ToSet(s)
           /\ ToSet(Front(s)) = ToSet(s) \ {Last(s)}
           /\ IsInjective(Front(s))
<1>1. /\ Len(s) \in Nat \ {0}
      /\ Last(s) = s[Len(s)]
      /\ Front(s) \in Seq(S) /\ Len(Front(s)) = Len(s) - 1
      /\ \A j \in 1..(Len(s) - 1) : Front(s)[j] = s[j]
  BY FrontLastFacts
<1>2. DOMAIN s = 1..Len(s) /\ DOMAIN Front(s) = 1..(Len(s) - 1)
  BY <1>1
<1>3. \A j, k \in 1..Len(s) : s[j] = s[k] => j = k
  BY <1>2 DEF IsInjective
<1>4. \A j \in 1..Len(s) : j \in 1..(Len(s) - 1) \/ j = Len(s)
  BY <1>1
<1>5. \A j \in 1..(Len(s) - 1) : j \in 1..Len(s) /\ j # Len(s)
  BY <1>1
<1>6. Last(s) \in ToSet(s)
  BY <1>1, <1>2 DEF ToSet
<1>7. ToSet(Front(s)) = ToSet(s) \ {Last(s)}
  <2>1. \A x \in ToSet(Front(s)) : x \in ToSet(s) /\ x # Last(s)
    BY <1>1, <1>2, <1>3, <1>5 DEF ToSet
  <2>2. \A x \in ToSet(s) \ {Last(s)} : x \in ToSet(Front(s))
    BY <1>1, <1>2, <1>4 DEF ToSet
  <2> QED BY <2>1, <2>2
<1>8. IsInjective(Front(s))
  BY <1>1, <1>2, <1>3, <1>5 DEF IsInjective
<1> QED
  BY <1>1, <1>6, <1>7, <1>8

\* Extending a vector joins the elements, without duplicates if both are.
LEMMA ConcatSet ==
    ASSUME NEW S, NEW s \in Seq(S), NEW t \in Seq(S)
    PROVE  /\ s \o t \in Seq(S)
           /\ ToSet(s \o t) = ToSet(s) \cup ToSet(t)
           /\ IsInjective(s) /\ IsInjective(t) /\ ToSet(s) \cap ToSet(t) = {}
                => IsInjective(s \o t)
<1> DEFINE r == s \o t
<1>1. /\ r \in Seq(S) /\ Len(r) = Len(s) + Len(t)
      /\ \A j \in 1..(Len(s) + Len(t)) :
            r[j] = IF j <= Len(s) THEN s[j] ELSE t[j - Len(s)]
  BY ConcatProperties
<1> HIDE DEF r
<1>2. /\ DOMAIN s = 1..Len(s) /\ DOMAIN t = 1..Len(t)
      /\ DOMAIN r = 1..(Len(s) + Len(t))
  BY <1>1
<1> DEFINE m == Len(s)
           n == Len(t)
<1>a. m \in Nat /\ n \in Nat
  OBVIOUS
<1> HIDE DEF m, n
<1>b. \A j \in 1..m : j \in DOMAIN r /\ r[j] = s[j]
  BY <1>1, <1>2, <1>a DEF m, n
<1>c. \A j \in 1..n : j + m \in DOMAIN r /\ r[j + m] = t[j]
  <2> TAKE j \in 1..n
  <2>1. j + m \in 1..(m + n) /\ ~(j + m <= m) /\ (j + m) - m = j
    BY <1>a
  <2> QED BY <2>1, <1>1, <1>2 DEF m, n
<1>d. \A j \in DOMAIN r :
            \/ j \in 1..m /\ r[j] = s[j]
            \/ j - m \in 1..n /\ r[j] = t[j - m]
  <2> TAKE j \in DOMAIN r
  <2>1. j \in 1..(m + n)
    BY <1>2 DEF m, n
  <2>2. (j <= m) \/ (~(j <= m) /\ j - m \in 1..n)
    BY <2>1, <1>a
  <2> QED BY <2>1, <2>2, <1>1, <1>a DEF m, n
<1>3. /\ \A j \in 1..Len(s) : j \in DOMAIN r /\ r[j] = s[j]
      /\ \A j \in 1..Len(t) : j + Len(s) \in DOMAIN r /\ r[j + Len(s)] = t[j]
      /\ \A j \in DOMAIN r :
            \/ j \in 1..Len(s) /\ r[j] = s[j]
            \/ j - Len(s) \in 1..Len(t) /\ r[j] = t[j - Len(s)]
  BY <1>b, <1>c, <1>d DEF m, n
<1>4. ToSet(r) = ToSet(s) \cup ToSet(t)
  <2>1. \A x \in ToSet(r) : x \in ToSet(s) \cup ToSet(t)
    BY <1>2, <1>3 DEF ToSet
  <2>2. \A x \in ToSet(s) : x \in ToSet(r)
    BY <1>2, <1>3 DEF ToSet
  <2>3. \A x \in ToSet(t) : x \in ToSet(r)
    BY <1>2, <1>3 DEF ToSet
  <2> QED BY <2>1, <2>2, <2>3
<1>5. ASSUME IsInjective(s), IsInjective(t), ToSet(s) \cap ToSet(t) = {}
      PROVE  IsInjective(r)
  <2> SUFFICES ASSUME NEW j \in DOMAIN r, NEW k \in DOMAIN r, r[j] = r[k]
               PROVE  j = k
    BY DEF IsInjective
  <2>0. j \in Int /\ k \in Int /\ Len(s) \in Nat
    BY <1>2
  <2>1. CASE j \in 1..Len(s) /\ r[j] = s[j] /\ k \in 1..Len(s) /\ r[k] = s[k]
    BY <2>1, <1>2, <1>5 DEF IsInjective
  <2>2. CASE /\ j - Len(s) \in 1..Len(t) /\ r[j] = t[j - Len(s)]
             /\ k - Len(s) \in 1..Len(t) /\ r[k] = t[k - Len(s)]
    <3>1. j - Len(s) = k - Len(s)
      BY <2>2, <1>2, <1>5 DEF IsInjective
    <3> QED BY <3>1, <2>0
  <2>3. CASE \/ /\ j \in 1..Len(s) /\ r[j] = s[j]
                /\ k - Len(s) \in 1..Len(t) /\ r[k] = t[k - Len(s)]
             \/ /\ k \in 1..Len(s) /\ r[k] = s[k]
                /\ j - Len(s) \in 1..Len(t) /\ r[j] = t[j - Len(s)]
    BY <2>3, <1>2, <1>5 DEF ToSet
  <2> QED BY <2>1, <2>2, <2>3, <1>3
<1> QED
  BY <1>1, <1>4, <1>5 DEF r
============================================================================
