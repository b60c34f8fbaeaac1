----------------------- MODULE ProviderHistoryProofs ------------------------
(***************************************************************************)
(* Proofs about the canonical history of a session, its compactions and the*)
(* derived view, for any number of turns and of compaction runners: first  *)
(* what holds however turns overlap, then what turns that follow one       *)
(* another keep.                                                           *)
(***************************************************************************)
EXTENDS ProviderHistory, FiniteSetTheorems, WellFoundedInduction, TLAPS

-----------------------------------------------------------------------------
\* Sequences

LEMMA Least ==
    ASSUME NEW S \in SUBSET Nat, S # {}
    PROVE  \E x \in S : \A y \in S : x <= y
<1>1. PICK x \in S : \A y \in S : ~(<<y, x>> \in OpToRel(<, Nat))
  BY WFMin, NatLessThanWellFounded
<1>2. \A y \in S : ~(y < x)
  BY <1>1 DEF OpToRel
<1>3. \A y \in S : x <= y
  BY <1>2
<1> QED BY <1>3

LEMMA CountTo == \A n \in Nat : IsFiniteSet(1..n) /\ Cardinality(1..n) = n
<1> SUFFICES ASSUME NEW n \in Nat PROVE IsFiniteSet(1..n) /\ Cardinality(1..n) = n
  OBVIOUS
<1>1. 1 \in Int /\ n \in Int
  OBVIOUS
<1>2. IsFiniteSet(1..n) /\ Cardinality(1..n) = IF 1 > n THEN 0 ELSE n - 1 + 1
  BY <1>1, FS_Interval
<1> QED BY <1>2

\* One sequence begins another, element by element.
LEMMA PrefixIff ==
    ASSUME NEW M, NEW s \in Seq(M), NEW t \in Seq(M)
    PROVE  IsPrefix(s, t) <=> Len(s) <= Len(t) /\ \A i \in 1..Len(s) : s[i] = t[i]
BY DEF IsPrefix

LEMMA PrefixTrans ==
    ASSUME NEW M, NEW s \in Seq(M), NEW t \in Seq(M), NEW u \in Seq(M),
           IsPrefix(s, t), IsPrefix(t, u)
    PROVE  IsPrefix(s, u)
BY PrefixIff

LEMMA FrontType ==
    ASSUME NEW M, NEW s \in Seq(M)
    PROVE  /\ Front(s) \in Seq(M)
           /\ Len(Front(s)) = IF s = <<>> THEN 0 ELSE Len(s) - 1
           /\ \A i \in 1..Len(Front(s)) : Front(s)[i] = s[i]
           /\ IsPrefix(Front(s), s)
<1>1. CASE s = <<>>
  BY <1>1 DEF Front, IsPrefix
<1>2. CASE s # <<>>
  <2>1. Len(s) \in Nat /\ Len(s) # 0
    BY <1>2
  <2> DEFINE n == Len(s) - 1
  <2>2. n \in Nat /\ n <= Len(s) /\ Front(s) = SubSeq(s, 1, n)
    BY <2>1 DEF Front
  <2> HIDE DEF n
  <2>3. /\ SubSeq(s, 1, n) \in Seq(M) /\ Len(SubSeq(s, 1, n)) = n
        /\ \A i \in 1..n : SubSeq(s, 1, n)[i] = s[i]
    BY <2>1, <2>2
  <2>4. IsPrefix(Front(s), s)
    BY <2>1, <2>2, <2>3, PrefixIff
  <2> QED BY <1>2, <2>2, <2>3, <2>4 DEF n
<1> QED BY <1>1, <1>2

LEMMA ToSetIs ==
    ASSUME NEW M, NEW s \in Seq(M)
    PROVE  ToSet(s) = {s[i] : i \in 1..Len(s)} /\ ToSet(s) \subseteq M
BY DEF ToSet

\* Sequences of which each begins the next.
Chain(M, n, b) ==
    b \in [1..n -> Seq(M)] /\ \A i \in 1..(n - 1) : IsPrefix(b[i], b[i + 1])

Slice(s, t) == SubSeq(t, Len(s) + 1, Len(t))

\* What the longer of two sequences has beyond the length of the shorter.
LEMMA SliceIs ==
    ASSUME NEW M, NEW s \in Seq(M), NEW t \in Seq(M), Len(s) <= Len(t)
    PROVE  /\ Slice(s, t) \in Seq(M)
           /\ ToSet(Slice(s, t)) = {t[p] : p \in (Len(s) + 1)..Len(t)}
<1> DEFINE k == Len(s)
           n == Len(t)
           u == SubSeq(t, k + 1, n)
<1>1. k \in Nat /\ n \in Nat /\ k <= n
  OBVIOUS
<1> HIDE DEF k
<1>2. u \in Seq(M) /\ Len(u) = n - k /\ \A p \in 1..(n - k) : u[p] = t[k + p]
  BY <1>1
<1> HIDE DEF u
<1>3. ToSet(u) = {u[p] : p \in 1..Len(u)}
  BY <1>2, ToSetIs
<1>4. ToSet(u) = {t[k + p] : p \in 1..(n - k)}
  BY <1>2, <1>3
<1>5. \A p \in 1..(n - k) : k + p \in (k + 1)..n
  BY <1>1
<1>6. \A q \in (k + 1)..n : q - k \in 1..(n - k) /\ k + (q - k) = q
  BY <1>1
<1>7. ToSet(u) = {t[p] : p \in (k + 1)..n}
  BY <1>4, <1>5, <1>6
<1> QED BY <1>2, <1>7 DEF Slice, k, u

LEMMA ChainPrefix ==
    ASSUME NEW M, NEW n \in Nat, NEW b, Chain(M, n, b),
           NEW i \in 1..n, NEW j \in 1..n, i <= j
    PROVE  IsPrefix(b[i], b[j])
<1> DEFINE Bad == {k \in 0..(n - i) : ~IsPrefix(b[i], b[i + k])}
<1>1. SUFFICES Bad = {}
  <2>1. j - i \in 0..(n - i) /\ i + (j - i) = j
    OBVIOUS
  <2> QED BY <1>1, <2>1
<1>2. SUFFICES ASSUME Bad # {} PROVE FALSE
  OBVIOUS
<1>3. Bad \in SUBSET Nat
  OBVIOUS
<1>4. PICK k \in Bad : \A l \in Bad : k <= l
  BY <1>2, <1>3, Least
<1>5. k # 0
  <2>1. b[i] \in Seq(M)
    BY DEF Chain
  <2>2. IsPrefix(b[i], b[i])
    BY <2>1, PrefixIff
  <2> QED BY <2>2
<1>6. IsPrefix(b[i], b[i + (k - 1)])
  <2>1. k - 1 \in 0..(n - i) /\ k - 1 \notin Bad
    BY <1>4, <1>5
  <2> QED BY <2>1
<1>7. IsPrefix(b[i + (k - 1)], b[i + k]) /\ b[i] \in Seq(M)
      /\ b[i + (k - 1)] \in Seq(M) /\ b[i + k] \in Seq(M)
  <2>1. i + (k - 1) \in 1..(n - 1) /\ (i + (k - 1)) + 1 = i + k /\ i + k \in 1..n
    BY <1>5
  <2> QED BY <2>1 DEF Chain
<1>8. IsPrefix(b[i], b[i + k])
  BY <1>6, <1>7, PrefixTrans
<1> QED BY <1>8

\* The last one is made of the first and of what each adds to the one before.
LEMMA ChainCover ==
    ASSUME NEW M, NEW n \in Nat, NEW b, Chain(M, n, b), NEW m \in 1..n
    PROVE  \A x : x \in ToSet(b[m]) <=>
               \/ x \in ToSet(b[1])
               \/ \E i \in 1..(m - 1) : x \in ToSet(Slice(b[i], b[i + 1]))
<1>1. \A i \in 1..n : b[i] \in Seq(M) /\ Len(b[i]) \in Nat
  BY DEF Chain
<1>2. ASSUME NEW i \in 1..m PROVE ToSet(b[i]) \subseteq ToSet(b[m])
  <2>1. IsPrefix(b[i], b[m])
    BY ChainPrefix
  <2>2. Len(b[i]) <= Len(b[m]) /\ \A p \in 1..Len(b[i]) : b[i][p] = b[m][p]
    BY <1>1, <2>1, PrefixIff
  <2>3. i \in 1..n /\ b[i] \in Seq(M) /\ b[m] \in Seq(M) /\ Len(b[i]) \in Nat /\ Len(b[m]) \in Nat
    BY <1>1
  <2>4. ToSet(b[i]) = {b[i][p] : p \in 1..Len(b[i])} /\ ToSet(b[m]) = {b[m][p] : p \in 1..Len(b[m])}
    BY <2>3, ToSetIs
  <2> QED BY <2>2, <2>3, <2>4
<1>3. ASSUME NEW i \in 1..(m - 1)
      PROVE  /\ Slice(b[i], b[i + 1]) \in Seq(M)
             /\ Len(b[i]) <= Len(b[i + 1])
             /\ ToSet(Slice(b[i], b[i + 1])) = {b[i + 1][p] : p \in (Len(b[i]) + 1)..Len(b[i + 1])}
  <2>1. i \in 1..n /\ i + 1 \in 1..n /\ i \in 1..(n - 1)
    OBVIOUS
  <2>2. Len(b[i]) <= Len(b[i + 1])
    BY <1>1, <2>1, PrefixIff DEF Chain
  <2>3. b[i] \in Seq(M) /\ b[i + 1] \in Seq(M)
    BY <1>1, <2>1
  <2> DEFINE a == b[i]
             c == b[i + 1]
  <2>4. a \in Seq(M) /\ c \in Seq(M) /\ Len(a) <= Len(c)
    BY <2>2, <2>3
  <2> HIDE DEF a, c
  <2>5. Slice(a, c) \in Seq(M) /\ ToSet(Slice(a, c)) = {c[p] : p \in (Len(a) + 1)..Len(c)}
    BY <2>4, SliceIs
  <2> QED BY <2>2, <2>5 DEF a, c
<1>4. ASSUME NEW i \in 1..(m - 1) PROVE ToSet(Slice(b[i], b[i + 1])) \subseteq ToSet(b[m])
  <2>1. i + 1 \in 1..m /\ i + 1 \in 1..n /\ i \in 1..n
    OBVIOUS
  <2>2. ToSet(Slice(b[i], b[i + 1])) \subseteq ToSet(b[i + 1])
    <3>1. (Len(b[i]) + 1)..Len(b[i + 1]) \subseteq 1..Len(b[i + 1])
      BY <1>1, <2>1
    <3>2. ToSet(b[i + 1]) = {b[i + 1][p] : p \in 1..Len(b[i + 1])}
      BY <1>1, <2>1, ToSetIs
    <3>3. ToSet(Slice(b[i], b[i + 1])) = {b[i + 1][p] : p \in (Len(b[i]) + 1)..Len(b[i + 1])}
      BY <1>3
    <3> QED BY <3>1, <3>2, <3>3
  <2> QED BY <1>2, <2>1, <2>2
<1>5. ASSUME NEW x \in ToSet(b[m]), x \notin ToSet(b[1])
      PROVE  \E i \in 1..(m - 1) : x \in ToSet(Slice(b[i], b[i + 1]))
  <2> DEFINE Has == {i \in 1..m : x \in ToSet(b[i])}
  <2>1. PICK i \in Has : \A j \in Has : i <= j
    <3>1. Has \in SUBSET Nat /\ m \in Has
      BY <1>5
    <3> QED BY <3>1, Least
  <2>2. i # 1 /\ i - 1 \in 1..(m - 1) /\ (i - 1) + 1 = i /\ i - 1 \notin Has
    BY <1>5, <2>1
  <2>3. x \notin ToSet(b[i - 1])
    BY <2>2
  <2>4. PICK p \in 1..Len(b[i]) : x = b[i][p]
    BY <1>1, <2>1, ToSetIs
  <2>5. p > Len(b[i - 1])
    <3>1. IsPrefix(b[i - 1], b[i])
      BY <2>2 DEF Chain
    <3>2. \A q \in 1..Len(b[i - 1]) : b[i - 1][q] = b[i][q]
      BY <1>1, <2>2, <3>1, PrefixIff
    <3>3. ToSet(b[i - 1]) = {b[i - 1][q] : q \in 1..Len(b[i - 1])}
      <4>1. i - 1 \in 1..n
        BY <2>2
      <4>2. b[i - 1] \in Seq(M)
        BY <1>1, <4>1
      <4> QED BY <4>2, ToSetIs
    <3>4. Len(b[i]) \in Nat /\ Len(b[i - 1]) \in Nat /\ p \in Nat /\ p >= 1
      BY <1>1, <2>2, <2>4
    <3> QED BY <2>3, <2>4, <3>2, <3>3, <3>4
  <2>6. x \in ToSet(Slice(b[i - 1], b[(i - 1) + 1]))
    <3>1. ToSet(Slice(b[i - 1], b[(i - 1) + 1])) = {b[i][q] : q \in (Len(b[i - 1]) + 1)..Len(b[i])}
      BY <1>3, <2>2
    <3>2. Len(b[i]) \in Nat /\ Len(b[i - 1]) \in Nat
      BY <1>1, <2>2
    <3>3. p \in (Len(b[i - 1]) + 1)..Len(b[i])
      BY <2>4, <2>5, <3>2
    <3> QED BY <2>4, <3>1, <3>3
  <2> QED BY <2>2, <2>6
<1>6. 1 \in 1..m
  OBVIOUS
<1> QED BY <1>2, <1>4, <1>5, <1>6

\* Without repetition, what is added later is not in what was there before.
NoTwice(s) == \A i, j \in 1..Len(s) : s[i] = s[j] => i = j

LEMMA ChainApart ==
    ASSUME NEW M, NEW n \in Nat, NEW b, Chain(M, n, b), NoTwice(b[n]),
           NEW j \in 1..(n - 1), NEW k \in 1..j
    PROVE  ToSet(Slice(b[j], b[j + 1])) \cap ToSet(b[k]) = {}
<1>1. \A i \in 1..n : b[i] \in Seq(M) /\ Len(b[i]) \in Nat
  BY DEF Chain
<1>2. j \in 1..n /\ j + 1 \in 1..n /\ k \in 1..n /\ n \in 1..n /\ k <= j /\ j <= j + 1 /\ j + 1 <= n
  OBVIOUS
<1>3. IsPrefix(b[k], b[j]) /\ IsPrefix(b[j], b[j + 1]) /\ IsPrefix(b[j + 1], b[n])
      /\ IsPrefix(b[k], b[n])
  <2>1. \A p, q \in 1..n : p <= q => IsPrefix(b[p], b[q])
    BY ChainPrefix
  <2> QED BY <1>2, <2>1
<1>4. /\ Len(b[k]) <= Len(b[j]) /\ Len(b[j]) <= Len(b[j + 1]) /\ Len(b[j + 1]) <= Len(b[n])
      /\ \A p \in 1..Len(b[j + 1]) : b[j + 1][p] = b[n][p]
      /\ \A p \in 1..Len(b[k]) : b[k][p] = b[n][p]
  <2>1. ASSUME NEW p \in 1..n, NEW q \in 1..n, IsPrefix(b[p], b[q])
        PROVE  Len(b[p]) <= Len(b[q]) /\ \A x \in 1..Len(b[p]) : b[p][x] = b[q][x]
    <3>1. b[p] \in Seq(M) /\ b[q] \in Seq(M)
      BY <1>1
    <3> QED BY <2>1, <3>1, PrefixIff
  <2>2. Len(b[k]) <= Len(b[j])
    BY <1>2, <1>3, <2>1
  <2>3. Len(b[j]) <= Len(b[j + 1])
    BY <1>2, <1>3, <2>1
  <2>4. Len(b[j + 1]) <= Len(b[n]) /\ \A p \in 1..Len(b[j + 1]) : b[j + 1][p] = b[n][p]
    BY <1>2, <1>3, <2>1
  <2>5. \A p \in 1..Len(b[k]) : b[k][p] = b[n][p]
    BY <1>2, <1>3, <2>1
  <2> QED BY <2>2, <2>3, <2>4, <2>5
<1>5. /\ ToSet(Slice(b[j], b[j + 1])) = {b[j + 1][p] : p \in (Len(b[j]) + 1)..Len(b[j + 1])}
      /\ ToSet(b[k]) = {b[k][p] : p \in 1..Len(b[k])}
  <2>1. b[j] \in Seq(M) /\ b[j + 1] \in Seq(M) /\ b[k] \in Seq(M)
        /\ Len(b[j]) <= Len(b[j + 1])
    BY <1>1, <1>2, <1>4
  <2> DEFINE s == b[j]
             u == b[j + 1]
             r == b[k]
  <2>2. s \in Seq(M) /\ u \in Seq(M) /\ r \in Seq(M) /\ Len(s) <= Len(u)
    BY <2>1
  <2> HIDE DEF s, u, r
  <2>3. ToSet(r) = {r[p] : p \in 1..Len(r)}
    BY <2>2, ToSetIs
  <2>4. ToSet(Slice(s, u)) = {u[p] : p \in (Len(s) + 1)..Len(u)}
    BY <2>2, SliceIs
  <2> QED BY <2>3, <2>4 DEF s, u, r
<1>6. ASSUME NEW p \in (Len(b[j]) + 1)..Len(b[j + 1]), NEW q \in 1..Len(b[k])
      PROVE  b[j + 1][p] # b[k][q]
  <2>1. /\ Len(b[k]) \in Nat /\ Len(b[j]) \in Nat /\ Len(b[j + 1]) \in Nat /\ Len(b[n]) \in Nat
        /\ Len(b[k]) <= Len(b[j]) /\ Len(b[j]) <= Len(b[j + 1]) /\ Len(b[j + 1]) <= Len(b[n])
    BY <1>1, <1>2, <1>4
  <2>2. p \in 1..Len(b[j + 1]) /\ p \in 1..Len(b[n]) /\ q \in 1..Len(b[n]) /\ p # q
    <3> DEFINE lk == Len(b[k])
               lj == Len(b[j])
               lm == Len(b[j + 1])
               ln == Len(b[n])
    <3>1. /\ lk \in Nat /\ lj \in Nat /\ lm \in Nat /\ ln \in Nat
          /\ lk <= lj /\ lj <= lm /\ lm <= ln /\ p \in (lj + 1)..lm /\ q \in 1..lk
      BY <2>1
    <3> HIDE DEF lk, lj, lm, ln
    <3>2. p \in 1..lm /\ p \in 1..ln /\ q \in 1..ln /\ p # q
      BY <3>1
    <3> QED BY <3>2 DEF lk, lj, lm, ln
  <2>3. b[n][p] # b[n][q]
    BY <2>2 DEF NoTwice
  <2>4. b[j + 1][p] = b[n][p] /\ b[k][q] = b[n][q]
    BY <1>4, <2>2
  <2> QED BY <2>3, <2>4
<1> QED BY <1>5, <1>6

LEMMA ToSetJoin ==
    ASSUME NEW M, NEW s \in Seq(M), NEW t \in Seq(M)
    PROVE  s \o t \in Seq(M) /\ ToSet(s \o t) = ToSet(s) \cup ToSet(t)
<1> DEFINE u == s \o t
<1>1. /\ u \in Seq(M) /\ Len(u) = Len(s) + Len(t) /\ Len(s) \in Nat /\ Len(t) \in Nat
      /\ \A i \in 1..Len(s) : u[i] = s[i]
      /\ \A i \in 1..Len(t) : u[Len(s) + i] = t[i]
  OBVIOUS
<1> HIDE DEF u
<1>2. /\ ToSet(u) = {u[i] : i \in 1..Len(u)} /\ ToSet(s) = {s[i] : i \in 1..Len(s)}
      /\ ToSet(t) = {t[i] : i \in 1..Len(t)}
  BY <1>1, ToSetIs
<1>3. \A i \in 1..Len(u) : i \in 1..Len(s) \/ (i - Len(s) \in 1..Len(t) /\ Len(s) + (i - Len(s)) = i)
  BY <1>1
<1>4. \A i \in 1..Len(s) : i \in 1..Len(u)
  BY <1>1
<1>5. \A i \in 1..Len(t) : Len(s) + i \in 1..Len(u)
  BY <1>1
<1>6. \A x : x \in ToSet(u) => x \in ToSet(s) \cup ToSet(t)
  <2> SUFFICES ASSUME NEW i \in 1..Len(u) PROVE u[i] \in ToSet(s) \cup ToSet(t)
    BY <1>2
  <2>1. CASE i \in 1..Len(s)
    BY <1>1, <1>2, <2>1
  <2>2. CASE i - Len(s) \in 1..Len(t) /\ Len(s) + (i - Len(s)) = i
    <3>1. u[i] = t[i - Len(s)]
      BY <1>1, <2>2
    <3> QED BY <1>2, <2>2, <3>1
  <2> QED BY <1>3, <2>1, <2>2
<1>7. ToSet(s) \cup ToSet(t) \subseteq ToSet(u)
  BY <1>1, <1>2, <1>4, <1>5
<1> QED BY <1>1, <1>6, <1>7 DEF u

\* The elements of a flattened sequence are those of its parts.
LEMMA Flattened ==
    ASSUME NEW M, NEW s \in Seq(Seq(M))
    PROVE  /\ FlattenSeq(s) \in Seq(M)
           /\ \A x : x \in ToSet(FlattenSeq(s)) <=> \E i \in 1..Len(s) : x \in ToSet(s[i])
<1> DEFINE n == Len(s)
           Flat(f, m) == f = [i \in 1..m |-> IF i = 1 THEN s[i] ELSE f[i - 1] \o s[i]]
           Bad == {m \in 0..n : ~\E f : Flat(f, m)}
<1>1. n \in Nat /\ \A i \in 1..n : s[i] \in Seq(M)
  OBVIOUS
<1> HIDE DEF n, Flat
<1>2. \E f : Flat(f, n)
  <2>1. SUFFICES ASSUME Bad # {} PROVE FALSE
    <3>1. n \in 0..n
      BY <1>1
    <3> QED BY <3>1
  <2>2. Bad \in SUBSET Nat
    BY <1>1
  <2>3. PICK m \in Bad : \A k \in Bad : m <= k
    BY <2>1, <2>2, Least
  <2>4. m # 0
    <3>1. Flat([i \in 1..0 |-> 0], 0)
      BY DEF Flat
    <3> QED BY <3>1
  <2>5. m - 1 \in 0..n /\ m - 1 \notin Bad
    BY <1>1, <2>3, <2>4
  <2>6. PICK f : Flat(f, m - 1)
    BY <2>5
  <2> DEFINE h == [i \in 1..m |-> IF i = 1 THEN s[i]
                       ELSE IF i = m THEN f[m - 1] \o s[m] ELSE f[i]]
  <2>7. Flat(h, m)
    <3>1. m \in Nat /\ m # 0
      BY <2>3, <2>4
    <3>2. \A i \in 1..m : h[i] = IF i = 1 THEN s[i] ELSE h[i - 1] \o s[i]
      <4> SUFFICES ASSUME NEW i \in 1..m, i # 1 PROVE h[i] = h[i - 1] \o s[i]
        OBVIOUS
      <4>1. i - 1 \in 1..(m - 1) /\ i - 1 \in 1..m /\ i - 1 # m
        BY <3>1
      <4>2. f[i - 1] = IF i - 1 = 1 THEN s[i - 1] ELSE f[(i - 1) - 1] \o s[i - 1]
        BY <2>6, <4>1 DEF Flat
      <4>3. h[i - 1] = f[i - 1]
        BY <4>1, <4>2
      <4>4. CASE i = m
        BY <4>3, <4>4
      <4>5. CASE i # m
        <5>1. i \in 1..(m - 1)
          BY <3>1, <4>5
        <5>2. f[i] = f[i - 1] \o s[i]
          BY <2>6, <5>1 DEF Flat
        <5> QED BY <4>3, <4>5, <5>2
      <4> QED BY <4>4, <4>5
    <3>3. h = [i \in 1..m |-> h[i]]
      OBVIOUS
    <3> HIDE DEF h
    <3> QED BY <3>2, <3>3 DEF Flat
  <2> QED BY <2>3, <2>7
<1> DEFINE F == CHOOSE f : Flat(f, n)
<1>3. Flat(F, n)
  BY <1>2
<1>4. n # 0 => FlattenSeq(s) = F[n]
  BY DEF FlattenSeq, Flat, n
<1> HIDE DEF F
<1> DEFINE Has(m) == /\ F[m] \in Seq(M)
                     /\ \A x : x \in ToSet(F[m]) <=> \E i \in 1..m : x \in ToSet(s[i])
           Wrong == {m \in 1..n : ~Has(m)}
<1>5. Wrong = {}
  <2>1. SUFFICES ASSUME Wrong # {} PROVE FALSE
    OBVIOUS
  <2>2. Wrong \in SUBSET Nat
    BY <1>1
  <2>3. PICK m \in Wrong : \A k \in Wrong : m <= k
    BY <2>1, <2>2, Least
  <2>4. m \in 1..n /\ F[m] = IF m = 1 THEN s[m] ELSE F[m - 1] \o s[m]
    BY <1>3, <2>3 DEF Flat
  <2>5. CASE m = 1
    BY <1>1, <2>3, <2>4, <2>5
  <2>6. CASE m # 1
    <3>1. m - 1 \in 1..n /\ ~(m <= m - 1)
      BY <1>1, <2>4, <2>6
    <3>2. Has(m - 1)
      <4>1. m - 1 \notin Wrong
        BY <2>3, <3>1
      <4> HIDE DEF Has
      <4> QED BY <3>1, <4>1
    <3>3. F[m] = F[m - 1] \o s[m] /\ F[m - 1] \in Seq(M) /\ s[m] \in Seq(M)
      BY <1>1, <2>4, <2>6, <3>2
    <3>4. F[m] \in Seq(M) /\ ToSet(F[m]) = ToSet(F[m - 1]) \cup ToSet(s[m])
      BY <3>3, ToSetJoin
    <3>5. \A i \in 1..m : i \in 1..(m - 1) \/ i = m
      BY <2>4
    <3>6. \A i \in 1..(m - 1) : i \in 1..m
      BY <2>4
    <3>7. m \in 1..m
      BY <2>4
    <3>8. Has(m)
      BY <3>2, <3>4, <3>5, <3>6, <3>7
    <3> QED BY <2>3, <3>8
  <2> QED BY <2>5, <2>6
<1>6. CASE n = 0
  <2>1. s = <<>> /\ FlattenSeq(s) = <<>>
    BY <1>6 DEF FlattenSeq, n
  <2>2. ToSet(<<>>) = {}
    BY DEF ToSet
  <2>3. 1..Len(s) = {} /\ <<>> \in Seq(M)
    BY <1>6 DEF n
  <2> QED BY <2>1, <2>2, <2>3
<1>7. CASE n # 0
  <2>1. n \in 1..n
    BY <1>1, <1>7
  <2>2. Has(n)
    <3> HIDE DEF Has
    <3> QED BY <1>5, <2>1
  <2>3. /\ FlattenSeq(s) \in Seq(M)
        /\ \A x : x \in ToSet(FlattenSeq(s)) <=> \E i \in 1..n : x \in ToSet(s[i])
    BY <1>4, <1>7, <2>2
  <2> QED BY <2>3 DEF n
<1> QED BY <1>6, <1>7

-----------------------------------------------------------------------------
\* Turns in the order they started

Rank(S, t) == Cardinality({u \in S : u < t})
Rising(q) == \A i, j \in 1..Len(q) : i < j => q[i] < q[j]
Onto(q, S) == \A t \in S : \E i \in 1..Len(q) : q[i] = t

LEMMA Ranks ==
    ASSUME NEW S \in SUBSET Turns
    PROVE  /\ IsFiniteSet(S) /\ Cardinality(S) \in Nat
           /\ \A t \in S : Rank(S, t) \in 0..(Cardinality(S) - 1)
           /\ \A t, u \in S : t < u => Rank(S, t) < Rank(S, u)
           /\ \A t, u \in S : Rank(S, t) = Rank(S, u) => t = u
           /\ \A t \in S : t \in Nat
<1>1. IsFiniteSet(S) /\ Cardinality(S) \in Nat
  <2>1. IsFiniteSet(Turns)
    BY MaxTurnsNat, CountTo DEF Turns
  <2> QED BY <2>1, FS_Subset, FS_CardinalityType
<1>2. \A t \in S : t \in Nat
  BY DEF Turns
<1>3. ASSUME NEW t \in S
      PROVE  IsFiniteSet({u \in S : u < t}) /\ Rank(S, t) \in 0..(Cardinality(S) - 1)
  <2> DEFINE B == {u \in S : u < t}
  <2>1. IsFiniteSet(B) /\ Cardinality(B) \in Nat
    BY <1>1, FS_Subset, FS_CardinalityType
  <2>2. B \subseteq S /\ t \notin B /\ B \cup {t} \subseteq S
    BY <1>2
  <2>3. Cardinality(B \cup {t}) = Cardinality(B) + 1
    BY <2>1, <2>2, FS_AddElement
  <2>4. Cardinality(B \cup {t}) <= Cardinality(S)
    BY <1>1, <2>2, FS_Subset
  <2>5. Cardinality(B) \in 0..(Cardinality(S) - 1)
    <3> HIDE DEF B
    <3> QED BY <1>1, <2>1, <2>3, <2>4
  <2> QED BY <2>1, <2>5 DEF Rank
<1>4. ASSUME NEW t \in S, NEW u \in S, t < u PROVE Rank(S, t) < Rank(S, u)
  <2> DEFINE B == {v \in S : v < t}
             C == {v \in S : v < u}
  <2>1. IsFiniteSet(B) /\ Cardinality(B) \in Nat /\ IsFiniteSet(C) /\ Cardinality(C) \in Nat
    BY <1>3, FS_CardinalityType
  <2>2. t \notin B /\ B \cup {t} \subseteq C
    BY <1>2, <1>4
  <2>3. Cardinality(B \cup {t}) = Cardinality(B) + 1 /\ Cardinality(B \cup {t}) <= Cardinality(C)
    BY <2>1, <2>2, FS_AddElement, FS_Subset
  <2>4. Cardinality(B) < Cardinality(C)
    <3> HIDE DEF B, C
    <3> QED BY <2>1, <2>3
  <2> QED BY <2>4 DEF Rank
<1>5. \A t, u \in S : Rank(S, t) = Rank(S, u) => t = u
  <2> SUFFICES ASSUME NEW t \in S, NEW u \in S, Rank(S, t) = Rank(S, u), t # u PROVE FALSE
    OBVIOUS
  <2>1. t < u \/ u < t
    BY <1>2
  <2>2. Rank(S, t) < Rank(S, u) \/ Rank(S, u) < Rank(S, t)
    BY <1>4, <2>1
  <2>3. Rank(S, t) \in Nat /\ Rank(S, u) \in Nat
    <3>1. \A r \in 0..(Cardinality(S) - 1) : r \in Nat
      OBVIOUS
    <3> QED BY <1>3, <3>1
  <2> QED BY <2>2, <2>3
<1> QED BY <1>1, <1>2, <1>3, <1>4, <1>5

\* InOrder lists a set of turns, once each and rising.
LEMMA OrderFacts ==
    ASSUME NEW S \in SUBSET Turns
    PROVE  /\ InOrder(S) \in Seq(S) /\ Len(InOrder(S)) = Cardinality(S)
           /\ Cardinality(S) \in Nat /\ \A t \in S : t \in Nat
           /\ Rising(InOrder(S)) /\ Onto(InOrder(S), S)
<1> DEFINE n == Cardinality(S)
           q == InOrder(S)
<1>1. n \in Nat /\ IsFiniteSet(S) /\ \A t \in S : t \in Nat
  BY Ranks
<1>2. ASSUME NEW i \in 1..n PROVE \E t \in S : Rank(S, t) = i - 1
  <2> DEFINE g == [t \in S |-> Rank(S, t)]
             R == {g[t] : t \in S}
  <2>1. R \subseteq 0..(n - 1)
    BY Ranks
  <2>2. g \in Bijection(S, R)
    BY Ranks DEF Bijection, Injection, Surjection, IsInjective
  <2>3. Cardinality(R) = n
    BY <1>1, <2>2, FS_Bijection DEF ExistsBijection
  <2>4. IsFiniteSet(0..(n - 1)) /\ Cardinality(0..(n - 1)) = n
    <3>1. 0 \in Int /\ n - 1 \in Int
      BY <1>1
    <3>2. IsFiniteSet(0..(n - 1)) /\ Cardinality(0..(n - 1)) = IF 0 > n - 1 THEN 0 ELSE (n - 1) - 0 + 1
      BY <3>1, FS_Interval
    <3> HIDE DEF n
    <3> QED BY <1>1, <3>2
  <2>5. R = 0..(n - 1)
    BY <2>1, <2>3, <2>4, FS_Subset
  <2>6. i - 1 \in R
    <3>1. i - 1 \in 0..(n - 1)
      BY <1>1
    <3> QED BY <2>5, <3>1
  <2> QED BY <2>6
<1>3. \A i \in 1..n : q[i] \in S /\ Rank(S, q[i]) = i - 1
  <2>1. q = [i \in 1..n |-> CHOOSE t \in S : Rank(S, t) = i - 1]
    BY DEF InOrder, Rank
  <2> HIDE DEF q
  <2> QED BY <1>2, <2>1
<1>4. q = [i \in 1..n |-> q[i]]
  BY DEF InOrder
<1>5. q \in Seq(S) /\ Len(q) = n
  <2> HIDE DEF q, n
  <2>1. q \in [1..n -> S]
    BY <1>3, <1>4
  <2> QED BY <1>1, <2>1
<1>6. Rising(q)
  <2> SUFFICES ASSUME NEW i \in 1..n, NEW j \in 1..n, i < j PROVE q[i] < q[j]
    BY <1>5 DEF Rising
  <2>1. q[i] \in S /\ q[j] \in S /\ Rank(S, q[i]) = i - 1 /\ Rank(S, q[j]) = j - 1
    BY <1>3
  <2>2. q[i] # q[j]
    BY <1>1, <2>1
  <2>3. ~(q[j] < q[i])
    BY <1>1, <2>1, Ranks
  <2> HIDE DEF q
  <2> QED BY <1>1, <2>1, <2>2, <2>3
<1>7. Onto(q, S)
  <2> SUFFICES ASSUME NEW t \in S PROVE \E i \in 1..n : q[i] = t
    BY <1>5 DEF Onto
  <2>1. Rank(S, t) \in 0..(n - 1)
    BY Ranks
  <2> DEFINE i == Rank(S, t) + 1
  <2>2. i \in 1..n /\ i - 1 = Rank(S, t)
    BY <1>1, <2>1
  <2>3. q[i] \in S /\ Rank(S, q[i]) = Rank(S, t)
    BY <1>3, <2>2
  <2> QED BY <2>2, <2>3, Ranks
<1> QED BY <1>1, <1>5, <1>6, <1>7

\* No other sequence does.
LEMMA OrderUnique ==
    ASSUME NEW S \in SUBSET Turns, NEW q \in Seq(S), Rising(q), Onto(q, S)
    PROVE  q = InOrder(S)
<1>1. Len(q) \in Nat /\ \A i \in 1..Len(q) : q[i] \in S /\ q[i] \in Nat
  <2>1. \A t \in S : t \in Nat
    BY Ranks
  <2>2. Len(q) \in Nat /\ \A i \in 1..Len(q) : q[i] \in S
    OBVIOUS
  <2> QED BY <2>1, <2>2
<1>2. ASSUME NEW i \in 1..Len(q) PROVE Rank(S, q[i]) = i - 1
  <2> DEFINE B == {u \in S : u < q[i]}
             g == [j \in 1..(i - 1) |-> q[j]]
  <2>1. \A j \in 1..(i - 1) : j \in 1..Len(q) /\ j < i
    BY <1>1
  <2>2. g \in [1..(i - 1) -> B]
    BY <1>1, <2>1 DEF Rising
  <2>3. \A u \in B : \E j \in 1..(i - 1) : g[j] = u
    <3> SUFFICES ASSUME NEW u \in B PROVE \E j \in 1..(i - 1) : g[j] = u
      OBVIOUS
    <3>1. PICK j \in 1..Len(q) : q[j] = u
      BY DEF Onto
    <3>2. q[j] < q[i]
      BY <3>1
    <3>3. j < i
      <4>1. ~(i < j) /\ i # j
        BY <1>1, <3>2 DEF Rising
      <4> QED BY <1>1, <4>1
    <3> QED BY <1>1, <3>1, <3>3
  <2>4. \A j, k \in 1..(i - 1) : g[j] = g[k] => j = k
    <3> SUFFICES ASSUME NEW j \in 1..(i - 1), NEW k \in 1..(i - 1), q[j] = q[k], j # k PROVE FALSE
      OBVIOUS
    <3>1. j < k \/ k < j
      BY <1>1
    <3> QED BY <1>1, <2>1, <3>1 DEF Rising
  <2>5. g \in Bijection(1..(i - 1), B)
    BY <2>2, <2>3, <2>4 DEF Bijection, Injection, Surjection, IsInjective
  <2>6. IsFiniteSet(1..(i - 1)) /\ Cardinality(1..(i - 1)) = i - 1
    <3>1. i - 1 \in Nat
      BY <1>1
    <3> QED BY <3>1, CountTo
  <2> QED BY <2>5, <2>6, FS_Bijection DEF ExistsBijection, Rank
<1>3. Len(q) = Cardinality(S)
  <2> DEFINE g == [j \in 1..Len(q) |-> q[j]]
  <2>1. g \in [1..Len(q) -> S]
    BY <1>1
  <2>2. \A j, k \in 1..Len(q) : g[j] = g[k] => j = k
    <3> SUFFICES ASSUME NEW j \in 1..Len(q), NEW k \in 1..Len(q), q[j] = q[k], j # k PROVE FALSE
      OBVIOUS
    <3>1. j < k \/ k < j
      BY <1>1
    <3> QED BY <1>1, <3>1 DEF Rising
  <2>3. g \in Bijection(1..Len(q), S)
    BY <2>1, <2>2 DEF Onto, Bijection, Injection, Surjection, IsInjective
  <2>4. IsFiniteSet(1..Len(q)) /\ Cardinality(1..Len(q)) = Len(q)
    BY <1>1, CountTo
  <2> QED BY <2>3, <2>4, FS_Bijection DEF ExistsBijection
<1> DEFINE p == InOrder(S)
<1>4. p \in Seq(S) /\ Len(p) = Cardinality(S) /\ Rising(p)
  BY OrderFacts
<1>5. \A i \in 1..Len(q) : p[i] = q[i]
  <2> SUFFICES ASSUME NEW i \in 1..Len(q) PROVE p[i] = q[i]
    OBVIOUS
  <2>1. p = [j \in 1..Cardinality(S) |-> CHOOSE t \in S : Rank(S, t) = j - 1]
    BY DEF InOrder, Rank
  <2> HIDE DEF p
  <2>2. p[i] = CHOOSE t \in S : Rank(S, t) = i - 1
    BY <1>3, <2>1
  <2>3. q[i] \in S /\ Rank(S, q[i]) = i - 1
    BY <1>1, <1>2
  <2>4. p[i] \in S /\ Rank(S, p[i]) = i - 1
    BY <2>2, <2>3
  <2>5. \A t, u \in S : Rank(S, t) = Rank(S, u) => t = u
    BY Ranks
  <2>6. Rank(S, p[i]) = Rank(S, q[i])
    BY <2>3, <2>4
  <2> QED BY <2>3, <2>4, <2>5, <2>6
<1> HIDE DEF p
<1>6. p = q
  BY <1>1, <1>3, <1>4, <1>5
<1> QED BY <1>6 DEF p

\* A turn later than all others is the last.
LEMMA OrderAppend ==
    ASSUME NEW S \in SUBSET Turns, NEW t \in Turns, \A u \in S : u < t
    PROVE  InOrder(S \cup {t}) = Append(InOrder(S), t)
<1> DEFINE p == InOrder(S)
           q == Append(p, t)
<1>1. p \in Seq(S) /\ Rising(p) /\ Onto(p, S) /\ Len(p) \in Nat
  BY OrderFacts
<1> HIDE DEF p
<1>2. q \in Seq(S \cup {t}) /\ Len(q) = Len(p) + 1 /\ q[Len(p) + 1] = t
      /\ \A i \in 1..Len(p) : q[i] = p[i] /\ p[i] \in S
  BY <1>1
<1>3. Rising(q)
  BY <1>1, <1>2 DEF Rising
<1>4. Onto(q, S \cup {t})
  <2>1. \A u \in S : \E i \in 1..Len(q) : q[i] = u
    BY <1>1, <1>2 DEF Onto
  <2>2. Len(p) + 1 \in 1..Len(q)
    BY <1>1, <1>2
  <2> QED BY <1>2, <2>1, <2>2 DEF Onto
<1> HIDE DEF q
<1>5. q = InOrder(S \cup {t})
  BY <1>2, <1>3, <1>4, OrderUnique
<1> QED BY <1>5 DEF q, p

\* The turns before one of them begin the list.
LEMMA OrderBefore ==
    ASSUME NEW S \in SUBSET Turns, NEW v \in S
    PROVE  \E k \in 1..Len(InOrder(S)) :
               /\ InOrder(S)[k] = v
               /\ InOrder({u \in S : u < v}) = SubSeq(InOrder(S), 1, k - 1)
               /\ Len(InOrder({u \in S : u < v})) = k - 1
<1> DEFINE p == InOrder(S)
           B == {u \in S : u < v}
<1>1. p \in Seq(S) /\ Rising(p) /\ Onto(p, S) /\ Len(p) \in Nat /\ \A t \in S : t \in Nat
  BY OrderFacts
<1> HIDE DEF p
<1>2. PICK k \in 1..Len(p) : p[k] = v
  BY <1>1 DEF Onto
<1> DEFINE q == SubSeq(p, 1, k - 1)
<1>3. /\ k - 1 \in Nat /\ q \in Seq(S) /\ Len(q) = k - 1
      /\ \A i \in 1..(k - 1) : q[i] = p[i] /\ i \in 1..Len(p) /\ i < k
  BY <1>1
<1> HIDE DEF q
<1>4. q \in Seq(B)
  <2>1. \A i \in 1..Len(q) : q[i] \in B
    BY <1>1, <1>2, <1>3 DEF Rising
  <2>2. q \in [1..Len(q) -> B]
    BY <1>3, <2>1
  <2> QED BY <1>3, <2>2
<1>5. Rising(q)
  BY <1>1, <1>3 DEF Rising
<1>6. Onto(q, B)
  <2> SUFFICES ASSUME NEW t \in B PROVE \E i \in 1..Len(q) : q[i] = t
    BY DEF Onto
  <2>1. PICK i \in 1..Len(p) : p[i] = t
    BY <1>1 DEF Onto
  <2>2. i < k
    <3>1. p[i] < p[k]
      BY <1>2, <2>1
    <3>2. ~(k < i) /\ i # k
      BY <1>1, <3>1 DEF Rising
    <3> QED BY <3>2
  <2>3. i \in 1..(k - 1)
    BY <2>2
  <2> QED BY <1>3, <2>1, <2>3
<1>7. B \in SUBSET Turns
  OBVIOUS
<1>8. q = InOrder(B)
  BY <1>4, <1>5, <1>6, <1>7, OrderUnique
<1> QED BY <1>2, <1>3, <1>8 DEF q, p

-----------------------------------------------------------------------------
\* The map of the history: the legacy prefix and the slice each turn added.

Done == {t \in Turns : turn[t] = "completed"}

\* What was mapped before each completed turn, and the whole.
Mapped == [i \in 1..(Len(Completed) + 1) |-> IF i <= Len(Completed) THEN Before(i) ELSE history]

LEMMA CompletedFacts ==
    /\ Completed = InOrder(Done) /\ Done \in SUBSET Turns
    /\ Completed \in Seq(Turns) /\ Len(Completed) \in Nat
    /\ \A i \in 1..Len(Completed) : Completed[i] \in Done
    /\ Rising(Completed) /\ Onto(Completed, Done)
<1>1. Completed = InOrder(Done) /\ Done \in SUBSET Turns
  BY DEF Completed, Done
<1>2. /\ InOrder(Done) \in Seq(Done) /\ Len(InOrder(Done)) \in Nat
      /\ Rising(InOrder(Done)) /\ Onto(InOrder(Done), Done)
  BY <1>1, OrderFacts
<1>3. \A q \in Seq(Done) : q \in Seq(Turns) /\ \A i \in 1..Len(q) : q[i] \in Done
  <2>1. Seq(Done) \subseteq Seq(Turns)
    BY <1>1
  <2> QED BY <2>1
<1> QED BY <1>1, <1>2, <1>3

LEMMA BeforeType ==
    ASSUME TypeOK, NEW i \in 1..Len(Completed)
    PROVE  /\ request[Completed[i]] \in Seq(Message)
           /\ Before(i) \in Seq(Message) /\ IsPrefix(Before(i), request[Completed[i]])
<1>1. Completed[i] \in Turns
  BY CompletedFacts
<1>2. request[Completed[i]] \in Seq(Message)
  BY <1>1 DEF TypeOK
<1> QED BY <1>2, FrontType DEF Before

LEMMA MapIsChain ==
    ASSUME TypeOK, MapComplete
    PROVE  /\ Chain(Message, Len(Completed) + 1, Mapped)
           /\ \A i \in 1..Len(Completed) :
                 /\ Mapped[i] = Before(i) /\ Mapped[i + 1] = After(i)
                 /\ Unit(i) = Slice(Mapped[i], Mapped[i + 1])
           /\ Mapped[Len(Completed) + 1] = history
<1>1. Len(Completed) \in Nat
  BY CompletedFacts
<1>2. ASSUME NEW i \in 1..Len(Completed)
      PROVE  Mapped[i] = Before(i) /\ Mapped[i + 1] = After(i) /\ After(i) \in Seq(Message)
  <2>1. /\ i \in 1..(Len(Completed) + 1) /\ i <= Len(Completed)
        /\ i + 1 \in 1..(Len(Completed) + 1)
        /\ (i + 1 <= Len(Completed) <=> i < Len(Completed))
    BY <1>1
  <2>2. Mapped[i] = Before(i) /\ Mapped[i + 1] = After(i)
    BY <2>1 DEF Mapped, After
  <2>3. CASE i < Len(Completed)
    <3>1. i + 1 \in 1..Len(Completed)
      BY <1>1, <2>3
    <3> QED BY <2>2, <2>3, <3>1, BeforeType DEF After
  <2>4. CASE ~(i < Len(Completed))
    BY <2>2, <2>4 DEF After, TypeOK
  <2> QED BY <2>2, <2>3, <2>4
<1>3. Mapped[Len(Completed) + 1] = history
  BY <1>1 DEF Mapped
<1>4. ASSUME NEW i \in 1..Len(Completed) PROVE IsPrefix(Mapped[i], Mapped[i + 1])
  <2>1. IsPrefix(request[Completed[i]], After(i))
    BY CompletedFacts DEF MapComplete, Maps
  <2>2. IsPrefix(Before(i), After(i))
    BY <1>2, <2>1, BeforeType, PrefixTrans
  <2> QED BY <1>2, <2>2
<1>5. Mapped \in [1..(Len(Completed) + 1) -> Seq(Message)]
  <2>1. \A i \in 1..(Len(Completed) + 1) :
            (IF i <= Len(Completed) THEN Before(i) ELSE history) \in Seq(Message)
    <3> SUFFICES ASSUME NEW i \in 1..(Len(Completed) + 1)
                 PROVE  (IF i <= Len(Completed) THEN Before(i) ELSE history) \in Seq(Message)
      OBVIOUS
    <3>1. CASE i <= Len(Completed)
      <4>1. i \in 1..Len(Completed)
        BY <1>1, <3>1
      <4> QED BY <3>1, <4>1, BeforeType
    <3>2. CASE ~(i <= Len(Completed))
      BY <3>2 DEF TypeOK
    <3> QED BY <3>1, <3>2
  <2> QED BY <2>1 DEF Mapped
<1>6. (Len(Completed) + 1) - 1 = Len(Completed)
  BY <1>1
<1>7. Chain(Message, Len(Completed) + 1, Mapped)
  BY <1>4, <1>5, <1>6 DEF Chain
<1>8. \A i \in 1..Len(Completed) : Unit(i) = Slice(Mapped[i], Mapped[i + 1])
  BY <1>2 DEF Unit, Slice
<1> QED BY <1>2, <1>3, <1>7, <1>8

\* The slices up to a turn and the legacy prefix make up what was mapped before it.
LEMMA UnitsCover ==
    ASSUME TypeOK, MapComplete, Completed # <<>>, NEW m \in 1..(Len(Completed) + 1)
    PROVE  ToSet(Mapped[m]) = ToSet(LegacyPrefix) \cup UNION {ToSet(Unit(i)) : i \in 1..(m - 1)}
<1>1. Len(Completed) \in Nat /\ Len(Completed) # 0
  BY CompletedFacts
<1>2. Chain(Message, Len(Completed) + 1, Mapped) /\ Len(Completed) + 1 \in Nat
  BY <1>1, MapIsChain
<1>3. \A x : x \in ToSet(Mapped[m]) <=>
          \/ x \in ToSet(Mapped[1])
          \/ \E i \in 1..(m - 1) : x \in ToSet(Slice(Mapped[i], Mapped[i + 1]))
  <2> DEFINE n == Len(Completed) + 1
  <2>1. n \in Nat /\ m \in 1..n /\ Chain(Message, n, Mapped)
    BY <1>2
  <2> HIDE DEF n
  <2> QED BY <2>1, ChainCover
<1>4. Mapped[1] = LegacyPrefix
  <2>1. 1 \in 1..Len(Completed)
    BY <1>1
  <2> QED BY <2>1, MapIsChain DEF LegacyPrefix
<1>5. \A i \in 1..(m - 1) : Unit(i) = Slice(Mapped[i], Mapped[i + 1])
  <2>1. 1..(m - 1) \subseteq 1..Len(Completed)
    BY <1>1
  <2> QED BY <2>1, MapIsChain
<1> QED BY <1>3, <1>4, <1>5

-----------------------------------------------------------------------------
\* However turns overlap: what stands summarised is in the summary.

Runner ==
    [at : {"rest", "claim", "plan", "model", "commit"}, snapshot : Seq(Message),
     target : Seq(Turns), legacy : Seq(Message), sources : Seq(Seq(Message)),
     summed : SUBSET Message, previous : Nat]

Artifact ==
    [covered : Seq(Turns), sources : Seq(Seq(Message)), legacy : Seq(Message),
     summed : SUBSET Message, active : BOOLEAN]

TypesOfJobs ==
    /\ TypeOK
    /\ runner \in [Runners -> Runner] /\ artifacts \in Seq(Artifact)

\* A completed turn no longer writes; one that is about to read has its question stored.
Settled ==
    \A t \in Turns :
        /\ turn[t] = "completed" => handler[t] \in {"completed", "over"}
        /\ handler[t] = "started" => messages # <<>>
        /\ handler[t] \in {"read", "routed", "answered"} => request[t] # <<>>

\* A summary holds what was mapped before a turn that comes after its targets.
MadeBefore(v, target, summed) ==
    /\ \A i \in 1..Len(target) : target[i] < v
    /\ ToSet(Front(request[v])) \subseteq summed

Made(target, summed) == \E v \in Done : MadeBefore(v, target, summed)

\* A summary holds the sources it is stored with.
Holds(n, sources, legacy, summed) ==
    /\ Len(sources) = n
    /\ ToSet(legacy) \cup UNION {ToSet(sources[i]) : i \in 1..n} \subseteq summed

JobsHold ==
    \A r \in Runners :
        /\ runner[r].at = "model" => Made(runner[r].target, runner[r].summed)
        /\ runner[r].at = "commit" => Holds(Len(runner[r].target), runner[r].sources,
                                            runner[r].legacy, runner[r].summed)

ArtifactsHold ==
    \A g \in DOMAIN artifacts : Holds(Len(artifacts[g].covered), artifacts[g].sources,
                                      artifacts[g].legacy, artifacts[g].summed)

CompactionInv == TypesOfJobs /\ Settled /\ NewestIsActive /\ JobsHold /\ ArtifactsHold

LEMMA LatestIs ==
    ASSUME TypesOfJobs, NewestIsActive
    PROVE  /\ Latest = Len(artifacts) /\ Latest \in Nat
           /\ Latest # 0 => Latest \in DOMAIN artifacts /\ artifacts[Latest] \in Artifact
<1>1. artifacts \in Seq(Artifact) /\ Len(artifacts) \in Nat /\ DOMAIN artifacts = 1..Len(artifacts)
  BY DEF TypesOfJobs
<1> DEFINE active == {g \in DOMAIN artifacts : artifacts[g].active}
<1>2. active = {g \in DOMAIN artifacts : g = Len(artifacts)}
  BY DEF NewestIsActive
<1>3. CASE Len(artifacts) = 0
  <2>1. active = {}
    BY <1>1, <1>2, <1>3
  <2> QED BY <1>3, <2>1 DEF Latest
<1>4. CASE Len(artifacts) # 0
  <2>1. Len(artifacts) \in DOMAIN artifacts
    BY <1>1, <1>4
  <2>2. active = {Len(artifacts)}
    BY <1>2, <2>1
  <2>3. Latest = CHOOSE g \in {Len(artifacts)} : \A k \in {Len(artifacts)} : k <= g
    BY <2>2 DEF Latest
  <2>4. Latest = Len(artifacts)
    BY <1>1, <2>3
  <2> QED BY <1>1, <2>1, <2>4
<1> QED BY <1>3, <1>4

\* A summary the router accepts holds everything up to the turns it covers.
LEMMA ValidHolds ==
    ASSUME CompactionInv, MapComplete, NEW g \in DOMAIN artifacts, Valid(artifacts[g])
    PROVE  ToSet(LegacyPrefix) \cup UNION {ToSet(Unit(i)) : i \in 1..Len(artifacts[g].covered)}
               \subseteq artifacts[g].summed
<1> DEFINE n == Len(artifacts[g].covered)
<1>1. /\ artifacts[g].sources = Units(n) /\ artifacts[g].legacy = LegacyPrefix
      /\ ToSet(artifacts[g].legacy) \cup UNION {ToSet(artifacts[g].sources[i]) : i \in 1..n}
             \subseteq artifacts[g].summed
  BY DEF Valid, CompactionInv, ArtifactsHold, Holds
<1>2. \A i \in 1..n : Units(n)[i] = Unit(i)
  BY DEF Units
<1> QED BY <1>1, <1>2

-----------------------------------------------------------------------------
\* The steps of turns.

LEMMA TurnTypes ==
    ASSUME TypeOK, Settled, TurnNext
    PROVE  /\ TypeOK' /\ Settled' /\ UNCHANGED <<runner, artifacts>>
           /\ \A v \in Done : v \in Done' /\ request'[v] = request[v]
<1> USE DEF Go, turnVars, jobVars
<1>1. PICK t \in Turns : \/ StartTurn(t) \/ ReadHistory(t) \/ Route(t) \/ StoreAnswer(t)
                         \/ WriteHistory(t) \/ CompleteTurn(t) \/ Schedule(t)
                         \/ FailTurn(t) \/ StopTurn(t)
  BY DEF TurnNext
<1>2. User(t) \in Message /\ Answer(t) \in Message
  BY DEF User, Answer, Message
<1>3. CASE StartTurn(t)
  <2>1. messages' \in Seq(Message) /\ messages' # <<>>
    <3>1. messages' = Append(messages, User(t)) /\ messages \in Seq(Message)
      BY <1>3 DEF StartTurn, TypeOK
    <3> QED BY <1>2, <3>1
  <2>2. TypeOK' /\ UNCHANGED <<runner, artifacts, request>>
    BY <1>3, <2>1 DEF StartTurn, TypeOK
  <2>3. Settled'
    BY <1>3, <2>1 DEF StartTurn, TypeOK, Settled
  <2>4. \A v \in Done : v \in Done'
    BY <1>3 DEF StartTurn, TypeOK, Done
  <2> QED BY <2>2, <2>3, <2>4
<1>4. CASE ReadHistory(t)
  <2> DEFINE q == IF history # <<>> THEN Append(history, User(t)) ELSE messages
  <2>1. q \in Seq(Message) /\ q # <<>>
    <3>1. history \in Seq(Message) /\ messages \in Seq(Message) /\ messages # <<>>
      BY <1>4 DEF ReadHistory, TypeOK, Settled
    <3>2. Append(history, User(t)) \in Seq(Message) /\ Append(history, User(t)) # <<>>
      BY <1>2, <3>1
    <3> QED BY <3>1, <3>2
  <2>2. request' = [request EXCEPT ![t] = q]
    BY <1>4 DEF ReadHistory
  <2> HIDE DEF q
  <2>3. TypeOK' /\ UNCHANGED <<runner, artifacts, turn>>
    BY <1>4, <2>1, <2>2 DEF ReadHistory, TypeOK
  <2>4. Settled'
    BY <1>4, <2>1, <2>2 DEF ReadHistory, TypeOK, Settled
  <2>5. \A v \in Done : v \in Done' /\ request'[v] = request[v]
    BY <1>4, <2>2 DEF ReadHistory, TypeOK, Settled, Done
  <2> QED BY <2>3, <2>4, <2>5
<1>5. CASE Route(t)
  <2>1. /\ handler[t] = "read" /\ handler' = [handler EXCEPT ![t] = "routed"]
        /\ UNCHANGED <<turn, messages, request, history, scheduled, pending, runner, artifacts>>
    BY <1>5 DEF Route
  <2>2. TypeOK' /\ Settled'
    BY <2>1 DEF TypeOK, Settled
  <2> QED BY <2>1, <2>2 DEF Done
<1>6. CASE StoreAnswer(t)
  <2>1. messages' \in Seq(Message) /\ messages' # <<>>
    <3>1. messages' = Append(messages, Answer(t)) /\ messages \in Seq(Message)
      BY <1>6 DEF StoreAnswer, TypeOK
    <3> QED BY <1>2, <3>1
  <2>2. TypeOK' /\ Settled'
    BY <1>6, <2>1 DEF StoreAnswer, TypeOK, Settled
  <2> QED BY <1>6, <2>2 DEF StoreAnswer, Done
<1>7. CASE WriteHistory(t)
  <2>1. history' \in Seq(Message)
    <3>1. history' = Append(request[t], Answer(t)) /\ request[t] \in Seq(Message)
      BY <1>7 DEF WriteHistory, Updated, TypeOK
    <3> QED BY <1>2, <3>1
  <2>2. TypeOK' /\ Settled'
    BY <1>7, <2>1 DEF WriteHistory, TypeOK, Settled
  <2> QED BY <1>7, <2>2 DEF WriteHistory, Done
<1>8. CASE CompleteTurn(t)
  <2>1. TypeOK' /\ Settled'
    BY <1>8 DEF CompleteTurn, TypeOK, Settled
  <2>2. \A v \in Done : v \in Done'
    BY <1>8 DEF CompleteTurn, TypeOK, Done
  <2> QED BY <1>8, <2>1, <2>2 DEF CompleteTurn
<1>9. CASE Schedule(t)
  <2>1. Settled'
    BY <1>9 DEF Schedule, TypeOK, Settled
  <2>2. pending' \subseteq scheduled' /\ \A s \in scheduled' : s \in Seq(Message)
    BY <1>9 DEF Schedule, TypeOK
  <2>3. TypeOK'
    BY <1>9, <2>2 DEF Schedule, TypeOK
  <2> QED BY <1>9, <2>1, <2>3 DEF Schedule, Done
<1>10. CASE FailTurn(t)
  <2>1. TypeOK' /\ Settled'
    BY <1>10 DEF FailTurn, TypeOK, Settled
  <2>2. \A v \in Done : v \in Done'
    BY <1>10 DEF FailTurn, TypeOK, Done, Settled
  <2> QED BY <1>10, <2>1, <2>2 DEF FailTurn
<1>11. CASE StopTurn(t)
  <2>1. TypeOK' /\ Settled'
    BY <1>11 DEF StopTurn, TypeOK, Settled
  <2> QED BY <1>11, <2>1 DEF StopTurn, Done
<1> QED BY <1>1, <1>3, <1>4, <1>5, <1>6, <1>7, <1>8, <1>9, <1>10, <1>11

\* A turn step leaves jobs and artifacts as they are, and what they were made of.
LEMMA TurnsKeepJobs ==
    ASSUME CompactionInv, TurnNext
    PROVE  CompactionInv'
<1>1. /\ TypeOK' /\ Settled' /\ UNCHANGED <<runner, artifacts>>
      /\ \A v \in Done : v \in Done' /\ request'[v] = request[v]
  BY TurnTypes DEF CompactionInv, TypesOfJobs
<1>2. TypesOfJobs'
  BY <1>1 DEF CompactionInv, TypesOfJobs
<1>3. NewestIsActive' /\ ArtifactsHold'
  BY <1>1 DEF CompactionInv, NewestIsActive, ArtifactsHold
<1>4. ASSUME NEW r \in Runners, runner[r].at = "model"
      PROVE  Made(runner[r].target, runner[r].summed)'
  <2>1. PICK v \in Done : MadeBefore(v, runner[r].target, runner[r].summed)
    BY <1>4 DEF CompactionInv, JobsHold, Made
  <2>2. v \in Done' /\ request'[v] = request[v]
    BY <1>1
  <2> QED BY <1>1, <2>1, <2>2 DEF Made, MadeBefore
<1>5. JobsHold'
  BY <1>1, <1>4 DEF CompactionInv, JobsHold
<1> QED BY <1>1, <1>2, <1>3, <1>5 DEF CompactionInv

-----------------------------------------------------------------------------
\* The steps of compaction jobs.

\* What a step of one runner does to the invariant, whatever the step is.
LEMMA RunnerSteps ==
    ASSUME CompactionInv, NEW r \in Runners, NEW new \in Runner,
           runner' = [runner EXCEPT ![r] = new], UNCHANGED <<turnVars, scheduled, artifacts>>,
           pending' \subseteq pending,
           new.at = "model" => Made(new.target, new.summed),
           new.at = "commit" => Holds(Len(new.target), new.sources, new.legacy, new.summed)
    PROVE  CompactionInv'
<1>1. runner' \in [Runners -> Runner] /\ \A s \in Runners : runner'[s] = IF s = r THEN new ELSE runner[s]
  BY DEF CompactionInv, TypesOfJobs
<1>2. \A s \in Runners : runner'[s].at \in {"rest", "claim", "plan", "model", "commit"}
  BY <1>1 DEF Runner
<1>3. UNCHANGED <<turn, handler, messages, request, history, scheduled, artifacts>>
  BY DEF turnVars
<1>4. TypeOK' /\ Settled'
  BY <1>2, <1>3 DEF CompactionInv, TypesOfJobs, TypeOK, Settled
<1>5. TypesOfJobs' /\ NewestIsActive' /\ ArtifactsHold'
  BY <1>1, <1>3, <1>4 DEF CompactionInv, TypesOfJobs, NewestIsActive, ArtifactsHold
<1>6. JobsHold'
  <2>1. \A target, summed : Made(target, summed) => Made(target, summed)'
    BY <1>3 DEF Made, MadeBefore, Done
  <2> SUFFICES ASSUME NEW s \in Runners
               PROVE  /\ runner'[s].at = "model" => Made(runner[s].target, runner[s].summed)'
                      /\ runner'[s].at = "commit" =>
                            Holds(Len(runner'[s].target), runner'[s].sources,
                                  runner'[s].legacy, runner'[s].summed)
    BY DEF JobsHold, Holds
  <2>2. CASE s = r
    <3>1. runner'[s] = new
      BY <1>1, <2>2
    <3>2. runner'[s].at = "model" => Made(runner'[s].target, runner'[s].summed)
      BY <3>1
    <3> QED BY <1>3, <3>1, <3>2 DEF Made, MadeBefore, Done
  <2>3. CASE s # r
    <3>1. runner'[s] = runner[s]
      BY <1>1, <2>3
    <3>2. /\ runner[s].at = "model" => Made(runner[s].target, runner[s].summed)
          /\ runner[s].at = "commit" => Holds(Len(runner[s].target), runner[s].sources,
                                              runner[s].legacy, runner[s].summed)
      BY DEF CompactionInv, JobsHold
    <3> QED BY <1>3, <3>1, <3>2 DEF Made, MadeBefore, Done
  <2> QED BY <2>2, <2>3
<1> QED BY <1>4, <1>5, <1>6 DEF CompactionInv

LEMMA NoJobType == NoJob \in Runner /\ NoJob.at = "rest"
<1>1. \A M : <<>> \in Seq(M)
  OBVIOUS
<1> QED BY <1>1 DEF NoJob, Runner

LEMMA UnitTypes ==
    ASSUME TypeOK, MapComplete
    PROVE  /\ LegacyPrefix \in Seq(Message)
           /\ \A i \in 1..Len(Completed) : Unit(i) \in Seq(Message)
<1>1. LegacyPrefix \in Seq(Message)
  <2>1. CASE Completed = <<>>
    BY <2>1 DEF LegacyPrefix
  <2>2. CASE Completed # <<>>
    <3>1. 1 \in 1..Len(Completed)
      BY <2>2, CompletedFacts
    <3> QED BY <2>2, <3>1, BeforeType DEF LegacyPrefix
  <2> QED BY <2>1, <2>2
<1>2. ASSUME NEW i \in 1..Len(Completed) PROVE Unit(i) \in Seq(Message)
  <2>1. /\ Mapped[i] \in Seq(Message) /\ Mapped[i + 1] \in Seq(Message)
        /\ Unit(i) = SubSeq(Mapped[i + 1], Len(Mapped[i]) + 1, Len(Mapped[i + 1]))
        /\ Len(Mapped[i]) <= Len(Mapped[i + 1])
    <3>1. i \in 1..(Len(Completed) + 1) /\ i + 1 \in 1..(Len(Completed) + 1)
          /\ i \in 1..((Len(Completed) + 1) - 1)
      BY CompletedFacts
    <3>2. Mapped[i] \in Seq(Message) /\ Mapped[i + 1] \in Seq(Message)
          /\ IsPrefix(Mapped[i], Mapped[i + 1])
      BY <3>1, MapIsChain DEF Chain
    <3> QED BY <3>2, MapIsChain, PrefixIff DEF Slice
  <2> QED BY <2>1, SliceIs DEF Slice
<1> QED BY <1>1, <1>2

\* The prompt of a summary holds what was mapped before the turn after its targets,
\* on whichever artifact the summary is built.
LEMMA PromptHolds ==
    ASSUME CompactionInv, MapComplete, NEW n \in 1..(Len(Completed) - 1),
           NEW target, target = SubSeq(Completed, 1, n)
    PROVE  /\ target \in Seq(Turns)
           /\ Prompt(target, Base(target)) \in SUBSET Message
           /\ Made(target, Prompt(target, Base(target)))
<1> DEFINE v == Completed[n + 1]
           g == Base(target).g
           k == Base(target).from
           len == Len(Completed)
<1>1. /\ len \in Nat /\ n \in 1..len /\ n + 1 \in 1..len /\ Completed \in Seq(Turns)
      /\ Rising(Completed) /\ v \in Done /\ TypeOK /\ Completed # <<>>
  BY CompletedFacts DEF CompactionInv, TypesOfJobs
<1>2. target \in Seq(Turns) /\ Len(target) = n /\ \A i \in 1..n : target[i] = Completed[i]
  BY <1>1
<1>3. \A i \in 1..Len(target) : target[i] < v
  BY <1>1, <1>2 DEF Rising
<1>4. ToSet(Front(request[v])) =
          ToSet(LegacyPrefix) \cup UNION {ToSet(Unit(i)) : i \in 1..n}
  <2> DEFINE m == n + 1
  <2>1. m \in 1..(Len(Completed) + 1) /\ m - 1 = n /\ m \in 1..Len(Completed)
    BY <1>1
  <2>2. Mapped[m] = Before(m) /\ Before(m) = Front(request[v])
    BY <1>1, <2>1, MapIsChain DEF Before
  <2> HIDE DEF m
  <2> QED BY <1>1, <2>1, <2>2, UnitsCover
<1>5. /\ ToSet(LegacyPrefix) \subseteq Message
      /\ \A i \in 1..n : ToSet(Unit(i)) \subseteq Message
  <2>1. \A i \in 1..n : i \in 1..Len(Completed)
    BY <1>1
  <2> QED BY <1>1, <2>1, UnitTypes, ToSetIs
<1>6. g = Previous(target)
  BY DEF Base
<1>7. CASE g = 0
  <2>1. k = 0
    BY <1>6, <1>7 DEF Base
  <2>2. Prompt(target, Base(target)) = ToSet(LegacyPrefix) \cup UNION {ToSet(Unit(i)) : i \in 1..n}
    BY <1>2, <1>7, <2>1 DEF Prompt
  <2> QED BY <1>1, <1>2, <1>3, <1>4, <1>5, <2>2 DEF Made, MadeBefore
<1>8. CASE g # 0
  <2>1. g = Latest /\ Latest # 0 /\ Valid(artifacts[g]) /\ k = Len(artifacts[g].covered)
    BY <1>6, <1>8 DEF Previous, Base
  <2>2. g \in DOMAIN artifacts /\ artifacts[g] \in Artifact
    BY <2>1, LatestIs DEF CompactionInv
  <2>3. ToSet(LegacyPrefix) \cup UNION {ToSet(Unit(i)) : i \in 1..k} \subseteq artifacts[g].summed
    <3> HIDE DEF g
    <3> QED BY <2>1, <2>2, ValidHolds
  <2>4. Prompt(target, Base(target)) =
            artifacts[g].summed \cup UNION {ToSet(Unit(i)) : i \in (k + 1)..n}
    BY <1>2, <1>8 DEF Prompt
  <2>5. artifacts[g].summed \subseteq Message /\ k \in Nat
    BY <2>1, <2>2 DEF Artifact
  <2> HIDE DEF g, k, v
  <2>6. \A i \in (k + 1)..n : i \in 1..n
    BY <2>5
  <2>7. \A i \in 1..n : i \in 1..k \/ i \in (k + 1)..n
    BY <2>5
  <2>8. Prompt(target, Base(target)) \in SUBSET Message
    BY <1>5, <2>4, <2>5, <2>6
  <2>9. ToSet(Front(request[v])) \subseteq Prompt(target, Base(target))
    BY <1>4, <2>3, <2>4, <2>7
  <2> QED BY <1>1, <1>2, <1>3, <2>8, <2>9 DEF Made, MadeBefore
<1> QED BY <1>7, <1>8

\* What the second transaction finds below the targets was mapped before that turn.
LEMMA SourcesHeld ==
    ASSUME TypeOK, MapComplete, NEW target \in Seq(Turns), NEW summed, Made(target, summed),
           SubSeq(Completed, 1, Len(target)) = target
    PROVE  /\ LegacyPrefix \in Seq(Message) /\ Units(Len(target)) \in Seq(Seq(Message))
           /\ Holds(Len(target), Units(Len(target)), LegacyPrefix, summed)
<1> DEFINE n == Len(target)
<1>1. PICK v \in Done : MadeBefore(v, target, summed)
  BY DEF Made
<1>2. PICK m \in 1..Len(Completed) : Completed[m] = v
  BY CompletedFacts DEF Onto
<1>3. n \in Nat /\ Len(Completed) \in Nat /\ Completed \in Seq(Turns) /\ v \in Nat
  BY CompletedFacts DEF Done, Turns
<1>4. n < m
  <2> SUFFICES ASSUME m <= n PROVE FALSE
    BY <1>3
  <2>1. target[m] = Completed[m]
    BY <1>3
  <2>2. target[m] < v
    BY <1>1, <1>3 DEF MadeBefore
  <2> QED BY <1>2, <1>3, <2>1, <2>2
<1>5. Completed # <<>>
  BY <1>2, <1>3
<1>6. ToSet(Front(request[v])) =
          ToSet(LegacyPrefix) \cup UNION {ToSet(Unit(i)) : i \in 1..(m - 1)}
  <2>1. m \in 1..(Len(Completed) + 1)
    BY <1>3
  <2>2. Mapped[m] = Front(request[v])
    BY <1>2, MapIsChain DEF Before
  <2> QED BY <1>5, <2>1, <2>2, UnitsCover
<1> HIDE DEF n
<1>7. \A i \in 1..n : i \in 1..(m - 1) /\ i \in 1..Len(Completed)
  BY <1>3, <1>4
<1>8. ToSet(LegacyPrefix) \cup UNION {ToSet(Unit(i)) : i \in 1..n} \subseteq summed
  <2>1. ToSet(Front(request[v])) \subseteq summed
    BY <1>1 DEF MadeBefore
  <2> QED BY <1>6, <1>7, <2>1
<1>9. /\ LegacyPrefix \in Seq(Message) /\ Units(n) \in Seq(Seq(Message))
      /\ Len(Units(n)) = n /\ \A i \in 1..n : Units(n)[i] = Unit(i)
  BY <1>3, <1>7, UnitTypes DEF Units
<1>10. Holds(n, Units(n), LegacyPrefix, summed)
  BY <1>8, <1>9 DEF Holds
<1> QED BY <1>9, <1>10 DEF n

LEMMA JobsKeepJobs ==
    ASSUME CompactionInv, JobNext
    PROVE  CompactionInv'
<1>1. PICK r \in Runners : \/ TakeJob(r) \/ ClaimJob(r) \/ Plan(r) \/ Recheck(r)
                           \/ CommitArtifact(r) \/ EndJob(r)
  BY DEF JobNext
<1>2. /\ runner \in [Runners -> Runner] /\ runner[r] \in Runner /\ TypeOK
      /\ artifacts \in Seq(Artifact) /\ Len(artifacts) \in Nat
  BY DEF CompactionInv, TypesOfJobs
<1>3. CASE TakeJob(r)
  <2>1. PICK s \in pending : runner' = [runner EXCEPT ![r] = [NoJob EXCEPT !.at = "claim", !.snapshot = s]]
    BY <1>3 DEF TakeJob
  <2> DEFINE new == [NoJob EXCEPT !.at = "claim", !.snapshot = s]
  <2>2. s \in Seq(Message)
    BY <1>2 DEF TypeOK
  <2>3. new \in Runner /\ new.at = "claim"
    BY <2>2, NoJobType DEF NoJob, Runner
  <2>4. runner' = [runner EXCEPT ![r] = new] /\ UNCHANGED <<turnVars, scheduled, pending, artifacts>>
    BY <1>3, <2>1 DEF TakeJob
  <2> HIDE DEF new
  <2> QED BY <2>3, <2>4, RunnerSteps
<1>4. CASE ClaimJob(r)
  <2> DEFINE new == [runner[r] EXCEPT !.at = "plan"]
  <2>1. new \in Runner /\ new.at = "plan"
    BY <1>2 DEF Runner
  <2>2. /\ runner' = [runner EXCEPT ![r] = new] /\ pending' \subseteq pending
        /\ UNCHANGED <<turnVars, scheduled, artifacts>>
    BY <1>4 DEF ClaimJob
  <2> HIDE DEF new
  <2> QED BY <2>1, <2>2, RunnerSteps
<1>5. CASE Plan(r)
  <2>1. PICK n \in 1..(Len(Completed) - 1) :
           LET target == SubSeq(Completed, 1, n)
               base == Base(target)
           IN  runner' = [runner EXCEPT ![r].at = "model", ![r].target = target,
                                        ![r].summed = Prompt(target, base)]
    BY <1>5 DEF Plan
  <2> DEFINE target == SubSeq(Completed, 1, n)
             summed == Prompt(target, Base(target))
             new == [runner[r] EXCEPT !.at = "model", !.target = target, !.summed = summed]
  <2>2. runner' = [runner EXCEPT ![r] = new]
    BY <1>2, <2>1
  <2>3. MapComplete /\ UNCHANGED <<turnVars, scheduled, pending, artifacts>>
    BY <1>5 DEF Plan
  <2>4. target \in Seq(Turns) /\ summed \in SUBSET Message /\ Made(target, summed)
    <3>1. target = SubSeq(Completed, 1, n)
      OBVIOUS
    <3> HIDE DEF target
    <3> QED BY <2>3, <3>1, PromptHolds
  <2> HIDE DEF target, summed
  <2>5. new \in Runner /\ new.at = "model" /\ new.target = target /\ new.summed = summed
    BY <1>2, <2>4 DEF Runner
  <2> HIDE DEF new
  <2> QED BY <2>2, <2>3, <2>4, <2>5, RunnerSteps
<1>6. CASE Recheck(r)
  <2> DEFINE target == runner[r].target
             summed == runner[r].summed
             n == Len(target)
             new == [runner[r] EXCEPT !.at = "commit", !.legacy = LegacyPrefix,
                                      !.sources = Units(n), !.previous = Len(artifacts)]
  <2>1. /\ MapComplete /\ SubSeq(Completed, 1, n) = target /\ Made(target, summed)
        /\ UNCHANGED <<turnVars, scheduled, pending, artifacts>>
    BY <1>6 DEF Recheck, SameSnapshot, CompactionInv, JobsHold
  <2>2. runner' = [runner EXCEPT ![r] = new]
    BY <1>2, <1>6 DEF Recheck
  <2>3. target \in Seq(Turns)
    BY <1>2 DEF Runner
  <2>4. /\ LegacyPrefix \in Seq(Message) /\ Units(n) \in Seq(Seq(Message))
        /\ Holds(n, Units(n), LegacyPrefix, summed)
    <3> HIDE DEF target, summed
    <3> QED BY <1>2, <2>1, <2>3, SourcesHeld
  <2>5. /\ new.at = "commit" /\ new.target = target /\ new.sources = Units(n)
        /\ new.legacy = LegacyPrefix /\ new.summed = summed /\ new \in Runner
    BY <1>2, <2>4 DEF Runner
  <2>6. Holds(Len(new.target), new.sources, new.legacy, new.summed)
    BY <2>4, <2>5
  <2> HIDE DEF new, target, summed
  <2> QED BY <2>1, <2>2, <2>5, <2>6, RunnerSteps
<1>7. CASE EndJob(r)
  <2>1. runner' = [runner EXCEPT ![r] = NoJob] /\ UNCHANGED <<turnVars, scheduled, pending, artifacts>>
    BY <1>7 DEF EndJob
  <2> QED BY <2>1, NoJobType, RunnerSteps
<1>8. CASE CommitArtifact(r)
  <2> DEFINE new == [covered |-> runner[r].target, sources |-> runner[r].sources,
                     legacy |-> runner[r].legacy, summed |-> runner[r].summed, active |-> TRUE]
             old == [g \in DOMAIN artifacts |-> IF g = Len(artifacts)
                         THEN Superseded(artifacts[g]) ELSE artifacts[g]]
             len == Len(artifacts)
  <2>1. /\ runner[r].at = "commit" /\ artifacts' = Append(old, new)
        /\ runner' = [runner EXCEPT ![r] = NoJob]
        /\ UNCHANGED <<turnVars, scheduled, pending>>
    BY <1>8 DEF CommitArtifact
  <2>2. new \in Artifact /\ new.active
    BY <1>2 DEF Runner, Artifact
  <2>3. Holds(Len(new.covered), new.sources, new.legacy, new.summed)
    BY <2>1 DEF CompactionInv, JobsHold
  <2>4. /\ old \in Seq(Artifact) /\ Len(old) = len
        /\ \A g \in 1..len :
              /\ old[g].covered = artifacts[g].covered /\ old[g].sources = artifacts[g].sources
              /\ old[g].legacy = artifacts[g].legacy /\ old[g].summed = artifacts[g].summed
              /\ ~old[g].active
    <3>1. \A g \in 1..len : artifacts[g] \in Artifact /\ (artifacts[g].active <=> g = len)
      BY <1>2 DEF CompactionInv, NewestIsActive
    <3>2. \A a \in Artifact :
              /\ Superseded(a) \in Artifact /\ ~Superseded(a).active
              /\ Superseded(a).covered = a.covered /\ Superseded(a).sources = a.sources
              /\ Superseded(a).legacy = a.legacy /\ Superseded(a).summed = a.summed
      BY DEF Superseded, Artifact
    <3>3. old = [g \in 1..len |-> IF g = len THEN Superseded(artifacts[g]) ELSE artifacts[g]]
      BY <1>2
    <3> HIDE DEF old, len
    <3>4. \A g \in 1..len : old[g] = IF g = len THEN Superseded(artifacts[g]) ELSE artifacts[g]
      BY <3>3
    <3>5. old \in [1..len -> Artifact]
      BY <3>1, <3>2, <3>3
    <3>6. len \in Nat
      BY <1>2 DEF len
    <3> QED BY <3>1, <3>2, <3>4, <3>5, <3>6
  <2> HIDE DEF new, old
  <2>5. /\ artifacts' \in Seq(Artifact) /\ Len(artifacts') = len + 1 /\ artifacts'[len + 1] = new
        /\ \A g \in 1..len : artifacts'[g] = old[g]
        /\ DOMAIN artifacts' = 1..(len + 1)
    BY <1>2, <2>1, <2>2, <2>4
  <2>6. \A g \in 1..(len + 1) : g \in 1..len \/ g = len + 1
    BY <1>2
  <2>7. NewestIsActive'
    BY <1>2, <2>2, <2>4, <2>5, <2>6 DEF NewestIsActive
  <2>8. ArtifactsHold'
    <3>1. \A g \in 1..len : Holds(Len(artifacts[g].covered), artifacts[g].sources,
                                  artifacts[g].legacy, artifacts[g].summed)
      BY <1>2 DEF CompactionInv, ArtifactsHold
    <3>2. \A g \in 1..(len + 1) : Holds(Len(artifacts'[g].covered), artifacts'[g].sources,
                                        artifacts'[g].legacy, artifacts'[g].summed)
      BY <2>3, <2>4, <2>5, <2>6, <3>1
    <3> QED BY <2>5, <3>2 DEF ArtifactsHold, Holds
  <2>9. runner' \in [Runners -> Runner] /\ runner'[r].at = "rest"
        /\ \A s \in Runners : s # r => runner'[s] = runner[s]
    BY <1>2, <2>1, NoJobType
  <2>10. UNCHANGED <<turn, handler, messages, request, history, scheduled, pending>>
    BY <2>1 DEF turnVars
  <2>11. TypesOfJobs' /\ Settled'
    <3>1. \A s \in Runners : runner'[s].at \in {"rest", "claim", "plan", "model", "commit"}
      BY <2>9 DEF Runner
    <3>2. TypeOK' /\ Settled'
      BY <2>10, <3>1 DEF CompactionInv, TypesOfJobs, TypeOK, Settled
    <3> QED BY <2>5, <2>9, <3>2 DEF TypesOfJobs
  <2>12. JobsHold'
    <3> SUFFICES ASSUME NEW s \in Runners, s # r
                 PROVE  /\ runner[s].at = "model" => Made(runner[s].target, runner[s].summed)'
                        /\ runner[s].at = "commit" =>
                              Holds(Len(runner[s].target), runner[s].sources,
                                    runner[s].legacy, runner[s].summed)
      BY <2>9 DEF JobsHold, Holds
    <3>1. /\ runner[s].at = "model" => Made(runner[s].target, runner[s].summed)
          /\ runner[s].at = "commit" => Holds(Len(runner[s].target), runner[s].sources,
                                              runner[s].legacy, runner[s].summed)
      BY DEF CompactionInv, JobsHold
    <3> QED BY <2>9, <2>10, <3>1 DEF Made, MadeBefore, Done
  <2> QED BY <2>7, <2>8, <2>11, <2>12 DEF CompactionInv
<1> QED BY <1>1, <1>3, <1>4, <1>5, <1>6, <1>7, <1>8

LEMMA CompactionInit == Init => CompactionInv
<1> SUFFICES ASSUME Init PROVE CompactionInv
  OBVIOUS
<1>1. runner \in [Runners -> Runner] /\ \A r \in Runners : runner[r].at = "rest"
  BY NoJobType DEF Init
<1>2. TypeOK
  BY <1>1 DEF Init, TypeOK
<1>3. artifacts \in Seq(Artifact) /\ DOMAIN artifacts = {}
  BY DEF Init
<1>4. Settled /\ NewestIsActive /\ JobsHold /\ ArtifactsHold
  BY <1>1, <1>3 DEF Init, Settled, NewestIsActive, JobsHold, ArtifactsHold
<1> QED BY <1>1, <1>2, <1>3, <1>4 DEF CompactionInv, TypesOfJobs

LEMMA CompactionStep == CompactionInv /\ [Next]_vars => CompactionInv'
<1> SUFFICES ASSUME CompactionInv, [Next]_vars PROVE CompactionInv'
  OBVIOUS
<1>1. CASE UNCHANGED vars
  BY <1>1 DEF vars, CompactionInv, TypesOfJobs, TypeOK, Settled, NewestIsActive, JobsHold, ArtifactsHold,
     Holds, Made, MadeBefore, Done
<1> QED BY <1>1, TurnsKeepJobs, JobsKeepJobs DEF Next

\* The inductive invariant of compaction: what its variables range over, which
\* generation is active, and what each summary holds, of a job that waits for its
\* model, of one that is about to commit, and of every stored artifact.
THEOREM CompactionInvariant == Spec => []CompactionInv
<1>1. Init => CompactionInv
  BY CompactionInit
<1>2. CompactionInv /\ [Next]_vars => CompactionInv'
  BY CompactionStep
<1> QED BY <1>1, <1>2, PTL DEF Spec

\* A summary the router accepts leaves nothing out of what it replaces, for any
\* number of turns, overlapping or not, and of threads that run compaction jobs.
THEOREM SummariesDropNothing == Spec => []NothingDropped
<1>1. CompactionInv => NothingDropped
  <2> SUFFICES ASSUME CompactionInv, NEW g \in DOMAIN artifacts, MapComplete, Valid(artifacts[g])
               PROVE  ToSet(LegacyPrefix) \cup
                          UNION {ToSet(Unit(i)) : i \in DOMAIN artifacts[g].covered}
                          \subseteq artifacts[g].summed
    BY DEF NothingDropped
  <2>1. DOMAIN artifacts[g].covered = 1..Len(artifacts[g].covered)
    BY DEF CompactionInv, TypesOfJobs, Artifact
  <2> QED BY <2>1, ValidHolds
<1> QED BY <1>1, CompactionInvariant, PTL

\* The newest generation of a summary is the active one, and the only one, even
\* when two threads run the same job.
THEOREM OneActiveGeneration == Spec => []NewestIsActive
<1>1. CompactionInv => NewestIsActive
  BY DEF CompactionInv
<1> QED BY <1>1, CompactionInvariant, PTL

-----------------------------------------------------------------------------
\* Turns that follow one another: the history only grows.

\* Turns start in order, and only when those before are over.
Serial ==
    \A t \in Turns :
        /\ turn[t] = "none" <=> handler[t] = "none"
        /\ turn[t] # "none" => \A u \in 1..(t - 1) : turn[u] # "none" /\ handler[u] = "over"

Exchange(t) == Append(request[t], Answer(t))
Asks(s, t) == s # <<>> /\ Last(s) = User(t)

\* The canonical request of a turn, while the turn is handled: its question comes
\* last, after the history there is, if there is one.
Asked ==
    \A t \in Turns :
        /\ handler[t] = "started" => Asks(messages, t)
        /\ handler[t] \in {"read", "routed", "answered"} =>
              Asks(request[t], t) /\ (history = <<>> \/ Front(request[t]) = history)

\* A turn that has written stays in the history, question and answer.
Wrote(t) == turn[t] = "completed" \/ handler[t] = "written"
Kept == \A t \in Turns : Wrote(t) => Asks(request[t], t) /\ IsPrefix(Exchange(t), history)

\* A turn that completed stays in what later turns found.
Found(t) == turn[t] = "completed" \/ handler[t] \in {"read", "routed", "answered", "written"}
Grown ==
    \A s, t \in Turns : s < t /\ turn[s] = "completed" /\ Found(t) =>
        IsPrefix(Exchange(s), Front(request[t]))

SerialInv == TypeOK /\ Settled /\ Serial /\ Asked /\ Kept /\ Grown

LEMMA MessageTypes == \A t \in Turns : User(t) \in Message /\ Answer(t) \in Message
BY DEF User, Answer, Message

\* A turn that is being handled is the last one that started.
LEMMA NoneAfter ==
    ASSUME Serial, NEW t \in Turns, handler[t] # "over", NEW u \in Turns, t < u
    PROVE  turn[u] = "none" /\ handler[u] = "none"
<1>1. t \in 1..(u - 1)
  BY DEF Turns
<1> QED BY <1>1 DEF Serial

LEMMA ExchangeType ==
    ASSUME TypeOK, NEW t \in Turns
    PROVE  /\ request[t] \in Seq(Message) /\ Exchange(t) \in Seq(Message)
           /\ Len(Exchange(t)) = Len(request[t]) + 1
           /\ Exchange(t)[Len(request[t]) + 1] = Answer(t)
           /\ \A i \in 1..Len(request[t]) : Exchange(t)[i] = request[t][i]
           /\ IsPrefix(request[t], Exchange(t))
<1>1. request[t] \in Seq(Message) /\ Answer(t) \in Message
  BY MessageTypes DEF TypeOK
<1>2. /\ Exchange(t) \in Seq(Message) /\ Len(Exchange(t)) = Len(request[t]) + 1
      /\ Exchange(t)[Len(request[t]) + 1] = Answer(t)
      /\ \A i \in 1..Len(request[t]) : Exchange(t)[i] = request[t][i]
  BY <1>1 DEF Exchange
<1> QED BY <1>1, <1>2, PrefixIff

LEMMA AsksAppend ==
    ASSUME NEW t \in Turns, NEW s \in Seq(Message)
    PROVE  Asks(Append(s, User(t)), t) /\ Front(Append(s, User(t))) = s
           /\ Append(s, User(t)) \in Seq(Message)
<1> DEFINE a == Append(s, User(t))
<1>1. a \in Seq(Message) /\ Len(a) = Len(s) + 1 /\ a[Len(s) + 1] = User(t)
      /\ \A i \in 1..Len(s) : a[i] = s[i]
  BY MessageTypes
<1> HIDE DEF a
<1>2. Asks(a, t)
  BY <1>1 DEF Asks, Last
<1>3. Front(a) = s
  <2>1. a # <<>> /\ Front(a) \in Seq(Message) /\ Len(Front(a)) = Len(s)
        /\ \A i \in 1..Len(s) : Front(a)[i] = a[i]
    BY <1>1, FrontType
  <2> QED BY <1>1, <2>1
<1> QED BY <1>1, <1>2, <1>3 DEF a

LEMMA SerialInit == Init => SerialInv
<1> SUFFICES ASSUME Init PROVE SerialInv
  OBVIOUS
<1>1. TypeOK
  BY CompactionInit DEF CompactionInv, TypesOfJobs
<1> QED BY <1>1 DEF Init, SerialInv, Settled, Serial, Asked, Kept, Wrote, Grown, Found

LEMMA SerialTurns ==
    ASSUME Overlap = FALSE, SerialInv, TurnNext
    PROVE  SerialInv' /\ IsPrefix(history, history')
<1> USE DEF Go, turnVars, jobVars
<1>0. TypeOK' /\ Settled' /\ TypeOK /\ Settled
  BY TurnTypes DEF SerialInv
<1>1. PICK t \in Turns : \/ StartTurn(t) \/ ReadHistory(t) \/ Route(t) \/ StoreAnswer(t)
                         \/ WriteHistory(t) \/ CompleteTurn(t) \/ Schedule(t)
                         \/ FailTurn(t) \/ StopTurn(t)
  BY DEF TurnNext
<1>2. /\ turn \in [Turns -> {"none", "started", "completed", "failed"}]
      /\ handler \in [Turns -> {"none", "started", "read", "routed", "answered",
                                "written", "completed", "over"}]
      /\ messages \in Seq(Message) /\ history \in Seq(Message)
      /\ request \in [Turns -> Seq(Message)] /\ IsPrefix(history, history)
  <2>1. IsPrefix(history, history)
    BY <1>0, PrefixIff DEF TypeOK
  <2> QED BY <1>0, <2>1 DEF TypeOK
<1>3. /\ Serial /\ Asked /\ Kept /\ Grown
      /\ \A u \in Turns : u \in Nat
  BY DEF SerialInv, Turns
<1>4. CASE StartTurn(t)
  <2>1. /\ turn[t] = "none" /\ turn' = [turn EXCEPT ![t] = "started"]
        /\ handler[t] = "none" /\ handler' = [handler EXCEPT ![t] = "started"]
        /\ \A u \in 1..(t - 1) : turn[u] # "none" /\ handler[u] = "over"
        /\ messages' = Append(messages, User(t)) /\ UNCHANGED <<request, history>>
    BY <1>3, <1>4 DEF StartTurn, Serial
  <2>2. Asks(messages', t)
    BY <1>2, <2>1, AsksAppend
  <2>3. Serial'
    BY <1>2, <1>3, <2>1 DEF Serial
  <2>4. \A u \in Turns : u # t => handler[u] \notin {"started", "read", "routed", "answered", "written"}
    <3> SUFFICES ASSUME NEW u \in Turns, u # t
                 PROVE  handler[u] \notin {"started", "read", "routed", "answered", "written"}
      OBVIOUS
    <3>1. u \in 1..(t - 1) \/ t \in 1..(u - 1)
      BY DEF Turns
    <3> QED BY <1>3, <2>1, <3>1 DEF Serial
  <2>5. Asked'
    BY <1>2, <2>1, <2>2, <2>4 DEF Asked
  <2>6. Kept' /\ Grown'
    BY <1>2, <1>3, <2>1 DEF Kept, Wrote, Grown, Found, Exchange
  <2> QED BY <1>0, <1>2, <2>1, <2>3, <2>5, <2>6 DEF SerialInv
<1>5. CASE ReadHistory(t)
  <2>1. /\ handler[t] = "started" /\ handler' = [handler EXCEPT ![t] = "read"]
        /\ UNCHANGED <<turn, messages, history>> /\ turn[t] # "completed"
    BY <1>0, <1>5 DEF ReadHistory, Settled
  <2> DEFINE q == IF history # <<>> THEN Append(history, User(t)) ELSE messages
  <2>2. request' = [request EXCEPT ![t] = q]
    BY <1>5 DEF ReadHistory
  <2>3. Asks(q, t) /\ (history = <<>> \/ Front(q) = history)
    BY <1>2, <1>3, <2>1, AsksAppend DEF Asked
  <2> HIDE DEF q
  <2>4. request'[t] = q /\ \A u \in Turns : u # t => request'[u] = request[u] /\ handler'[u] = handler[u]
    BY <1>2, <2>1, <2>2
  <2>5. Serial'
    BY <1>2, <1>3, <2>1 DEF Serial
  <2>6. Asked'
    <3> SUFFICES ASSUME NEW u \in Turns
                 PROVE  /\ handler'[u] = "started" => Asks(messages', u)
                        /\ handler'[u] \in {"read", "routed", "answered"} =>
                              /\ Asks(request'[u], u)
                              /\ history' = <<>> \/ Front(request'[u]) = history'
      BY DEF Asked, Asks
    <3>1. CASE u = t
      BY <1>2, <2>1, <2>3, <2>4, <3>1
    <3>2. CASE u # t
      BY <1>3, <2>1, <2>4, <3>2 DEF Asked
    <3> QED BY <3>1, <3>2
  <2>7. Kept'
    BY <1>2, <1>3, <2>1, <2>4 DEF Kept, Wrote, Exchange
  <2>8. Grown'
    <3> SUFFICES ASSUME NEW s \in Turns, NEW u \in Turns, s < u, turn[s] = "completed", Found(u)'
                 PROVE  IsPrefix(Append(request'[s], Answer(s)), Front(request'[u]))
      BY <2>1 DEF Grown, Exchange
    <3>1. s # t /\ request'[s] = request[s]
      BY <2>1, <2>4
    <3>2. CASE u = t
      <4>1. IsPrefix(Exchange(s), history)
        BY <1>3 DEF Kept, Wrote
      <4>2. history # <<>>
        BY <1>0, <1>2, <4>1, ExchangeType, PrefixIff
      <4> QED BY <2>3, <2>4, <3>1, <3>2, <4>1, <4>2 DEF Exchange
    <3>3. CASE u # t
      <4>1. Found(u) /\ request'[u] = request[u]
        BY <2>1, <2>4, <3>3 DEF Found
      <4> QED BY <1>3, <3>1, <4>1 DEF Grown, Exchange
    <3> QED BY <3>2, <3>3
  <2> QED BY <1>0, <1>2, <2>1, <2>5, <2>6, <2>7, <2>8 DEF SerialInv
<1>6. CASE Route(t)
  <2>1. /\ handler[t] = "read" /\ handler' = [handler EXCEPT ![t] = "routed"]
        /\ UNCHANGED <<turn, messages, request, history>>
    BY <1>6 DEF Route
  <2>2. Serial' /\ Asked' /\ Kept' /\ Grown'
    BY <1>2, <1>3, <2>1 DEF Serial, Asked, Kept, Wrote, Grown, Found, Exchange
  <2> QED BY <1>0, <1>2, <2>1, <2>2 DEF SerialInv
<1>7. CASE StoreAnswer(t)
  <2>1. /\ handler[t] = "routed" /\ handler' = [handler EXCEPT ![t] = "answered"]
        /\ UNCHANGED <<turn, request, history>>
    BY <1>7 DEF StoreAnswer
  <2>2. \A u \in Turns : handler'[u] # "started"
    <3> SUFFICES ASSUME NEW u \in Turns, handler[u] = "started" PROVE FALSE
      BY <1>2, <2>1
    <3>1. u # t /\ (u \in 1..(t - 1) \/ t \in 1..(u - 1))
      BY <2>1 DEF Turns
    <3> QED BY <1>3, <2>1, <3>1 DEF Serial
  <2>3. Serial' /\ Asked' /\ Kept' /\ Grown'
    BY <1>2, <1>3, <2>1, <2>2 DEF Serial, Asked, Kept, Wrote, Grown, Found, Exchange
  <2> QED BY <1>0, <1>2, <2>1, <2>3 DEF SerialInv
<1>8. CASE WriteHistory(t)
  <2>1. /\ handler[t] = "answered" /\ handler' = [handler EXCEPT ![t] = "written"]
        /\ UNCHANGED <<turn, messages, request>> /\ history' = Exchange(t)
        /\ turn[t] # "completed"
    BY <1>0, <1>8 DEF WriteHistory, Updated, Exchange, Settled
  <2>2. IsPrefix(history, history') /\ history' \in Seq(Message)
    <3>0. history' \in Seq(Message)
      BY <1>0 DEF TypeOK
    <3>1. CASE history = <<>>
      <4>1. \A s \in Seq(Message) : IsPrefix(<<>>, s)
        BY DEF IsPrefix
      <4> QED BY <3>0, <3>1, <4>1
    <3>2. CASE Front(request[t]) = history
      <4>1. IsPrefix(history, request[t]) /\ IsPrefix(request[t], history')
        BY <1>0, <1>2, <2>1, <3>2, FrontType, ExchangeType
      <4> QED BY <1>0, <1>2, <3>0, <4>1, ExchangeType, PrefixTrans
    <3>3. history = <<>> \/ Front(request[t]) = history
      BY <1>3, <2>1 DEF Asked
    <3> QED BY <3>1, <3>2, <3>3
  <2>3. Serial'
    BY <1>2, <1>3, <2>1 DEF Serial
  <2>4. Asked'
    <3>1. \A u \in Turns : u # t => handler[u] \notin {"started", "read", "routed", "answered"}
      <4> SUFFICES ASSUME NEW u \in Turns, u # t
                   PROVE  handler[u] \notin {"started", "read", "routed", "answered"}
        OBVIOUS
      <4>1. u \in 1..(t - 1) \/ t \in 1..(u - 1)
        BY DEF Turns
      <4> QED BY <1>3, <2>1, <4>1 DEF Serial
    <3> QED BY <1>2, <2>1, <3>1 DEF Asked
  <2>5. Kept'
    <3> SUFFICES ASSUME NEW u \in Turns, Wrote(u)'
                 PROVE  Asks(request[u], u) /\ IsPrefix(Exchange(u), history')
      BY <2>1 DEF Kept, Exchange
    <3>1. CASE u = t
      <4>1. IsPrefix(Exchange(t), Exchange(t))
        BY <1>0, ExchangeType, PrefixIff
      <4> QED BY <1>3, <2>1, <3>1, <4>1 DEF Asked
    <3>2. CASE u # t
      <4>1. Wrote(u)
        BY <1>2, <2>1, <3>2 DEF Wrote
      <4>2. Asks(request[u], u) /\ IsPrefix(Exchange(u), history)
        BY <1>3, <4>1 DEF Kept
      <4> QED BY <1>0, <1>2, <2>2, <4>2, ExchangeType, PrefixTrans
    <3> QED BY <3>1, <3>2
  <2>6. Grown'
    BY <1>2, <1>3, <2>1 DEF Grown, Found, Exchange
  <2> QED BY <1>0, <2>2, <2>3, <2>4, <2>5, <2>6 DEF SerialInv
<1>9. CASE CompleteTurn(t)
  <2>1. /\ handler[t] = "written" /\ handler' = [handler EXCEPT ![t] = "completed"]
        /\ turn' = [turn EXCEPT ![t] = "completed"] /\ UNCHANGED <<messages, request, history>>
    BY <1>9 DEF CompleteTurn
  <2>2. Serial' /\ Asked'
    BY <1>2, <1>3, <2>1 DEF Serial, Asked
  <2>3. Kept'
    BY <1>2, <1>3, <2>1 DEF Kept, Wrote, Exchange
  <2>4. Grown'
    <3>1. \A u \in Turns : t < u => turn[u] = "none" /\ handler[u] = "none"
      BY <1>3, <2>1, NoneAfter
    <3> QED BY <1>2, <1>3, <2>1, <3>1 DEF Grown, Found, Exchange
  <2> QED BY <1>0, <1>2, <2>1, <2>2, <2>3, <2>4 DEF SerialInv
<1>10. CASE Schedule(t)
  <2>1. /\ handler[t] = "completed" /\ handler' = [handler EXCEPT ![t] = "over"]
        /\ UNCHANGED <<turn, messages, request, history>>
    BY <1>10 DEF Schedule
  <2>2. Serial' /\ Asked' /\ Kept' /\ Grown'
    BY <1>2, <1>3, <2>1 DEF Serial, Asked, Kept, Wrote, Grown, Found, Exchange
  <2> QED BY <1>0, <1>2, <2>1, <2>2 DEF SerialInv
<1>11. CASE FailTurn(t)
  <2>1. /\ handler[t] = "routed" /\ handler' = [handler EXCEPT ![t] = "over"]
        /\ turn' = [turn EXCEPT ![t] = "failed"]
        /\ UNCHANGED <<messages, request, history>>
    BY <1>11 DEF FailTurn
  <2>2. Serial' /\ Asked' /\ Kept' /\ Grown'
    BY <1>2, <1>3, <2>1 DEF Serial, Asked, Kept, Wrote, Grown, Found, Exchange
  <2> QED BY <1>0, <1>2, <2>1, <2>2 DEF SerialInv
<1>12. CASE StopTurn(t)
  <2>1. /\ handler[t] \notin {"none", "over"} /\ handler' = [handler EXCEPT ![t] = "over"]
        /\ UNCHANGED <<turn, messages, request, history>>
    BY <1>12 DEF StopTurn
  <2>2. Serial' /\ Asked' /\ Kept' /\ Grown'
    BY <1>2, <1>3, <2>1 DEF Serial, Asked, Kept, Wrote, Grown, Found, Exchange
  <2> QED BY <1>0, <1>2, <2>1, <2>2 DEF SerialInv
<1> QED BY <1>1, <1>4, <1>5, <1>6, <1>7, <1>8, <1>9, <1>10, <1>11, <1>12

LEMMA SerialStep ==
    ASSUME Overlap = FALSE, CompactionInv, SerialInv, [Next]_vars
    PROVE  CompactionInv' /\ SerialInv' /\ IsPrefix(history, history')
<1>0. CompactionInv'
  BY CompactionStep
<1>1. IsPrefix(history, history)
  BY PrefixIff DEF SerialInv, TypeOK
<1>2. ASSUME UNCHANGED turnVars PROVE SerialInv' /\ IsPrefix(history, history')
  <2>1. UNCHANGED <<turn, handler, messages, request, history>>
    BY <1>2 DEF turnVars
  <2>2. Serial' /\ Asked' /\ Kept' /\ Grown'
    BY <2>1 DEF SerialInv, Serial, Asked, Asks, Kept, Wrote, Grown, Found, Exchange
  <2>3. TypeOK' /\ Settled'
    BY <1>0 DEF CompactionInv, TypesOfJobs
  <2> QED BY <1>1, <2>1, <2>2, <2>3 DEF SerialInv
<1>3. CASE UNCHANGED vars
  BY <1>0, <1>2, <1>3 DEF vars, turnVars
<1>4. CASE JobNext
  <2>1. UNCHANGED turnVars
    BY <1>4 DEF JobNext, TakeJob, ClaimJob, Plan, Recheck, CommitArtifact, EndJob
  <2> QED BY <1>0, <1>2, <2>1
<1>5. CASE TurnNext
  BY <1>0, <1>5, SerialTurns
<1> QED BY <1>3, <1>4, <1>5 DEF Next

LEMMA SerialMap ==
    ASSUME SerialInv
    PROVE  MapStaysComplete /\ ExchangesKept
<1>1. /\ TypeOK /\ Kept /\ Grown /\ history \in Seq(Message)
      /\ \A u \in Turns : u \in Nat
  BY DEF SerialInv, TypeOK, Turns
<1>2. ASSUME NEW t \in Turns, turn[t] = "completed"
      PROVE  /\ Len(request[t]) \in Nat /\ Len(request[t]) # 0
             /\ Len(request[t]) + 1 <= Len(history)
             /\ history[Len(request[t])] = User(t) /\ history[Len(request[t]) + 1] = Answer(t)
             /\ IsPrefix(request[t], history)
  <2>1. Asks(request[t], t) /\ IsPrefix(Exchange(t), history) /\ request[t] \in Seq(Message)
    BY <1>1, <1>2 DEF Kept, Wrote, TypeOK
  <2>2. Len(request[t]) \in Nat /\ Len(request[t]) # 0 /\ request[t][Len(request[t])] = User(t)
    BY <2>1 DEF Asks, Last
  <2> DEFINE e == Exchange(t)
  <2>e. /\ e \in Seq(Message) /\ IsPrefix(request[t], e)
        /\ Len(e) = Len(request[t]) + 1 /\ e[Len(request[t]) + 1] = Answer(t)
        /\ \A i \in 1..Len(request[t]) : e[i] = request[t][i]
    BY <1>1, ExchangeType
  <2>h. IsPrefix(e, history)
    BY <2>1
  <2>3. Len(Exchange(t)) <= Len(history) /\ \A i \in 1..Len(Exchange(t)) : Exchange(t)[i] = history[i]
    <3> HIDE DEF e
    <3>1. Len(e) <= Len(history) /\ \A i \in 1..Len(e) : e[i] = history[i]
      BY <1>1, <2>e, <2>h, PrefixIff
    <3> QED BY <3>1 DEF e
  <2>4. IsPrefix(request[t], history)
    <3> HIDE DEF e
    <3> QED BY <1>1, <2>1, <2>e, <2>h, PrefixTrans
  <2>5. Len(e) <= Len(history) /\ \A i \in 1..Len(e) : e[i] = history[i]
    BY <2>3
  <2> HIDE DEF e
  <2>6. \A i \in 1..(Len(request[t]) + 1) : e[i] = history[i]
    BY <2>e, <2>5
  <2>7. Len(request[t]) + 1 \in 1..(Len(request[t]) + 1) /\ Len(request[t]) \in 1..(Len(request[t]) + 1)
        /\ Len(request[t]) \in 1..Len(request[t])
    BY <2>2
  <2> QED BY <2>2, <2>4, <2>e, <2>5, <2>6, <2>7
<1>3. ExchangesKept
  <2> SUFFICES ASSUME NEW t \in Turns, turn[t] = "completed"
               PROVE  \E i \in 1..(Len(history) - 1) : history[i] = User(t) /\ history[i + 1] = Answer(t)
    BY DEF ExchangesKept
  <2> DEFINE n == Len(request[t])
  <2>1. n \in Nat /\ n # 0 /\ n + 1 <= Len(history) /\ Len(history) \in Nat
        /\ history[n] = User(t) /\ history[n + 1] = Answer(t)
    BY <1>1, <1>2
  <2> HIDE DEF n
  <2>2. n \in 1..(Len(history) - 1)
    BY <2>1
  <2> QED BY <2>1, <2>2
<1>4. MapStaysComplete
  <2> SUFFICES ASSUME Completed # <<>> PROVE MapComplete
    BY DEF MapStaysComplete
  <2>1. /\ Len(Completed) \in Nat /\ Len(Completed) # 0 /\ Rising(Completed)
        /\ DOMAIN Completed = 1..Len(Completed)
        /\ \A i \in 1..Len(Completed) : Completed[i] \in Turns /\ turn[Completed[i]] = "completed"
    BY CompletedFacts DEF Done
  <2>2. history # <<>>
    BY <1>1, <1>2, <2>1
  <2>3. ASSUME NEW i \in 1..Len(Completed) PROVE Maps(i)
    <3>1. CASE i < Len(Completed)
      <4> DEFINE s == Completed[i]
                 t == Completed[i + 1]
      <4>1. i + 1 \in 1..Len(Completed) /\ i < i + 1
        BY <2>1, <3>1
      <4>2. s \in Turns /\ t \in Turns /\ turn[s] = "completed" /\ turn[t] = "completed"
        BY <2>1, <4>1
      <4>3. s < t
        BY <2>1, <4>1 DEF Rising
      <4>4. After(i) = Front(request[t])
        BY <3>1 DEF After, Before
      <4>5. Maps(i) <=> IsPrefix(request[s], Front(request[t]))
        BY <4>4 DEF Maps
      <4> HIDE DEF s, t
      <4>6. IsPrefix(Exchange(s), Front(request[t])) /\ Front(request[t]) \in Seq(Message)
        BY <1>1, <4>2, <4>3, FrontType DEF Grown, Found, TypeOK
      <4>7. IsPrefix(request[s], Front(request[t]))
        BY <1>1, <4>2, <4>6, ExchangeType, PrefixTrans
      <4> QED BY <4>5, <4>7
    <3>2. CASE ~(i < Len(Completed))
      BY <1>2, <2>1, <3>2 DEF Maps, After
    <3> QED BY <3>1, <3>2
  <2> QED BY <2>1, <2>2, <2>3 DEF MapComplete
<1> QED BY <1>3, <1>4

\* When turns follow one another, the history is the conversation: no completed
\* exchange leaves it, and the map from turns to it can always be built.
THEOREM SerialHistoryKept == ASSUME Overlap = FALSE PROVE Spec => []HistoryKept
<1>1. Init => CompactionInv /\ SerialInv
  BY CompactionInit, SerialInit
<1>2. CompactionInv /\ SerialInv /\ [Next]_vars => (CompactionInv /\ SerialInv)'
  BY SerialStep
<1>3. CompactionInv /\ SerialInv => HistoryKept
  BY SerialMap DEF HistoryKept, SerialInv
<1> QED BY <1>1, <1>2, <1>3, PTL DEF Spec

\* When turns follow one another, no step takes anything out of the history.
THEOREM SerialHistoryAppendOnly == ASSUME Overlap = FALSE PROVE Spec => HistoryAppendOnly
<1>1. Init => CompactionInv /\ SerialInv
  BY CompactionInit, SerialInit
<1>2. CompactionInv /\ SerialInv /\ [Next]_vars => (CompactionInv /\ SerialInv)'
  BY SerialStep
<1>3. CompactionInv /\ SerialInv /\ [Next]_vars => [IsPrefix(history, history')]_history
  BY SerialStep
<1> QED BY <1>1, <1>2, <1>3, PTL DEF Spec, HistoryAppendOnly

-----------------------------------------------------------------------------
\* Turns that follow one another: the derived view is the conversation.

\* A summary stands for the turns before a completed one: it was made from exactly
\* what that turn found.
Stands(v, covered, summed) ==
    /\ covered = InOrder({u \in Done : u < v})
    /\ summed = ToSet(Front(request[v]))
Exactly(covered, summed) == \E v \in Done : Stands(v, covered, summed)
StaysExact(covered, summed) ==
    \E v \in Done' : /\ covered = InOrder({u \in Done' : u < v})
                     /\ summed = ToSet(Front(request'[v]))

SummariesStand ==
    /\ \A r \in Runners : runner[r].at \in {"model", "commit"} =>
          Exactly(runner[r].target, runner[r].summed)
    /\ \A g \in DOMAIN artifacts : Exactly(artifacts[g].covered, artifacts[g].summed)

\* No message is stored twice: what is in the messages and in the history is of
\* turns that came that far, what a request found is of turns that are over.
MessagesFresh ==
    /\ NoTwice(messages)
    /\ \A i \in 1..Len(messages) :
          /\ turn[messages[i].turn] # "none"
          /\ messages[i].role = "assistant" =>
                handler[messages[i].turn] \notin {"started", "read", "routed"}
HistoryFresh ==
    /\ NoTwice(history)
    /\ \A i \in 1..Len(history) : handler[history[i].turn] \in {"written", "completed", "over"}
RequestsFresh ==
    \A t \in Turns : handler[t] \in {"read", "routed", "answered"} =>
        /\ NoTwice(request[t])
        /\ \A i \in 1..(Len(request[t]) - 1) : handler[request[t][i].turn] = "over"

Fresh == MessagesFresh /\ HistoryFresh /\ RequestsFresh

FaithInv ==
    CompactionInv /\ SerialInv /\ SummariesStand /\ Fresh /\ DOMAIN view = Turns /\ ViewIsWhole

\* Appending one message.
LEMMA AppendFacts ==
    ASSUME NEW s \in Seq(Message), NEW m \in Message
    PROVE  /\ Append(s, m) \in Seq(Message) /\ Len(Append(s, m)) = Len(s) + 1
           /\ Append(s, m)[Len(s) + 1] = m /\ \A i \in 1..Len(s) : Append(s, m)[i] = s[i]
           /\ ToSet(Append(s, m)) = ToSet(s) \cup {m}
           /\ NoTwice(s) /\ m \notin ToSet(s) => NoTwice(Append(s, m))
<1> DEFINE a == Append(s, m)
<1>1. /\ a \in Seq(Message) /\ Len(a) = Len(s) + 1 /\ Len(s) \in Nat
      /\ a[Len(s) + 1] = m /\ \A i \in 1..Len(s) : a[i] = s[i]
  OBVIOUS
<1> HIDE DEF a
<1>2. ToSet(a) = {a[i] : i \in 1..Len(a)} /\ ToSet(s) = {s[i] : i \in 1..Len(s)}
  BY <1>1, ToSetIs
<1>3. /\ \A i \in 1..Len(a) : i \in 1..Len(s) \/ i = Len(s) + 1
      /\ \A i \in 1..Len(s) : i \in 1..Len(a)
      /\ Len(s) + 1 \in 1..Len(a)
  BY <1>1
<1>4. ToSet(a) = ToSet(s) \cup {m}
  BY <1>1, <1>2, <1>3
<1>5. ASSUME NoTwice(s), m \notin ToSet(s) PROVE NoTwice(a)
  BY <1>1, <1>2, <1>3, <1>5 DEF NoTwice
<1> QED BY <1>1, <1>4, <1>5 DEF a

\* Where such a summary ends in the map, and what it is the sum of.
LEMMA StandsAt ==
    ASSUME TypeOK, MapComplete, NEW v \in Done, NEW covered, NEW summed, Stands(v, covered, summed)
    PROVE  \E k \in 1..Len(Completed) :
               /\ Completed[k] = v /\ covered = SubSeq(Completed, 1, k - 1) /\ Len(covered) = k - 1
               /\ summed = ToSet(Mapped[k])
               /\ summed = ToSet(LegacyPrefix) \cup UNION {ToSet(Unit(i)) : i \in 1..(k - 1)}
<1>1. Completed = InOrder(Done) /\ Done \in SUBSET Turns /\ Len(Completed) \in Nat
  BY CompletedFacts
<1>2. PICK k \in 1..Len(Completed) :
          /\ Completed[k] = v
          /\ InOrder({u \in Done : u < v}) = SubSeq(Completed, 1, k - 1)
          /\ Len(InOrder({u \in Done : u < v})) = k - 1
  <2> DEFINE S == Done
  <2>1. S \in SUBSET Turns /\ v \in S /\ Completed = InOrder(S)
    BY <1>1
  <2> HIDE DEF S
  <2>2. \E k \in 1..Len(InOrder(S)) :
           /\ InOrder(S)[k] = v
           /\ InOrder({u \in S : u < v}) = SubSeq(InOrder(S), 1, k - 1)
           /\ Len(InOrder({u \in S : u < v})) = k - 1
    BY <2>1, OrderBefore
  <2> QED BY <2>1, <2>2 DEF S
<1>3. Mapped[k] = Front(request[v])
  BY <1>2, MapIsChain DEF Before
<1>4. k \in 1..(Len(Completed) + 1) /\ Completed # <<>>
  BY <1>1
<1>5. ToSet(Mapped[k]) = ToSet(LegacyPrefix) \cup UNION {ToSet(Unit(i)) : i \in 1..(k - 1)}
  BY <1>4, UnitsCover
<1> QED BY <1>2, <1>3, <1>5 DEF Stands

\* Turns that complete later than all others change nothing a summary stands for.
LEMMA DoneGrows ==
    ASSUME TypeOK, Settled, Serial, TurnNext
    PROVE  \A covered, summed : Exactly(covered, summed) => StaysExact(covered, summed)
<1>1. \A v \in Done : v \in Done' /\ request'[v] = request[v]
  BY TurnTypes
<1>2. \A u \in Turns : turn'[u] # turn[u] => handler[u] # "over"
  <2>1. PICK t \in Turns : \/ StartTurn(t) \/ ReadHistory(t) \/ Route(t) \/ StoreAnswer(t)
                           \/ WriteHistory(t) \/ CompleteTurn(t) \/ Schedule(t)
                           \/ FailTurn(t) \/ StopTurn(t)
    BY DEF TurnNext
  <2>2. turn' = turn \/ (handler[t] # "over" /\ \E x : turn' = [turn EXCEPT ![t] = x])
    BY <2>1 DEF StartTurn, ReadHistory, Route, StoreAnswer, WriteHistory, CompleteTurn, Schedule,
       FailTurn, StopTurn, Serial
  <2> QED BY <2>2 DEF TypeOK
<1>3. ASSUME NEW v \in Done PROVE {u \in Done' : u < v} = {u \in Done : u < v}
  <2>1. ASSUME NEW u \in Done', u < v PROVE u \in Done
    <3>1. u \in Turns /\ v \in Turns /\ turn[v] = "completed" /\ u \in 1..(v - 1)
      BY <2>1 DEF Done, Turns
    <3>2. handler[u] = "over"
      BY <3>1 DEF Serial
    <3> QED BY <1>2, <3>1, <3>2 DEF Done
  <2> QED BY <1>1, <2>1
<1> SUFFICES ASSUME NEW covered, NEW summed, Exactly(covered, summed)
             PROVE  StaysExact(covered, summed)
  OBVIOUS
<1>4. PICK v \in Done : Stands(v, covered, summed)
  BY DEF Exactly
<1>5. v \in Done' /\ covered = InOrder({u \in Done' : u < v}) /\ summed = ToSet(Front(request'[v]))
  BY <1>1, <1>3, <1>4 DEF Stands
<1> QED BY <1>5 DEF StaysExact

LEMMA StartFresh ==
    ASSUME TypeOK, Settled, Serial, Asked, Fresh, NEW t \in Turns, StartTurn(t)
    PROVE  Fresh'
<1>1. /\ turn[t] = "none" /\ turn' = [turn EXCEPT ![t] = "started"]
      /\ handler[t] = "none" /\ handler' = [handler EXCEPT ![t] = "started"]
      /\ messages' = Append(messages, User(t)) /\ UNCHANGED <<request, history>>
      /\ messages \in Seq(Message) /\ history \in Seq(Message) /\ User(t) \in Message
      /\ turn \in [Turns -> {"none", "started", "completed", "failed"}]
      /\ handler \in [Turns -> {"none", "started", "read", "routed", "answered",
                                "written", "completed", "over"}]
      /\ request \in [Turns -> Seq(Message)]
  BY MessageTypes DEF StartTurn, Go, TypeOK, Serial
<1>2. \A m \in Message : m.turn \in Turns /\ m.role \in {"user", "assistant"}
  BY DEF Message
<1>3. User(t).turn = t /\ User(t).role = "user"
  BY DEF User
<1>4. \A i \in 1..Len(messages) : messages[i].turn \in Turns /\ messages[i].turn # t
  BY <1>1, <1>2 DEF Fresh, MessagesFresh
<1>5. User(t) \notin ToSet(messages)
  <2>1. ToSet(messages) = {messages[i] : i \in 1..Len(messages)}
    BY <1>1, ToSetIs
  <2> QED BY <1>3, <1>4, <2>1
<1>6. MessagesFresh'
  <2>1. /\ Len(messages') = Len(messages) + 1 /\ messages'[Len(messages) + 1] = User(t)
        /\ \A i \in 1..Len(messages) : messages'[i] = messages[i]
        /\ NoTwice(messages') /\ Len(messages) \in Nat
    BY <1>1, <1>5, AppendFacts DEF Fresh, MessagesFresh
  <2>2. ASSUME NEW i \in 1..Len(messages')
        PROVE  /\ turn'[messages'[i].turn] # "none"
               /\ messages'[i].role = "assistant" =>
                     handler'[messages'[i].turn] \notin {"started", "read", "routed"}
    <3>1. CASE i \in 1..Len(messages)
      BY <1>1, <1>4, <2>1, <3>1 DEF Fresh, MessagesFresh
    <3>2. CASE i = Len(messages) + 1
      BY <1>1, <1>3, <2>1, <3>2
    <3> QED BY <2>1, <3>1, <3>2
  <2> QED BY <2>1, <2>2 DEF MessagesFresh, NoTwice
<1>7. HistoryFresh'
  <2>1. \A i \in 1..Len(history) : history[i].turn \in Turns
    BY <1>1, <1>2
  <2> QED BY <1>1, <2>1 DEF Fresh, HistoryFresh, NoTwice
<1>8. RequestsFresh'
  <2>1. \A u \in Turns : \A i \in 1..(Len(request[u]) - 1) : request[u][i].turn \in Turns
    BY <1>1, <1>2
  <2> QED BY <1>1, <2>1 DEF Fresh, RequestsFresh, NoTwice
<1> QED BY <1>6, <1>7, <1>8 DEF Fresh

LEMMA ReadFresh ==
    ASSUME TypeOK, Settled, Serial, Asked, Fresh, NEW t \in Turns, ReadHistory(t)
    PROVE  Fresh'
<1> DEFINE q == IF history # <<>> THEN Append(history, User(t)) ELSE messages
<1>1. /\ handler[t] = "started" /\ handler' = [handler EXCEPT ![t] = "read"]
      /\ UNCHANGED <<turn, messages, history>> /\ request' = [request EXCEPT ![t] = q]
      /\ messages \in Seq(Message) /\ history \in Seq(Message) /\ User(t) \in Message
      /\ turn \in [Turns -> {"none", "started", "completed", "failed"}]
      /\ handler \in [Turns -> {"none", "started", "read", "routed", "answered",
                                "written", "completed", "over"}]
      /\ request \in [Turns -> Seq(Message)]
  BY MessageTypes DEF ReadHistory, Go, TypeOK
<1>2. \A m \in Message : m.turn \in Turns /\ m.role \in {"user", "assistant"}
                         /\ (m.turn = t /\ m.role = "user" => m = User(t))
  BY DEF Message, User
<1>3. User(t).turn = t /\ User(t).role = "user"
  BY DEF User
<1>4. \A u \in Turns : u # t /\ turn[u] # "none" => handler[u] = "over"
  <2> SUFFICES ASSUME NEW u \in Turns, u # t, turn[u] # "none" PROVE handler[u] = "over"
    OBVIOUS
  <2>1. u \in 1..(t - 1) \/ t \in 1..(u - 1)
    BY DEF Turns
  <2> QED BY <1>1, <2>1 DEF Serial
<1>5. NoTwice(q) /\ \A i \in 1..(Len(q) - 1) : q[i].turn \in Turns /\ q[i].turn # t /\ turn[q[i].turn] # "none"
  <2>1. CASE history # <<>>
    <3>1. \A i \in 1..Len(history) :
              history[i].turn \in Turns /\ history[i].turn # t /\ turn[history[i].turn] # "none"
      <4>1. \A i \in 1..Len(history) : history[i].turn \in Turns
        BY <1>1, <1>2
      <4>2. \A i \in 1..Len(history) : handler[history[i].turn] \in {"written", "completed", "over"}
        BY DEF Fresh, HistoryFresh
      <4>3. \A u \in Turns : turn[u] = "none" => handler[u] = "none"
        BY DEF Serial
      <4> QED BY <1>1, <4>1, <4>2, <4>3
    <3>2. User(t) \notin ToSet(history)
      <4>1. ToSet(history) = {history[i] : i \in 1..Len(history)}
        BY <1>1, ToSetIs
      <4> QED BY <1>3, <3>1, <4>1
    <3> DEFINE a == Append(history, User(t))
    <3>3. /\ Len(a) = Len(history) + 1 /\ \A i \in 1..Len(history) : a[i] = history[i]
          /\ NoTwice(a) /\ Len(history) \in Nat
      BY <1>1, <3>2, AppendFacts DEF Fresh, HistoryFresh
    <3>4. q = a
      BY <2>1
    <3> HIDE DEF q, a
    <3> QED BY <3>1, <3>3, <3>4
  <2>2. CASE history = <<>>
    <3>1. q = messages /\ NoTwice(messages) /\ Asks(messages, t)
      BY <1>1, <2>2 DEF Fresh, MessagesFresh, Asked
    <3>2. Len(messages) \in Nat /\ messages[Len(messages)] = User(t) /\ Len(messages) # 0
      BY <1>1, <3>1 DEF Asks, Last
    <3>3. ASSUME NEW i \in 1..(Len(messages) - 1)
          PROVE  messages[i].turn \in Turns /\ messages[i].turn # t /\ turn[messages[i].turn] # "none"
      <4>1. i \in 1..Len(messages) /\ Len(messages) \in 1..Len(messages) /\ i # Len(messages)
        BY <3>2
      <4>2. messages[i] # User(t) /\ messages[i] \in Message
        BY <1>1, <3>1, <3>2, <4>1 DEF NoTwice
      <4>3. turn[messages[i].turn] # "none"
            /\ (messages[i].role = "assistant" => handler[messages[i].turn] # "started")
        BY <4>1 DEF Fresh, MessagesFresh
      <4> QED BY <1>1, <1>2, <4>2, <4>3
    <3> HIDE DEF q
    <3> QED BY <3>1, <3>3
  <2> QED BY <2>1, <2>2
<1> HIDE DEF q
<1>6. MessagesFresh'
  <2>1. \A i \in 1..Len(messages) : messages[i].turn \in Turns
    BY <1>1, <1>2
  <2>2. \A i \in 1..Len(messages) :
            messages[i].role = "assistant" => handler[messages[i].turn] \notin {"started", "read", "routed"}
    BY DEF Fresh, MessagesFresh
  <2> QED BY <1>1, <2>1, <2>2 DEF Fresh, MessagesFresh, NoTwice
<1>7. HistoryFresh'
  <2>1. \A i \in 1..Len(history) : history[i].turn \in Turns
    BY <1>1, <1>2
  <2> QED BY <1>1, <2>1 DEF Fresh, HistoryFresh, NoTwice
<1>8. RequestsFresh'
  <2> SUFFICES ASSUME NEW u \in Turns, handler'[u] \in {"read", "routed", "answered"}
               PROVE  /\ NoTwice(request'[u])
                      /\ \A i \in 1..(Len(request'[u]) - 1) : handler'[request'[u][i].turn] = "over"
    BY DEF RequestsFresh, NoTwice
  <2>1. u = t
    <3>1. u # t => handler[u] = "over" \/ handler[u] = "none"
      BY <1>4 DEF Serial
    <3> QED BY <1>1, <3>1
  <2>2. request'[u] = q
    BY <1>1, <2>1
  <2>3. \A i \in 1..(Len(q) - 1) : handler'[q[i].turn] = "over"
    BY <1>1, <1>4, <1>5
  <2> QED BY <1>5, <2>2, <2>3
<1> QED BY <1>6, <1>7, <1>8 DEF Fresh

LEMMA AnswerFresh ==
    ASSUME TypeOK, Settled, Serial, Asked, Fresh, NEW t \in Turns, StoreAnswer(t)
    PROVE  Fresh'
<1>1. /\ handler[t] = "routed" /\ handler' = [handler EXCEPT ![t] = "answered"]
      /\ messages' = Append(messages, Answer(t)) /\ UNCHANGED <<turn, request, history>>
      /\ messages \in Seq(Message) /\ history \in Seq(Message) /\ Answer(t) \in Message
      /\ turn \in [Turns -> {"none", "started", "completed", "failed"}]
      /\ handler \in [Turns -> {"none", "started", "read", "routed", "answered",
                                "written", "completed", "over"}]
      /\ request \in [Turns -> Seq(Message)] /\ turn[t] # "none"
  BY MessageTypes DEF StoreAnswer, Go, TypeOK, Serial
<1>2. \A m \in Message : m.turn \in Turns
  BY DEF Message
<1>3. Answer(t).turn = t /\ Answer(t).role = "assistant"
  BY DEF Answer
<1>4. \A i \in 1..Len(messages) : messages[i].turn \in Turns /\ messages[i] # Answer(t)
  BY <1>1, <1>2, <1>3 DEF Fresh, MessagesFresh
<1>5. Answer(t) \notin ToSet(messages)
  <2>1. ToSet(messages) = {messages[i] : i \in 1..Len(messages)}
    BY <1>1, ToSetIs
  <2> QED BY <1>4, <2>1
<1>6. MessagesFresh'
  <2>1. /\ Len(messages') = Len(messages) + 1 /\ messages'[Len(messages) + 1] = Answer(t)
        /\ \A i \in 1..Len(messages) : messages'[i] = messages[i]
        /\ NoTwice(messages') /\ Len(messages) \in Nat
    BY <1>1, <1>5, AppendFacts DEF Fresh, MessagesFresh
  <2>2. ASSUME NEW i \in 1..Len(messages')
        PROVE  /\ turn'[messages'[i].turn] # "none"
               /\ messages'[i].role = "assistant" =>
                     handler'[messages'[i].turn] \notin {"started", "read", "routed"}
    <3>1. CASE i \in 1..Len(messages)
      BY <1>1, <1>4, <2>1, <3>1 DEF Fresh, MessagesFresh
    <3>2. CASE i = Len(messages) + 1
      BY <1>1, <1>3, <2>1, <3>2
    <3> QED BY <2>1, <3>1, <3>2
  <2> QED BY <2>1, <2>2 DEF MessagesFresh, NoTwice
<1>7. HistoryFresh'
  <2>1. \A i \in 1..Len(history) : history[i].turn \in Turns
    BY <1>1, <1>2
  <2> QED BY <1>1, <2>1 DEF Fresh, HistoryFresh, NoTwice
<1>8. RequestsFresh'
  <2>1. \A u \in Turns : \A i \in 1..(Len(request[u]) - 1) : request[u][i].turn \in Turns
    BY <1>1, <1>2
  <2> QED BY <1>1, <2>1 DEF Fresh, RequestsFresh, NoTwice
<1> QED BY <1>6, <1>7, <1>8 DEF Fresh

LEMMA WriteFresh ==
    ASSUME TypeOK, Settled, Serial, Asked, Fresh, NEW t \in Turns, WriteHistory(t)
    PROVE  Fresh'
<1> DEFINE q == request[t]
           n == Len(q)
<1>1. /\ handler[t] = "answered" /\ handler' = [handler EXCEPT ![t] = "written"]
      /\ history' = Append(q, Answer(t)) /\ UNCHANGED <<turn, messages, request>>
      /\ messages \in Seq(Message) /\ Answer(t) \in Message
      /\ turn \in [Turns -> {"none", "started", "completed", "failed"}]
      /\ handler \in [Turns -> {"none", "started", "read", "routed", "answered",
                                "written", "completed", "over"}]
      /\ request \in [Turns -> Seq(Message)] /\ turn[t] # "none"
  BY MessageTypes DEF WriteHistory, Updated, Go, TypeOK, Serial
<1>2. \A m \in Message : m.turn \in Turns
  BY DEF Message
<1>3. /\ Answer(t).turn = t /\ Answer(t).role = "assistant"
      /\ User(t).turn = t /\ User(t).role = "user"
  BY DEF Answer, User
<1>4. /\ q \in Seq(Message) /\ q # <<>> /\ n \in Nat /\ n # 0 /\ q[n] = User(t) /\ NoTwice(q)
      /\ \A i \in 1..(n - 1) : handler[q[i].turn] = "over"
  BY <1>1 DEF Asked, Asks, Last, Fresh, RequestsFresh
<1> HIDE DEF q, n
<1>5. \A i \in 1..n : i \in 1..(n - 1) \/ i = n
  BY <1>4
<1>6. \A i \in 1..n : q[i].turn \in Turns /\ q[i] # Answer(t)
                      /\ (handler[q[i].turn] = "over" \/ q[i].turn = t)
  BY <1>1, <1>2, <1>3, <1>4, <1>5 DEF n
<1>7. HistoryFresh'
  <2>1. Answer(t) \notin ToSet(q)
    <3>1. ToSet(q) = {q[i] : i \in 1..n}
      BY <1>4, ToSetIs DEF n
    <3> QED BY <1>6, <3>1
  <2>2. /\ Len(history') = n + 1 /\ history'[n + 1] = Answer(t)
        /\ \A i \in 1..n : history'[i] = q[i]
        /\ NoTwice(history')
    BY <1>1, <1>4, <2>1, AppendFacts DEF n
  <2>3. ASSUME NEW i \in 1..Len(history')
        PROVE  handler'[history'[i].turn] \in {"written", "completed", "over"}
    <3>1. CASE i \in 1..n
      BY <1>1, <1>6, <2>2, <3>1
    <3>2. CASE i = n + 1
      BY <1>1, <1>3, <2>2, <3>2
    <3> QED BY <1>4, <2>2, <3>1, <3>2
  <2> QED BY <2>2, <2>3 DEF HistoryFresh, NoTwice
<1>8. MessagesFresh'
  <2>1. \A i \in 1..Len(messages) : messages[i].turn \in Turns
    BY <1>1, <1>2
  <2> QED BY <1>1, <2>1 DEF Fresh, MessagesFresh, NoTwice
<1>9. RequestsFresh'
  <2>1. \A u \in Turns : \A i \in 1..(Len(request[u]) - 1) : request[u][i].turn \in Turns
    BY <1>1, <1>2
  <2> QED BY <1>1, <2>1 DEF Fresh, RequestsFresh, NoTwice
<1> QED BY <1>7, <1>8, <1>9 DEF Fresh

\* The other steps of a turn only move its handler, and never back.
LEMMA OthersFresh ==
    ASSUME TypeOK, Settled, Serial, Asked, Fresh, NEW t \in Turns,
           \/ Route(t) \/ CompleteTurn(t) \/ Schedule(t) \/ FailTurn(t) \/ StopTurn(t)
    PROVE  Fresh'
<1>1. \E x \in {"routed", "completed", "over"} :
          /\ handler' = [handler EXCEPT ![t] = x]
          /\ x = "routed" => handler[t] = "read"
          /\ handler[t] = "over" => x = "over"
  BY DEF Route, CompleteTurn, Schedule, FailTurn, StopTurn, Go
<1>2. /\ UNCHANGED <<messages, request, history>>
      /\ \A u \in Turns : turn[u] # "none" => turn'[u] # "none"
  BY DEF Route, CompleteTurn, Schedule, FailTurn, StopTurn, TypeOK
<1>3. /\ handler \in [Turns -> {"none", "started", "read", "routed", "answered",
                                "written", "completed", "over"}]
      /\ messages \in Seq(Message) /\ history \in Seq(Message) /\ request \in [Turns -> Seq(Message)]
  BY DEF TypeOK
<1>4. \A m \in Message : m.turn \in Turns
  BY DEF Message
<1>5. /\ \A i \in 1..Len(messages) : messages[i].turn \in Turns
      /\ \A i \in 1..Len(history) : history[i].turn \in Turns
      /\ \A u \in Turns : \A i \in 1..(Len(request[u]) - 1) : request[u][i].turn \in Turns
  BY <1>3, <1>4
<1>6. MessagesFresh'
  BY <1>1, <1>2, <1>3, <1>5 DEF Fresh, MessagesFresh, NoTwice
<1>7. HistoryFresh'
  BY <1>1, <1>2, <1>3, <1>5 DEF Fresh, HistoryFresh, NoTwice
<1>8. RequestsFresh'
  BY <1>1, <1>2, <1>3, <1>5 DEF Fresh, RequestsFresh, NoTwice
<1> QED BY <1>6, <1>7, <1>8 DEF Fresh

\* The exact tail of a derived view holds the slices after the covered turns.
LEMMA TailIs ==
    ASSUME TypeOK, MapComplete, NEW n \in 0..Len(Completed)
    PROVE  /\ ExactTail(n) \in Seq(Message)
           /\ \A x : x \in ToSet(ExactTail(n)) <=>
                         \E j \in (n + 1)..Len(Completed) : x \in ToSet(Unit(j))
<1> DEFINE len == Len(Completed)
           s == [i \in 1..(len - n) |-> Unit(n + i)]
<1>1. len \in Nat /\ n \in Nat /\ n <= len /\ len - n \in Nat
  BY CompletedFacts
<1> HIDE DEF len
<1>2. \A i \in 1..(len - n) : n + i \in (n + 1)..len /\ n + i \in 1..len
  BY <1>1
<1>3. \A j \in (n + 1)..len : j - n \in 1..(len - n) /\ n + (j - n) = j
  BY <1>1
<1>4. s \in Seq(Seq(Message)) /\ Len(s) = len - n /\ \A i \in 1..(len - n) : s[i] = Unit(n + i)
  <2>1. \A i \in 1..(len - n) : Unit(n + i) \in Seq(Message)
    BY <1>2, UnitTypes DEF len
  <2> QED BY <1>1, <2>1
<1>5. ExactTail(n) = FlattenSeq(s)
  BY DEF ExactTail, len
<1> HIDE DEF s
<1>6. /\ FlattenSeq(s) \in Seq(Message)
      /\ \A x : x \in ToSet(FlattenSeq(s)) <=> \E i \in 1..Len(s) : x \in ToSet(s[i])
  BY <1>4, Flattened
<1>7. \A x : (\E i \in 1..Len(s) : x \in ToSet(s[i])) <=> \E j \in (n + 1)..len : x \in ToSet(Unit(j))
  <2> SUFFICES ASSUME NEW x
               PROVE  (\E i \in 1..Len(s) : x \in ToSet(s[i])) <=>
                          \E j \in (n + 1)..len : x \in ToSet(Unit(j))
    OBVIOUS
  <2>1. ASSUME NEW i \in 1..Len(s), x \in ToSet(s[i])
        PROVE  \E j \in (n + 1)..len : x \in ToSet(Unit(j))
    BY <1>2, <1>4, <2>1
  <2>2. ASSUME NEW j \in (n + 1)..len, x \in ToSet(Unit(j))
        PROVE  \E i \in 1..Len(s) : x \in ToSet(s[i])
    <3>1. j - n \in 1..Len(s) /\ s[j - n] = Unit(j)
      BY <1>3, <1>4
    <3> QED BY <2>2, <3>1
  <2> QED BY <2>1, <2>2
<1> QED BY <1>5, <1>6, <1>7 DEF len

\* What Route gives the model is the whole request, nothing of it twice.
LEMMA RouteWhole ==
    ASSUME CompactionInv, SerialInv, SummariesStand, Fresh, DOMAIN view = Turns,
           NEW t \in Turns, Route(t)
    PROVE  /\ ToSet(view'[t].exact) \cup view'[t].summed = ToSet(request[t])
           /\ ToSet(view'[t].exact) \cap view'[t].summed = {}
<1> DEFINE a == artifacts[Latest]
           Derived == MapComplete /\ Latest # 0 /\ Valid(a)
           tail == ExactTail(Len(a.covered))
           new == IF Derived THEN [summed |-> a.summed, exact |-> Append(tail, Last(request[t]))]
                  ELSE [summed |-> {}, exact |-> request[t]]
<1>1. view' = [view EXCEPT ![t] = new] /\ handler[t] = "read"
  BY DEF Route
<1>2. view'[t] = new
  <2> HIDE DEF new
  <2> QED BY <1>1
<1>3. CASE ~Derived
  <2>1. new = [summed |-> {}, exact |-> request[t]]
    BY <1>3
  <2> HIDE DEF new
  <2>2. view'[t].summed = {} /\ view'[t].exact = request[t]
    BY <1>2, <2>1
  <2> QED BY <2>2
<1>4. CASE Derived
  <2>1. view'[t].summed = a.summed /\ view'[t].exact = Append(tail, Last(request[t]))
    <3>1. new = [summed |-> a.summed, exact |-> Append(tail, Last(request[t]))]
      BY <1>4
    <3> HIDE DEF new, a, tail
    <3> QED BY <1>2, <3>1
  <2>2. /\ TypeOK /\ MapComplete /\ Len(Completed) \in Nat
        /\ history \in Seq(Message) /\ request[t] \in Seq(Message) /\ User(t) \in Message
    BY <1>4, CompletedFacts, MessageTypes DEF SerialInv, TypeOK
  <2>3. PICK v \in Done : Stands(v, a.covered, a.summed)
    <3>1. Latest \in DOMAIN artifacts
      BY <1>4, LatestIs DEF CompactionInv
    <3> QED BY <3>1 DEF SummariesStand, Exactly
  <2>4. PICK k \in 1..Len(Completed) :
            /\ Len(a.covered) = k - 1 /\ a.summed = ToSet(Mapped[k])
            /\ a.summed = ToSet(LegacyPrefix) \cup UNION {ToSet(Unit(i)) : i \in 1..(k - 1)}
    <3> DEFINE covered == a.covered
               summed == a.summed
    <3>1. Stands(v, covered, summed)
      BY <2>3
    <3> HIDE DEF covered, summed
    <3>2. \E k \in 1..Len(Completed) :
             /\ Len(covered) = k - 1 /\ summed = ToSet(Mapped[k])
             /\ summed = ToSet(LegacyPrefix) \cup UNION {ToSet(Unit(i)) : i \in 1..(k - 1)}
      BY <2>2, <2>3, <3>1, StandsAt
    <3> QED BY <3>2 DEF covered, summed
  <2> DEFINE len == Len(Completed)
  <2>5. /\ tail \in Seq(Message)
        /\ \A x : x \in ToSet(tail) <=> \E j \in k..len : x \in ToSet(Unit(j))
    <3> DEFINE n == Len(a.covered)
    <3>1. n \in 0..Len(Completed) /\ n + 1 = k
      BY <2>2, <2>4
    <3>2. tail = ExactTail(n)
      OBVIOUS
    <3> HIDE DEF n, tail
    <3> QED BY <2>2, <3>1, <3>2, TailIs
  <2> HIDE DEF a, tail
  <2>6. /\ Mapped[len + 1] = history /\ len + 1 \in 1..(len + 1) /\ Completed # <<>>
        /\ \A i \in 1..len : i \in 1..(k - 1) \/ i \in k..len
        /\ \A i \in 1..(k - 1) : i \in 1..len
        /\ \A i \in k..len : i \in 1..len
    BY <2>2, MapIsChain
  <2>7. ToSet(history) = ToSet(LegacyPrefix) \cup UNION {ToSet(Unit(i)) : i \in 1..len}
    <3> DEFINE m == len + 1
    <3>1. m \in 1..(Len(Completed) + 1) /\ m - 1 = len /\ Mapped[m] = history
      BY <2>2, <2>6
    <3> HIDE DEF m
    <3>2. ToSet(Mapped[m]) = ToSet(LegacyPrefix) \cup UNION {ToSet(Unit(i)) : i \in 1..(m - 1)}
      BY <2>2, <2>6, <3>1, UnitsCover
    <3> QED BY <3>1, <3>2
  <2>8. ToSet(tail) \cup a.summed = ToSet(history)
    <3> HIDE DEF len
    <3> QED BY <2>4, <2>5, <2>6, <2>7
  <2>9. ToSet(tail) \cap a.summed = {}
    <3> DEFINE n == len + 1
    <3>1. /\ Chain(Message, n, Mapped) /\ n \in Nat /\ NoTwice(Mapped[n])
          /\ \A j \in k..len : j \in 1..(n - 1) /\ k \in 1..j /\ Unit(j) = Slice(Mapped[j], Mapped[j + 1])
      BY <2>2, <2>6, MapIsChain DEF Fresh, HistoryFresh
    <3> HIDE DEF n
    <3>2. \A j \in 1..(n - 1) : \A i \in 1..j :
              ToSet(Slice(Mapped[j], Mapped[j + 1])) \cap ToSet(Mapped[i]) = {}
      BY <3>1, ChainApart
    <3>3. \A j \in k..len : ToSet(Unit(j)) \cap ToSet(Mapped[k]) = {}
      <4> SUFFICES ASSUME NEW j \in k..len PROVE ToSet(Unit(j)) \cap ToSet(Mapped[k]) = {}
        OBVIOUS
      <4>1. j \in 1..(n - 1) /\ k \in 1..j /\ Unit(j) = Slice(Mapped[j], Mapped[j + 1])
        BY <3>1
      <4> QED BY <3>2, <4>1
    <3> HIDE DEF len
    <3> QED BY <2>4, <2>5, <3>3
  <2>10. history # <<>> /\ Asks(request[t], t) /\ Front(request[t]) = history
    BY <1>1, <2>2, <2>6 DEF MapComplete, SerialInv, Asked
  <2>11. /\ Last(request[t]) = User(t)
         /\ ToSet(request[t]) = ToSet(history) \cup {User(t)} /\ User(t) \notin ToSet(history)
    <3> DEFINE q == request[t]
               n == Len(q)
    <3>1. /\ n \in Nat /\ n # 0 /\ q[n] = User(t) /\ Last(q) = User(t)
          /\ Len(history) = n - 1 /\ \A i \in 1..(n - 1) : history[i] = q[i]
      <4>1. q \in Seq(Message) /\ q # <<>> /\ Last(q) = User(t) /\ history = Front(q)
        BY <2>2, <2>10 DEF Asks
      <4> HIDE DEF q
      <4>2. n \in Nat /\ n # 0 /\ q[n] = Last(q)
        BY <4>1 DEF Last
      <4>3. Len(Front(q)) = n - 1 /\ \A i \in 1..Len(Front(q)) : Front(q)[i] = q[i]
        BY <4>1, FrontType
      <4> QED BY <4>1, <4>2, <4>3
    <3>2. ToSet(q) = {q[i] : i \in 1..n} /\ ToSet(history) = {history[i] : i \in 1..(n - 1)}
      <4>1. q \in Seq(Message) /\ history \in Seq(Message)
        BY <2>2
      <4>2. ToSet(q) = {q[i] : i \in 1..n}
        <5> HIDE DEF q
        <5> QED BY <4>1, ToSetIs
      <4>3. ToSet(history) = {history[i] : i \in 1..Len(history)}
        BY <4>1, ToSetIs
      <4> QED BY <3>1, <4>2, <4>3
    <3>3. NoTwice(q)
      BY <1>1 DEF Fresh, RequestsFresh
    <3> HIDE DEF q
    <3>4. /\ \A i \in 1..n : i \in 1..(n - 1) \/ i = n
          /\ \A i \in 1..(n - 1) : i \in 1..n /\ i # n
          /\ n \in 1..n
      BY <3>1
    <3>5. \A i \in 1..(n - 1) : q[i] # q[n]
      BY <3>3, <3>4 DEF NoTwice, n
    <3>6. ToSet(q) = ToSet(history) \cup {User(t)}
      BY <3>1, <3>2, <3>4
    <3>7. User(t) \notin ToSet(history)
      BY <3>1, <3>2, <3>5
    <3> QED BY <3>1, <3>6, <3>7 DEF q
  <2>12. ToSet(view'[t].exact) = ToSet(tail) \cup {User(t)}
    BY <2>1, <2>2, <2>5, <2>11, AppendFacts
  <2> QED BY <2>1, <2>8, <2>9, <2>11, <2>12
<1> QED BY <1>3, <1>4

\* A new summary stands for the turns before the one after its targets.
LEMMA PromptStands ==
    ASSUME CompactionInv, SummariesStand, MapComplete, NEW n \in 1..(Len(Completed) - 1),
           NEW target, target = SubSeq(Completed, 1, n), Base(target).from < n
    PROVE  Exactly(target, Prompt(target, Base(target)))
<1> DEFINE v == Completed[n + 1]
           g == Base(target).g
           len == Len(Completed)
           m == n + 1
           prompt == Prompt(target, Base(target))
<1>1. /\ len \in Nat /\ n \in 1..len /\ m \in 1..len /\ m - 1 = n /\ m \in 1..(len + 1)
      /\ Completed \in Seq(Turns) /\ Rising(Completed) /\ v \in Done /\ TypeOK /\ Completed # <<>>
      /\ Completed = InOrder(Done) /\ Done \in SUBSET Turns /\ Len(target) = n
  BY CompletedFacts DEF CompactionInv, TypesOfJobs
<1>2. InOrder({u \in Done : u < v}) = target
  <2> DEFINE S == Done
  <2>1. S \in SUBSET Turns /\ v \in S /\ Completed = InOrder(S)
    BY <1>1
  <2> HIDE DEF S, v
  <2>2. PICK k \in 1..Len(InOrder(S)) :
            /\ InOrder(S)[k] = v
            /\ InOrder({u \in S : u < v}) = SubSeq(InOrder(S), 1, k - 1)
    BY <2>1, OrderBefore
  <2>3. k \in 1..len /\ Completed[k] = Completed[m]
    BY <2>1, <2>2 DEF v
  <2>4. k = m
    <3>1. Completed[m] \in Nat
      <4>1. v \in Nat
        BY <1>1, OrderFacts
      <4> QED BY <4>1 DEF v
    <3>2. ~(k < m) /\ ~(m < k)
      BY <1>1, <2>3, <3>1 DEF Rising
    <3> QED BY <1>1, <2>3, <3>2
  <2> QED BY <1>1, <2>1, <2>2, <2>4 DEF S
<1>3. ToSet(Front(request[v])) = ToSet(LegacyPrefix) \cup UNION {ToSet(Unit(i)) : i \in 1..n}
  <2>1. Mapped[m] = Front(request[v])
    BY <1>1, MapIsChain DEF Before
  <2> HIDE DEF m, v
  <2>2. ToSet(Mapped[m]) = ToSet(LegacyPrefix) \cup UNION {ToSet(Unit(i)) : i \in 1..(m - 1)}
    BY <1>1, UnitsCover
  <2> QED BY <1>1, <2>1, <2>2
<1>4. g = Previous(target)
  BY DEF Base
<1>5. CASE g = 0
  <2>1. Base(target).from = 0
    BY <1>4, <1>5 DEF Base
  <2>2. prompt = ToSet(LegacyPrefix) \cup UNION {ToSet(Unit(i)) : i \in 1..n}
    BY <1>1, <1>5, <2>1 DEF Prompt
  <2> HIDE DEF prompt
  <2> QED BY <1>1, <1>2, <1>3, <2>2 DEF Exactly, Stands, prompt
<1>6. CASE g # 0
  <2> DEFINE covered == artifacts[g].covered
             summed == artifacts[g].summed
  <2>1. g = Latest /\ Latest # 0 /\ Base(target).from = Len(covered)
    BY <1>4, <1>6 DEF Previous, Base
  <2>2. PICK w \in Done : Stands(w, covered, summed)
    <3>1. g \in DOMAIN artifacts
      BY <2>1, LatestIs DEF CompactionInv
    <3> QED BY <3>1 DEF SummariesStand, Exactly
  <2>3. prompt = summed \cup UNION {ToSet(Unit(i)) : i \in (Len(covered) + 1)..n}
    BY <1>1, <1>6, <2>1 DEF Prompt
  <2> HIDE DEF covered, summed, prompt
  <2> DEFINE Place(u, c, s, k) ==
                 /\ Completed[k] = u /\ c = SubSeq(Completed, 1, k - 1) /\ Len(c) = k - 1
                 /\ s = ToSet(Mapped[k])
                 /\ s = ToSet(LegacyPrefix) \cup UNION {ToSet(Unit(i)) : i \in 1..(k - 1)}
  <2>4. PICK k \in 1..Len(Completed) : Place(w, covered, summed, k)
    <3>1. TypeOK
      BY <1>1
    <3> HIDE DEF v, g, len, m
    <3>2. \A u \in Done : \A c, s : Stands(u, c, s) =>
              \E k \in 1..Len(Completed) : Place(u, c, s, k)
      BY <3>1, StandsAt
    <3> HIDE DEF Place
    <3> QED BY <2>2, <3>2
  <2>5. /\ \A i \in 1..n : i \in 1..(k - 1) \/ i \in (Len(covered) + 1)..n
        /\ \A i \in 1..(k - 1) : i \in 1..n
        /\ \A i \in (Len(covered) + 1)..n : i \in 1..n
    <3>1. Len(covered) = k - 1 /\ k \in Nat /\ k # 0 /\ n \in Nat
      BY <1>1, <2>4
    <3>2. k - 1 < n
      BY <2>1, <3>1
    <3> HIDE DEF v, g, len, m, Place
    <3> QED BY <3>1, <3>2
  <2> HIDE DEF v
  <2>6. prompt = ToSet(Front(request[v]))
    BY <1>3, <2>3, <2>4, <2>5
  <2> QED BY <1>1, <1>2, <2>6 DEF Exactly, Stands, prompt
<1> QED BY <1>5, <1>6

LEMMA FaithTurns ==
    ASSUME Overlap = FALSE, FaithInv, TurnNext
    PROVE  FaithInv'
<1>1. CompactionInv /\ SerialInv /\ SummariesStand /\ Fresh /\ ViewIsWhole /\ DOMAIN view = Turns
  BY DEF FaithInv
<1>2. TypeOK /\ Settled /\ Serial /\ Asked
  BY <1>1 DEF SerialInv
<1>3. CompactionInv' /\ SerialInv'
  BY <1>1, TurnsKeepJobs, SerialTurns
<1>4. SummariesStand'
  <2>1. UNCHANGED <<runner, artifacts>>
    BY <1>2, TurnTypes
  <2>2. \A covered, summed : Exactly(covered, summed) => StaysExact(covered, summed)
    BY <1>2, DoneGrows
  <2>3. /\ \A r \in Runners : runner'[r].at \in {"model", "commit"} =>
              StaysExact(runner'[r].target, runner'[r].summed)
        /\ \A g \in DOMAIN artifacts' : StaysExact(artifacts'[g].covered, artifacts'[g].summed)
    BY <1>1, <2>1, <2>2 DEF SummariesStand
  <2> QED BY <2>3 DEF SummariesStand, Exactly, Stands, StaysExact
<1>5. PICK t \in Turns : \/ StartTurn(t) \/ ReadHistory(t) \/ Route(t) \/ StoreAnswer(t)
                         \/ WriteHistory(t) \/ CompleteTurn(t) \/ Schedule(t)
                         \/ FailTurn(t) \/ StopTurn(t)
  BY DEF TurnNext
<1>6. Fresh'
  BY <1>1, <1>2, <1>5, StartFresh, ReadFresh, AnswerFresh, WriteFresh, OthersFresh
<1>7. DOMAIN view' = Turns
  BY <1>1, <1>5 DEF StartTurn, ReadHistory, Route, StoreAnswer, WriteHistory, CompleteTurn,
     Schedule, FailTurn, StopTurn
<1>8. ViewIsWhole'
  <2> SUFFICES ASSUME NEW u \in Turns, handler'[u] = "routed"
               PROVE  /\ ToSet(view'[u].exact) \cup view'[u].summed = ToSet(request'[u])
                      /\ ToSet(view'[u].exact) \cap view'[u].summed = {}
    BY DEF ViewIsWhole, ToSet
  <2>1. CASE Route(t) /\ u = t
    <3>1. request' = request
      BY <2>1 DEF Route
    <3> QED BY <1>1, <2>1, <3>1, RouteWhole
  <2>2. CASE ~(Route(t) /\ u = t)
    <3>1. handler[u] = "routed" /\ view'[u] = view[u] /\ request'[u] = request[u]
      <4>1. CASE Route(t)
        BY <1>2, <2>2, <4>1 DEF Route, Go, TypeOK
      <4>2. CASE ReadHistory(t)
        BY <1>2, <4>2 DEF ReadHistory, Go, TypeOK
      <4>3. CASE ~Route(t) /\ ~ReadHistory(t)
        <5>1. UNCHANGED <<view, request>>
          BY <1>5, <4>3 DEF StartTurn, StoreAnswer, WriteHistory, CompleteTurn, Schedule,
             FailTurn, StopTurn
        <5>2. \E x \in {"started", "answered", "written", "completed", "over"} :
                  handler' = [handler EXCEPT ![t] = x]
          BY <1>5, <4>3 DEF StartTurn, StoreAnswer, WriteHistory, CompleteTurn, Schedule,
             FailTurn, StopTurn, Go
        <5> QED BY <1>2, <5>1, <5>2 DEF TypeOK
      <4> QED BY <4>1, <4>2, <4>3
    <3> QED BY <1>1, <3>1 DEF ViewIsWhole
  <2> QED BY <2>1, <2>2
<1> QED BY <1>3, <1>4, <1>6, <1>7, <1>8 DEF FaithInv

LEMMA FaithJobs ==
    ASSUME Overlap = FALSE, FaithInv, JobNext
    PROVE  FaithInv'
<1>1. CompactionInv /\ SerialInv /\ SummariesStand /\ Fresh /\ ViewIsWhole /\ DOMAIN view = Turns
  BY DEF FaithInv
<1>2. CompactionInv' /\ SerialInv'
  <2>1. [Next]_vars
    BY DEF Next
  <2> QED BY <1>1, <2>1, SerialStep
<1>3. UNCHANGED <<turn, handler, messages, request, view, history>>
  BY DEF JobNext, TakeJob, ClaimJob, Plan, Recheck, CommitArtifact, EndJob, turnVars
<1>4. Fresh'
  BY <1>1, <1>3 DEF Fresh, MessagesFresh, HistoryFresh, RequestsFresh, NoTwice
<1>5. ViewIsWhole' /\ DOMAIN view' = Turns
  BY <1>1, <1>3 DEF ViewIsWhole
<1>6. \A covered, summed : Exactly(covered, summed) => StaysExact(covered, summed)
  BY <1>3 DEF Exactly, Stands, StaysExact, Done
<1>7. PICK r \in Runners : \/ TakeJob(r) \/ ClaimJob(r) \/ Plan(r) \/ Recheck(r)
                           \/ CommitArtifact(r) \/ EndJob(r)
  BY DEF JobNext
<1>8. runner \in [Runners -> Runner] /\ artifacts \in Seq(Artifact) /\ Len(artifacts) \in Nat
  BY <1>1 DEF CompactionInv, TypesOfJobs
<1>9. ASSUME NEW new, runner' = [runner EXCEPT ![r] = new], artifacts' = artifacts,
             new.at \in {"model", "commit"} => Exactly(new.target, new.summed)
      PROVE  SummariesStand'
  <2>1. \A s \in Runners : runner'[s] = IF s = r THEN new ELSE runner[s]
    BY <1>8, <1>9
  <2>2. ASSUME NEW s \in Runners, runner'[s].at \in {"model", "commit"}
        PROVE  Exactly(runner'[s].target, runner'[s].summed)
    BY <1>1, <1>9, <2>1, <2>2 DEF SummariesStand
  <2>3. \A g \in DOMAIN artifacts : Exactly(artifacts[g].covered, artifacts[g].summed)
    BY <1>1 DEF SummariesStand
  <2>4. /\ \A s \in Runners : runner'[s].at \in {"model", "commit"} =>
              StaysExact(runner'[s].target, runner'[s].summed)
        /\ \A g \in DOMAIN artifacts' : StaysExact(artifacts'[g].covered, artifacts'[g].summed)
    BY <1>6, <1>9, <2>2, <2>3
  <2> QED BY <2>4 DEF SummariesStand, Exactly, Stands, StaysExact
<1>10. SummariesStand'
  <2>1. CASE TakeJob(r)
    <3>1. PICK s \in pending : runner' = [runner EXCEPT ![r] = [NoJob EXCEPT !.at = "claim", !.snapshot = s]]
      BY <2>1 DEF TakeJob
    <3> DEFINE new == [NoJob EXCEPT !.at = "claim", !.snapshot = s]
    <3>2. new.at = "claim" /\ artifacts' = artifacts
      BY <2>1 DEF NoJob, TakeJob
    <3> HIDE DEF new
    <3> QED BY <1>9, <3>1, <3>2 DEF new
  <2>2. CASE ClaimJob(r)
    <3> DEFINE new == [runner[r] EXCEPT !.at = "plan"]
    <3>1. runner' = [runner EXCEPT ![r] = new] /\ artifacts' = artifacts
      BY <2>2 DEF ClaimJob
    <3>2. new.at = "plan"
      BY <1>8 DEF Runner
    <3> HIDE DEF new
    <3> QED BY <1>9, <3>1, <3>2
  <2>3. CASE Plan(r)
    <3>1. PICK n \in 1..(Len(Completed) - 1) :
             LET target == SubSeq(Completed, 1, n)
                 base == Base(target)
             IN  /\ base.from < n
                 /\ runner' = [runner EXCEPT ![r].at = "model", ![r].target = target,
                                             ![r].summed = Prompt(target, base)]
      BY <2>3 DEF Plan
    <3> DEFINE target == SubSeq(Completed, 1, n)
               summed == Prompt(target, Base(target))
               new == [runner[r] EXCEPT !.at = "model", !.target = target, !.summed = summed]
    <3>2. runner' = [runner EXCEPT ![r] = new] /\ artifacts' = artifacts
      BY <1>8, <2>3, <3>1 DEF Plan
    <3>3. Exactly(target, summed)
      <4>1. target = SubSeq(Completed, 1, n) /\ Base(target).from < n /\ MapComplete
        BY <2>3, <3>1 DEF Plan
      <4> HIDE DEF target
      <4> QED BY <1>1, <4>1, PromptStands
    <3> HIDE DEF target, summed
    <3>4. new.target = target /\ new.summed = summed
      BY <1>8 DEF Runner
    <3> HIDE DEF new
    <3> QED BY <1>9, <3>2, <3>3, <3>4
  <2>4. CASE Recheck(r)
    <3> DEFINE new == [runner[r] EXCEPT !.at = "commit", !.legacy = LegacyPrefix,
                                        !.sources = Units(Len(runner[r].target)),
                                        !.previous = Len(artifacts)]
    <3>1. runner' = [runner EXCEPT ![r] = new] /\ artifacts' = artifacts
      BY <1>8, <2>4 DEF Recheck
    <3>2. new.target = runner[r].target /\ new.summed = runner[r].summed
      BY <1>8 DEF Runner
    <3>3. Exactly(runner[r].target, runner[r].summed)
      BY <1>1, <2>4 DEF Recheck, SummariesStand
    <3> HIDE DEF new
    <3> QED BY <1>9, <3>1, <3>2, <3>3
  <2>5. CASE EndJob(r)
    <3>1. runner' = [runner EXCEPT ![r] = NoJob] /\ artifacts' = artifacts
      BY <2>5 DEF EndJob
    <3> QED BY <1>9, <3>1, NoJobType
  <2>6. CASE CommitArtifact(r)
    <3> DEFINE new == [covered |-> runner[r].target, sources |-> runner[r].sources,
                       legacy |-> runner[r].legacy, summed |-> runner[r].summed, active |-> TRUE]
               old == [g \in DOMAIN artifacts |-> IF g = Len(artifacts)
                           THEN Superseded(artifacts[g]) ELSE artifacts[g]]
               len == Len(artifacts)
    <3>1. /\ runner[r].at = "commit" /\ artifacts' = Append(old, new)
          /\ runner' = [runner EXCEPT ![r] = NoJob]
      BY <2>6 DEF CommitArtifact
    <3>2. new \in Artifact /\ Exactly(new.covered, new.summed)
      BY <1>1, <1>8, <3>1 DEF SummariesStand, Runner, Artifact
    <3>3. /\ old \in Seq(Artifact) /\ Len(old) = len
          /\ \A g \in 1..len : /\ old[g].covered = artifacts[g].covered
                               /\ old[g].summed = artifacts[g].summed
      <4>1. \A a \in Artifact : /\ Superseded(a) \in Artifact
                                /\ Superseded(a).covered = a.covered /\ Superseded(a).summed = a.summed
        BY DEF Superseded, Artifact
      <4>2. \A g \in 1..len : artifacts[g] \in Artifact
        BY <1>8
      <4>3. old = [g \in 1..len |-> IF g = len THEN Superseded(artifacts[g]) ELSE artifacts[g]]
        BY <1>8
      <4> HIDE DEF old, len
      <4>4. old \in [1..len -> Artifact] /\ len \in Nat
        BY <1>8, <4>1, <4>2, <4>3 DEF len
      <4>5. \A g \in 1..len : old[g] = IF g = len THEN Superseded(artifacts[g]) ELSE artifacts[g]
        BY <4>3
      <4> QED BY <4>1, <4>2, <4>4, <4>5
    <3> HIDE DEF new, old
    <3>4. /\ DOMAIN artifacts' = 1..(len + 1) /\ artifacts'[len + 1] = new
          /\ \A g \in 1..len : artifacts'[g] = old[g]
      BY <1>8, <3>1, <3>2, <3>3
    <3>5. \A g \in 1..(len + 1) : g \in 1..len \/ g = len + 1
      BY <1>8
    <3>6. \A g \in 1..len : Exactly(artifacts[g].covered, artifacts[g].summed)
      BY <1>1, <1>8 DEF SummariesStand
    <3>7. \A g \in DOMAIN artifacts' : Exactly(artifacts'[g].covered, artifacts'[g].summed)
      BY <3>2, <3>3, <3>4, <3>5, <3>6
    <3>8. \A s \in Runners : runner'[s] = IF s = r THEN NoJob ELSE runner[s]
      BY <1>8, <3>1
    <3>9. \A s \in Runners : runner'[s].at \in {"model", "commit"} =>
              Exactly(runner'[s].target, runner'[s].summed)
      BY <1>1, <3>8, NoJobType DEF SummariesStand
    <3>10. /\ \A s \in Runners : runner'[s].at \in {"model", "commit"} =>
                 StaysExact(runner'[s].target, runner'[s].summed)
           /\ \A g \in DOMAIN artifacts' : StaysExact(artifacts'[g].covered, artifacts'[g].summed)
      BY <1>6, <3>7, <3>9
    <3> QED BY <3>10 DEF SummariesStand, Exactly, Stands, StaysExact
  <2> QED BY <1>7, <2>1, <2>2, <2>3, <2>4, <2>5, <2>6
<1> QED BY <1>1, <1>2, <1>4, <1>5, <1>10 DEF FaithInv

LEMMA FaithInit == Init => FaithInv
<1> SUFFICES ASSUME Init PROVE FaithInv
  OBVIOUS
<1>1. SummariesStand
  <2>1. \A r \in Runners : runner[r].at = "rest"
    BY NoJobType DEF Init
  <2>2. DOMAIN artifacts = {}
    BY DEF Init
  <2> QED BY <2>1, <2>2 DEF SummariesStand
<1>2. Fresh
  BY DEF Init, Fresh, MessagesFresh, HistoryFresh, RequestsFresh, NoTwice
<1>3. ViewIsWhole /\ DOMAIN view = Turns
  BY DEF Init, ViewIsWhole
<1> QED BY <1>1, <1>2, <1>3, CompactionInit, SerialInit DEF FaithInv

LEMMA FaithStep == Overlap = FALSE /\ FaithInv /\ [Next]_vars => FaithInv'
<1> SUFFICES ASSUME Overlap = FALSE, FaithInv, [Next]_vars PROVE FaithInv'
  OBVIOUS
<1>1. CASE UNCHANGED vars
  <2>1. CompactionInv' /\ SerialInv'
    BY SerialStep DEF FaithInv
  <2>2. UNCHANGED <<turn, handler, messages, request, view, history, runner, artifacts>>
    BY <1>1 DEF vars
  <2>3. SummariesStand'
    <3>1. \A covered, summed : Exactly(covered, summed) => StaysExact(covered, summed)
      BY <2>2 DEF Exactly, Stands, StaysExact, Done
    <3>2. /\ \A r \in Runners : runner'[r].at \in {"model", "commit"} =>
                StaysExact(runner'[r].target, runner'[r].summed)
          /\ \A g \in DOMAIN artifacts' : StaysExact(artifacts'[g].covered, artifacts'[g].summed)
      BY <2>2, <3>1 DEF FaithInv, SummariesStand
    <3> QED BY <3>2 DEF SummariesStand, Exactly, Stands, StaysExact
  <2>4. Fresh'
    BY <2>2 DEF FaithInv, Fresh, MessagesFresh, HistoryFresh, RequestsFresh, NoTwice
  <2>5. ViewIsWhole' /\ DOMAIN view' = Turns
    BY <2>2 DEF FaithInv, ViewIsWhole
  <2> QED BY <2>1, <2>3, <2>4, <2>5 DEF FaithInv
<1> QED BY <1>1, FaithTurns, FaithJobs DEF Next

\* When turns follow one another, the derived view is the conversation: whole, made
\* of summaries of exactly what they replace, of which one generation counts,
\* whatever jobs run meanwhile, in any number of threads.
THEOREM SerialViewIsFaithful == ASSUME Overlap = FALSE PROVE Spec => []ViewIsFaithful
<1>1. Init => FaithInv
  BY FaithInit
<1>2. FaithInv /\ [Next]_vars => FaithInv'
  BY FaithStep
<1>3. FaithInv => ViewIsFaithful
  <2> SUFFICES ASSUME FaithInv PROVE SummaryIsFaithful
    BY DEF FaithInv, CompactionInv, ViewIsFaithful
  <2> SUFFICES ASSUME NEW g \in DOMAIN artifacts, MapComplete
               PROVE  artifacts[g].summed = ToSet(LegacyPrefix) \cup
                          UNION {ToSet(Unit(i)) : i \in DOMAIN artifacts[g].covered}
    BY DEF SummaryIsFaithful
  <2> DEFINE covered == artifacts[g].covered
             summed == artifacts[g].summed
  <2>1. TypeOK /\ DOMAIN covered = 1..Len(covered)
    BY DEF FaithInv, CompactionInv, TypesOfJobs, Artifact
  <2>2. PICK v \in Done : Stands(v, covered, summed)
    BY DEF FaithInv, SummariesStand, Exactly
  <2> HIDE DEF covered, summed
  <2>3. PICK k \in 1..Len(Completed) :
            /\ Completed[k] = v /\ covered = SubSeq(Completed, 1, k - 1) /\ Len(covered) = k - 1
            /\ summed = ToSet(Mapped[k])
            /\ summed = ToSet(LegacyPrefix) \cup UNION {ToSet(Unit(i)) : i \in 1..(k - 1)}
    BY <2>1, <2>2, StandsAt
  <2>4. summed = ToSet(LegacyPrefix) \cup UNION {ToSet(Unit(i)) : i \in DOMAIN covered}
    BY <2>1, <2>3
  <2> QED BY <2>4 DEF covered, summed
<1> QED BY <1>1, <1>2, <1>3, PTL DEF Spec

=============================================================================
