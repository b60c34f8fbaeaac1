----------------------- MODULE AgenticModuleHostProofs ------------------------
(***************************************************************************)
(* Proofs about the module host, for any registry, dependencies, modes,    *)
(* ports and number of callers and processes, where a manager works alone. *)
(***************************************************************************)
EXTENDS AgenticModuleHost, FiniteSetTheorems, WellFoundedInduction, TLAPS

\* The elements of a sequence.
Held(s) == {s[i] : i \in DOMAIN s}
Distinct(s) == \A i, j \in DOMAIN s : s[i] = s[j] => i = j

-----------------------------------------------------------------------------
(* Sequences and recursive functions *)

LEMMA HeldIs ==
    ASSUME NEW S, NEW s \in Seq(S)
    PROVE  /\ Held(s) \subseteq S
           /\ s = <<>> <=> Held(s) = {}
           /\ DOMAIN s = 1..Len(s) /\ Len(s) \in Nat
<1>1. DOMAIN s = 1..Len(s) /\ Len(s) \in Nat /\ \A i \in 1..Len(s) : s[i] \in S
  OBVIOUS
<1>2. s = <<>> <=> Len(s) = 0
  OBVIOUS
<1>3. Len(s) # 0 => s[1] \in Held(s)
  BY <1>1 DEF Held
<1>4. Len(s) = 0 => Held(s) = {}
  BY <1>1 DEF Held
<1>5. Held(s) \subseteq S
  BY <1>1 DEF Held
<1> QED BY <1>1, <1>2, <1>3, <1>4, <1>5

\* A sequence with a first element.
LEMMA ConsIs ==
    ASSUME NEW S, NEW g \in S, NEW r \in Seq(S)
    PROVE  /\ <<g>> \o r \in Seq(S) /\ <<g>> \o r # <<>> /\ Len(<<g>> \o r) = Len(r) + 1
           /\ Head(<<g>> \o r) = g /\ Tail(<<g>> \o r) = r
           /\ (<<g>> \o r)[1] = g /\ \A i \in 1..Len(r) : (<<g>> \o r)[i + 1] = r[i]
           /\ Held(<<g>> \o r) = {g} \cup Held(r)
<1> DEFINE s == <<g>> \o r
<1>1. /\ s \in Seq(S) /\ s # <<>> /\ Len(s) = Len(r) + 1 /\ DOMAIN s = 1..(Len(r) + 1)
      /\ Len(r) \in Nat /\ DOMAIN r = 1..Len(r) /\ s[1] = g
      /\ \A i \in 1..Len(r) : s[i + 1] = r[i]
  OBVIOUS
<1>2. Head(s) = g /\ Tail(s) = r
  OBVIOUS
<1> HIDE DEF s
<1>3. Held(s) = {g} \cup Held(r)
  <2>1. \A i \in DOMAIN s : s[i] \in {g} \cup Held(r)
    <3> SUFFICES ASSUME NEW i \in DOMAIN s PROVE s[i] \in {g} \cup Held(r)
      OBVIOUS
    <3>1. i = 1 \/ (i - 1 \in 1..Len(r) /\ s[(i - 1) + 1] = s[i])
      BY <1>1
    <3> QED BY <1>1, <3>1 DEF Held
  <2>2. g \in Held(s)
    BY <1>1 DEF Held
  <2>3. \A i \in DOMAIN r : r[i] \in Held(s)
    <3> SUFFICES ASSUME NEW i \in DOMAIN r PROVE r[i] \in Held(s)
      OBVIOUS
    <3>1. i + 1 \in DOMAIN s /\ s[i + 1] = r[i]
      BY <1>1
    <3> QED BY <3>1 DEF Held
  <2> QED BY <2>1, <2>2, <2>3 DEF Held
<1> QED BY <1>1, <1>2, <1>3 DEF s

LEMMA SplitIs ==
    ASSUME NEW S, NEW s \in Seq(S), s # <<>>
    PROVE  /\ Head(s) \in S /\ Tail(s) \in Seq(S) /\ s = <<Head(s)>> \o Tail(s)
           /\ Len(s) = Len(Tail(s)) + 1 /\ Len(Tail(s)) \in Nat
           /\ s[1] = Head(s) /\ \A i \in 1..Len(Tail(s)) : Tail(s)[i] = s[i + 1]
           /\ Held(s) = {Head(s)} \cup Held(Tail(s))
<1>1. /\ Head(s) \in S /\ Tail(s) \in Seq(S) /\ Len(s) = Len(Tail(s)) + 1 /\ Len(Tail(s)) \in Nat
      /\ s[1] = Head(s) /\ \A i \in 1..Len(Tail(s)) : Tail(s)[i] = s[i + 1]
  OBVIOUS
<1>2. s = <<Head(s)>> \o Tail(s)
  <2> DEFINE c == <<Head(s)>> \o Tail(s)
  <2>1. c \in Seq(S) /\ Len(c) = Len(s) /\ c[1] = s[1]
        /\ \A i \in 1..Len(Tail(s)) : c[i + 1] = s[i + 1]
    BY <1>1, ConsIs
  <2> HIDE DEF c
  <2>2. ASSUME NEW i \in 1..Len(s) PROVE c[i] = s[i]
    <3>1. i = 1 \/ (i - 1 \in 1..Len(Tail(s)) /\ (i - 1) + 1 = i)
      BY <1>1
    <3> QED BY <2>1, <3>1
  <2>3. c \in [1..Len(s) -> S] /\ s \in [1..Len(s) -> S]
    BY <2>1
  <2>4. c = s
    BY <2>2, <2>3
  <2> QED BY <2>4 DEF c
<1>3. Held(s) = {Head(s)} \cup Held(Tail(s))
  <2> DEFINE h == Head(s)
             r == Tail(s)
  <2>1. h \in S /\ r \in Seq(S) /\ s = <<h>> \o r
    BY <1>1, <1>2
  <2> HIDE DEF h, r
  <2>2. Held(<<h>> \o r) = {h} \cup Held(r)
    BY <2>1, ConsIs
  <2>3. Held(s) = {h} \cup Held(r)
    BY <2>1, <2>2
  <2> QED BY <2>3 DEF h, r
<1> QED BY <1>1, <1>2, <1>3

\* Joining two sequences.
LEMMA ConcatIs ==
    ASSUME NEW S, NEW r \in Seq(S), NEW s \in Seq(S)
    PROVE  r \o s \in Seq(S) /\ Held(r \o s) = Held(r) \cup Held(s)
<1> DEFINE c == r \o s
<1>1. /\ c \in Seq(S) /\ Len(r) \in Nat /\ Len(s) \in Nat
      /\ DOMAIN c = 1..(Len(r) + Len(s)) /\ DOMAIN r = 1..Len(r) /\ DOMAIN s = 1..Len(s)
      /\ \A i \in 1..Len(r) : c[i] = r[i]
      /\ \A i \in 1..(Len(r) + Len(s)) : i > Len(r) => c[i] = s[i - Len(r)]
  <2>1. /\ c \in Seq(S) /\ Len(r) \in Nat /\ Len(s) \in Nat
        /\ DOMAIN c = 1..(Len(r) + Len(s)) /\ DOMAIN r = 1..Len(r) /\ DOMAIN s = 1..Len(s)
    OBVIOUS
  <2>2. ASSUME NEW i \in 1..(Len(r) + Len(s))
        PROVE  c[i] = IF i <= Len(r) THEN r[i] ELSE s[i - Len(r)]
    BY <2>1
  <2> HIDE DEF c
  <2> QED BY <2>1, <2>2
<1> HIDE DEF c
<1>2. \A i \in DOMAIN c : c[i] \in Held(r) \cup Held(s)
  <2> SUFFICES ASSUME NEW i \in DOMAIN c PROVE c[i] \in Held(r) \cup Held(s)
    OBVIOUS
  <2>1. i \in 1..Len(r) \/ (i > Len(r) /\ i - Len(r) \in DOMAIN s)
    BY <1>1
  <2> QED BY <1>1, <2>1 DEF Held
<1>3. \A i \in DOMAIN r : i \in DOMAIN c /\ c[i] = r[i]
  BY <1>1
<1>4. \A i \in DOMAIN s : Len(r) + i \in DOMAIN c /\ c[Len(r) + i] = s[i]
  <2> SUFFICES ASSUME NEW i \in DOMAIN s
               PROVE  Len(r) + i \in DOMAIN c /\ c[Len(r) + i] = s[i]
    OBVIOUS
  <2>1. i \in 1..Len(s)
    BY <1>1
  <2>2. /\ Len(r) + i \in 1..(Len(r) + Len(s)) /\ Len(r) + i > Len(r)
        /\ (Len(r) + i) - Len(r) = i
    BY <1>1, <2>1
  <2> QED BY <1>1, <2>2
<1>5. Held(r) \subseteq Held(c) /\ Held(s) \subseteq Held(c)
  BY <1>3, <1>4 DEF Held
<1>6. Held(c) \subseteq Held(r) \cup Held(s)
  BY <1>2 DEF Held
<1> QED BY <1>1, <1>5, <1>6 DEF c

\* Without a common element, joining keeps elements distinct.
LEMMA ConcatDistinct ==
    ASSUME NEW S, NEW r \in Seq(S), NEW s \in Seq(S), Distinct(r), Distinct(s),
           Held(r) \cap Held(s) = {}
    PROVE  Distinct(r \o s)
<1> DEFINE c == r \o s
           n == Len(r)
<1>1. /\ n \in Nat /\ Len(s) \in Nat
      /\ DOMAIN c = 1..(n + Len(s)) /\ DOMAIN r = 1..n /\ DOMAIN s = 1..Len(s)
      /\ \A i \in 1..n : c[i] = r[i]
      /\ \A i \in 1..(n + Len(s)) : i > n => c[i] = s[i - n]
  <2>1. /\ n \in Nat /\ Len(s) \in Nat
        /\ DOMAIN c = 1..(n + Len(s)) /\ DOMAIN r = 1..n /\ DOMAIN s = 1..Len(s)
    OBVIOUS
  <2>2. ASSUME NEW i \in 1..(n + Len(s))
        PROVE  c[i] = IF i <= n THEN r[i] ELSE s[i - n]
    BY <2>1
  <2> HIDE DEF c, n
  <2> QED BY <2>1, <2>2
<1> HIDE DEF c, n
<1>2. SUFFICES ASSUME NEW i \in DOMAIN c, NEW j \in DOMAIN c, c[i] = c[j]
               PROVE  i = j
  BY DEF Distinct, c
<1>3. CASE i <= n /\ j <= n
  <2>1. i \in DOMAIN r /\ j \in DOMAIN r /\ r[i] = r[j]
    BY <1>1, <1>2, <1>3
  <2> QED BY <2>1 DEF Distinct
<1>4. CASE i > n /\ j > n
  <2>1. i - n \in DOMAIN s /\ j - n \in DOMAIN s /\ s[i - n] = s[j - n]
    BY <1>1, <1>2, <1>4
  <2>2. i - n = j - n
    BY <2>1 DEF Distinct
  <2> QED BY <1>1, <2>2
<1>5. \A k \in DOMAIN c : (k <= n => c[k] \in Held(r)) /\ (k > n => c[k] \in Held(s))
  <2> SUFFICES ASSUME NEW k \in DOMAIN c
               PROVE  (k <= n => c[k] \in Held(r)) /\ (k > n => c[k] \in Held(s))
    OBVIOUS
  <2>1. k <= n => k \in DOMAIN r /\ c[k] = r[k]
    BY <1>1
  <2>2. k > n => k - n \in DOMAIN s /\ c[k] = s[k - n]
    BY <1>1
  <2> QED BY <2>1, <2>2 DEF Held
<1>6. i \in Nat /\ j \in Nat
  BY <1>1
<1> QED BY <1>1, <1>2, <1>3, <1>4, <1>5, <1>6

\* What holds of zero and is passed on holds up to the end.
LEMMA Climbs ==
    ASSUME NEW n \in Nat, NEW S \in SUBSET (0..n), 0 \in S,
           \A i \in 1..n : i - 1 \in S => i \in S
    PROVE  S = 0..n
<1> DEFINE Bad == (0..n) \ S
<1>1. SUFFICES ASSUME Bad # {} PROVE FALSE
  OBVIOUS
<1>s. Bad \in SUBSET Nat
  OBVIOUS
<1>2. PICK m \in Bad : \A k \in Bad : ~(<<k, m>> \in OpToRel(<, Nat))
  <2> HIDE DEF Bad
  <2> QED BY <1>s, <1>1, WFMin, NatLessThanWellFounded
<1>3. \A k \in Bad : ~(k < m)
  <2> HIDE DEF Bad
  <2> QED BY <1>s, <1>2 DEF OpToRel
<1>4. m \in 1..n /\ m - 1 \in 0..n /\ m - 1 < m
  <2>1. m \in 0..n /\ m # 0
    OBVIOUS
  <2> QED BY <2>1
<1>5. m - 1 \in S
  BY <1>3, <1>4
<1> QED BY <1>2, <1>4, <1>5

\* One more element.
LEMMA AppendIs ==
    ASSUME NEW S, NEW s \in Seq(S), NEW x \in S
    PROVE  /\ Append(s, x) \in Seq(S) /\ Held(Append(s, x)) = Held(s) \cup {x}
           /\ Distinct(s) /\ x \notin Held(s) => Distinct(Append(s, x))
<1> DEFINE c == Append(s, x)
           n == Len(s)
<1>1. /\ c \in Seq(S) /\ n \in Nat /\ DOMAIN s = 1..n /\ DOMAIN c = 1..(n + 1)
      /\ c[n + 1] = x /\ \A i \in 1..n : c[i] = s[i]
  OBVIOUS
<1> HIDE DEF c, n
<1>2. \A i \in DOMAIN c : (i \in DOMAIN s /\ c[i] = s[i]) \/ (i = n + 1 /\ c[i] = x)
  BY <1>1
<1>3. Held(c) \subseteq Held(s) \cup {x}
  BY <1>2 DEF Held
<1>4. Held(s) \cup {x} \subseteq Held(c)
  <2>1. n + 1 \in DOMAIN c /\ \A i \in DOMAIN s : i \in DOMAIN c
    BY <1>1
  <2> QED BY <1>1, <2>1 DEF Held
<1>5. ASSUME Distinct(s), x \notin Held(s) PROVE Distinct(c)
  <2>1. \A i \in DOMAIN s : s[i] # x
    BY <1>5 DEF Held
  <2> QED BY <1>2, <1>5, <2>1 DEF Distinct
<1> QED BY <1>1, <1>3, <1>4, <1>5 DEF c

\* A function that is computed from its value at the number before exists.
Recurs(f, n, X, x, G) ==
    f \in [0..n -> X] /\ f[0] = x /\ \A i \in 1..n : f[i] = G[<<i, f[i - 1]>>]

LEMMA RecursionExists ==
    ASSUME NEW n \in Nat, NEW X, NEW x \in X, NEW G \in [(1..n) \X X -> X]
    PROVE  \E f : Recurs(f, n, X, x, G)
<1> DEFINE Goes(f, m) == f[0] = x /\ \A i \in 1..m : f[i] = G[<<i, f[i - 1]>>]
           Good == {m \in 0..n : \E f \in [0..m -> X] : Goes(f, m)}
<1>1. 0 \in Good
  <2> DEFINE f == [i \in 0..0 |-> x]
  <2>1. f \in [0..0 -> X] /\ f[0] = x
    OBVIOUS
  <2>2. Goes(f, 0)
    BY <2>1
  <2> HIDE DEF f, Goes
  <2> QED BY <2>1, <2>2
<1>2. ASSUME NEW m \in 1..n, m - 1 \in Good PROVE m \in Good
  <2>1. PICK f \in [0..(m - 1) -> X] : Goes(f, m - 1)
    BY <1>2
  <2> DEFINE g == [i \in 0..m |-> IF i = m THEN G[<<m, f[m - 1]>>] ELSE f[i]]
  <2>2. m - 1 \in 0..(m - 1) /\ m \in 0..n /\ m # 0 /\ m \in 1..n
    BY <1>2
  <2>3. ASSUME NEW i \in 0..m
        PROVE  /\ g[i] \in X
               /\ i = 0 => g[i] = x
               /\ i # 0 => g[i] = G[<<i, g[i - 1]>>]
    <3>1. CASE i = m
      <4>1. <<m, f[m - 1]>> \in (1..n) \X X
        BY <2>2
      <4>2. i # 0 /\ i - 1 \in 0..m /\ i - 1 # m /\ g[i - 1] = f[m - 1]
        BY <2>2, <3>1
      <4> QED BY <3>1, <4>1, <4>2
    <3>2. CASE i # m
      <4>1. i \in 0..(m - 1) /\ g[i] = f[i] /\ f[i] \in X
        BY <2>2, <3>2
      <4>2. (i = 0 => f[i] = x) /\ (i # 0 => f[i] = G[<<i, f[i - 1]>>])
        BY <2>1, <4>1
      <4>3. i # 0 => i - 1 \in 0..m /\ i - 1 # m /\ g[i - 1] = f[i - 1]
        BY <2>2, <4>1
      <4> QED BY <4>1, <4>2, <4>3
    <3> QED BY <3>1, <3>2
  <2>4. g = [i \in 0..m |-> g[i]]
    OBVIOUS
  <2> HIDE DEF g
  <2>5. g \in [0..m -> X] /\ Goes(g, m)
    <3>1. 0 \in 0..m /\ \A i \in 1..m : i \in 0..m /\ i # 0
      BY <2>2
    <3> QED BY <2>3, <2>4, <3>1
  <2> HIDE DEF Goes
  <2> QED BY <2>2, <2>5
<1>3. Good = 0..n
  <2>1. Good \in SUBSET (0..n)
    OBVIOUS
  <2> HIDE DEF Good
  <2> QED BY <1>1, <1>2, <2>1, Climbs
<1>4. n \in Good
  BY <1>3
<1> QED BY <1>4 DEF Recurs

\* A set that is taken on from number to number, and only grows.
Grows(f, n, S, G) ==
    /\ n \in Nat /\ IsFiniteSet(S) /\ Cardinality(S) <= n
    /\ G \in [SUBSET S -> SUBSET S] /\ \A T \in SUBSET S : T \subseteq G[T]
    /\ f \in [0..n -> SUBSET S] /\ \A i \in 1..n : f[i] = G[f[i - 1]]

\* The least set that holds some elements and does not grow.
Least(L, x, S, G) ==
    /\ L \in SUBSET S /\ x \subseteq L /\ G[L] = L
    /\ \A C \in SUBSET S : x \subseteq C /\ (\A T \in SUBSET C : G[T] \subseteq C) => L \subseteq C

\* A set that grew as often as there are elements has stopped growing.
LEMMA GrowsToLeast ==
    ASSUME NEW n, NEW S, NEW G, NEW f, Grows(f, n, S, G)
    PROVE  Least(f[n], f[0], S, G)
<1> USE DEF Grows
<1>1. n \in 0..n /\ 0 \in 0..n /\ \A i \in 1..n : i \in 0..n /\ i - 1 \in 0..n /\ i \in Nat
  OBVIOUS
<1>2. f[0] \subseteq f[n]
  <2> DEFINE Good == {i \in 0..n : f[0] \subseteq f[i]}
  <2>1. Good \in SUBSET (0..n) /\ 0 \in Good
    BY <1>1
  <2>2. ASSUME NEW i \in 1..n, i - 1 \in Good PROVE i \in Good
    <3>1. f[i - 1] \in SUBSET S /\ f[i - 1] \subseteq f[i]
      BY <1>1
    <3> QED BY <1>1, <2>2, <3>1
  <2> HIDE DEF Good
  <2>3. Good = 0..n
    BY <2>1, <2>2, Climbs
  <2> QED BY <1>1, <2>3 DEF Good
<1>3. ASSUME NEW C \in SUBSET S, f[0] \subseteq C, \A T \in SUBSET C : G[T] \subseteq C
      PROVE  f[n] \subseteq C
  <2> DEFINE Good == {i \in 0..n : f[i] \subseteq C}
  <2>1. Good \in SUBSET (0..n) /\ 0 \in Good
    BY <1>1, <1>3
  <2>2. ASSUME NEW i \in 1..n, i - 1 \in Good PROVE i \in Good
    BY <1>1, <1>3, <2>2
  <2> HIDE DEF Good
  <2>3. Good = 0..n
    BY <2>1, <2>2, Climbs
  <2> QED BY <1>1, <2>3 DEF Good
<1>4. ASSUME NEW T \in SUBSET S PROVE IsFiniteSet(T) /\ Cardinality(T) \in Nat
  BY FS_Subset, FS_CardinalityType
<1>5. G[f[n]] = f[n]
  <2> DEFINE Good == {i \in 0..n : G[f[i]] = f[i] \/ i <= Cardinality(f[i])}
  <2>1. Good \in SUBSET (0..n) /\ 0 \in Good
    BY <1>1, <1>4
  <2>2. ASSUME NEW i \in 1..n, i - 1 \in Good PROVE i \in Good
    <3> DEFINE T == f[i - 1]
    <3>1. T \in SUBSET S /\ f[i] = G[T] /\ f[i] \in SUBSET S /\ T \subseteq f[i]
      BY <1>1
    <3>2. CASE G[T] = T
      BY <1>1, <3>1, <3>2
    <3>3. CASE G[T] # T
      <4>1. i - 1 <= Cardinality(T)
        BY <2>2, <3>3
      <4>2. Cardinality(T) <= Cardinality(f[i]) /\ Cardinality(T) # Cardinality(f[i])
        <5>1. T \in SUBSET f[i] /\ IsFiniteSet(f[i]) /\ T # f[i]
          BY <1>4, <3>1, <3>3
        <5> HIDE DEF T
        <5> QED BY <5>1, FS_Subset
      <4>3. Cardinality(T) \in Nat /\ Cardinality(f[i]) \in Nat
        BY <1>4, <3>1
      <4> HIDE DEF T
      <4>4. i <= Cardinality(f[i])
        BY <1>1, <4>1, <4>2, <4>3
      <4> QED BY <1>1, <4>4
    <3> QED BY <3>2, <3>3
  <2> HIDE DEF Good
  <2>3. Good = 0..n
    BY <2>1, <2>2, Climbs
  <2>4. G[f[n]] = f[n] \/ n <= Cardinality(f[n])
    BY <1>1, <2>3 DEF Good
  <2>5. ASSUME n <= Cardinality(f[n]) PROVE G[f[n]] = f[n]
    <3>1. f[n] \in SUBSET S /\ Cardinality(f[n]) <= Cardinality(S)
          /\ Cardinality(S) \in Nat /\ Cardinality(f[n]) \in Nat
      BY <1>1, <1>4, FS_Subset, FS_CardinalityType
    <3>2. Cardinality(S) = Cardinality(f[n])
      BY <2>5, <3>1
    <3>3. f[n] = S
      BY <3>1, <3>2, FS_Subset
    <3>4. G[S] \in SUBSET S /\ S \subseteq G[S]
      BY <3>1, <3>3
    <3> QED BY <3>3, <3>4
  <2> QED BY <2>4, <2>5
<1> QED BY <1>1, <1>2, <1>3, <1>5 DEF Least

-----------------------------------------------------------------------------
(* The plan *)

\* There are no more modules than the registry is long.
LEMMA ModulesAreFew ==
    /\ Len(Registry) \in Nat /\ IsFiniteSet(Modules) /\ Cardinality(Modules) <= Len(Registry)
<1>n. PICK N \in Nat : N = Len(Registry)
  BY RegistryIsUnique
<1>1. Registry \in Surjection(1..N, Modules)
  <2>1. DOMAIN Registry = 1..N /\ Registry \in [1..N -> Modules]
    BY <1>n, RegistryIsUnique
  <2> QED BY <2>1 DEF Surjection, Modules
<1>2. ExistsSurjection(1..N, Modules)
  BY <1>1 DEF ExistsSurjection
<1> QED BY <1>n, <1>2, FS_NatSurjection, FS_SurjCardinalityBound
\* Picking modules in the order of the registry gives each of them once.
LEMMA PickedIs ==
    ASSUME NEW S
    PROVE  /\ InRegistryOrder(S) \in Seq(S \cap Modules)
           /\ Distinct(InRegistryOrder(S))
           /\ Held(InRegistryOrder(S)) = S \cap Modules
<1>n. PICK N \in Nat : N = Len(Registry)
  BY RegistryIsUnique
<1> DEFINE M == S \cap Modules
           Goes(f) == f = [n \in 0..N |->
                             IF n = 0 THEN <<>>
                             ELSE IF Registry[n] \in S THEN Append(f[n-1], Registry[n]) ELSE f[n-1]]
           F == CHOOSE f : Goes(f)
<1>1. InRegistryOrder(S) = F[N]
  BY <1>n DEF InRegistryOrder
<1>2. /\ N \in Nat /\ DOMAIN Registry = 1..N /\ \A n \in 1..N : Registry[n] \in Modules
      /\ \A i, j \in 1..N : Registry[i] = Registry[j] => i = j
  BY <1>n, RegistryIsUnique
<1>3. \A n \in 1..N, s \in Seq(M) : Registry[n] \in S => Append(s, Registry[n]) \in Seq(M)
  BY <1>2
<1> HIDE DEF M
<1>4. Goes(F)
  <2> DEFINE G == [w \in (1..N) \X Seq(M) |->
                     IF Registry[w[1]] \in S THEN Append(w[2], Registry[w[1]]) ELSE w[2]]
             x == <<>>
  <2>1. G \in [(1..N) \X Seq(M) -> Seq(M)] /\ x \in Seq(M)
    BY <1>3
  <2>2. \A n \in 1..N, s \in Seq(M) :
           G[<<n, s>>] = IF Registry[n] \in S THEN Append(s, Registry[n]) ELSE s
    OBVIOUS
  <2> HIDE DEF G, x
  <2> DEFINE X == Seq(M)
  <2>x. G \in [(1..N) \X X -> X] /\ x \in X
    BY <2>1
  <2>r. PICK f : Recurs(f, N, X, x, G)
    <3> HIDE DEF X
    <3> QED BY <2>x, RecursionExists
  <2>3. f \in [0..N -> Seq(M)] /\ f[0] = x /\ \A i \in 1..N : f[i] = G[<<i, f[i - 1]>>]
    BY <2>r DEF Recurs
  <2>4. ASSUME NEW i \in 0..N
        PROVE  f[i] = IF i = 0 THEN <<>>
                      ELSE IF Registry[i] \in S THEN Append(f[i-1], Registry[i]) ELSE f[i-1]
    <3>1. i = 0 => f[i] = x
      BY <2>3
    <3>2. i # 0 => i \in 1..N /\ i - 1 \in 0..N
      BY <1>2
    <3>3. i # 0 => f[i] = G[<<i, f[i - 1]>>] /\ f[i - 1] \in Seq(M)
      BY <2>3, <3>2
    <3> QED BY <2>2, <3>1, <3>2, <3>3 DEF x
  <2>5. f = [i \in 0..N |-> f[i]]
    BY <2>3
  <2>6. Goes(f)
    BY <2>4, <2>5
  <2> HIDE DEF Goes
  <2> QED BY <2>6
<1> HIDE DEF F
<1> DEFINE Good == {n \in 0..N : /\ F[n] \in Seq(M) /\ Distinct(F[n])
                                 /\ Held(F[n]) = S \cap {Registry[i] : i \in 1..n}}
<1>5. 0 \in Good
  <2>1. F[0] = <<>> /\ 0 \in 0..N
    BY <1>2, <1>4
  <2>2. Held(<<>>) = {} /\ Distinct(<<>>) /\ <<>> \in Seq(M) /\ 1..0 = {}
    BY DEF Held, Distinct
  <2> HIDE DEF M
  <2> QED BY <2>1, <2>2
<1>6. ASSUME NEW n \in 1..N, n - 1 \in Good PROVE n \in Good
  <2>1. n \in 0..N /\ n # 0 /\ n - 1 \in 0..N
    BY <1>2
  <2>2. F[n] = IF Registry[n] \in S THEN Append(F[n-1], Registry[n]) ELSE F[n-1]
    BY <1>4, <2>1
  <2>3. /\ F[n-1] \in Seq(M) /\ Distinct(F[n-1])
        /\ Held(F[n-1]) = S \cap {Registry[i] : i \in 1..(n - 1)}
    BY <1>6
  <2>4. \A i \in 1..n : i \in 1..N /\ (i \in 1..(n - 1) <=> i # n)
    BY <1>2, <2>1
  <2>7. {Registry[i] : i \in 1..n} = {Registry[i] : i \in 1..(n - 1)} \cup {Registry[n]}
    <3>1. n \in 1..n /\ \A i \in 1..(n - 1) : i \in 1..n
      BY <2>1
    <3> QED BY <2>4, <3>1
  <2>5. CASE Registry[n] \notin S
    <3>1. Held(F[n]) = S \cap {Registry[i] : i \in 1..n}
      BY <2>2, <2>3, <2>5, <2>7
    <3> QED BY <2>1, <2>2, <2>3, <2>5, <3>1
  <2>6. CASE Registry[n] \in S
    <3>1. Registry[n] \in M
      BY <1>2, <2>6 DEF M
    <3>2. Registry[n] \notin Held(F[n-1])
      <4>1. \A i \in 1..(n - 1) : i \in 1..N /\ i # n
        BY <1>2, <2>1
      <4> QED BY <1>2, <2>3, <4>1
    <3>3. /\ F[n] \in Seq(M) /\ Distinct(F[n]) /\ Held(F[n]) = Held(F[n-1]) \cup {Registry[n]}
      BY <2>2, <2>3, <2>6, <3>1, <3>2, AppendIs
    <3>4. Held(F[n]) = S \cap {Registry[i] : i \in 1..n}
      BY <2>3, <2>6, <2>7, <3>3
    <3> QED BY <2>1, <3>3, <3>4
  <2> QED BY <2>5, <2>6
<1>7. Good = 0..N
  <2>1. Good \in SUBSET (0..N)
    OBVIOUS
  <2> HIDE DEF Good
  <2> QED BY <1>2, <1>5, <1>6, <2>1, Climbs
<1>8. N \in Good
  <2>1. N \in 0..N
    BY <1>2
  <2> HIDE DEF Good
  <2> QED BY <1>7, <2>1
<1>9. {Registry[i] : i \in 1..N} = Modules
  BY <1>2 DEF Modules
<1> QED BY <1>1, <1>8, <1>9 DEF M

LEMMA PickedHeld == ASSUME NEW S PROVE Held(InRegistryOrder(S)) \subseteq S
BY PickedIs

\* Each module of a sequence comes after those it needs.
NeedsFirst(order, needs) ==
    \A i \in DOMAIN order : needs[order[i]] \subseteq {order[j] : j \in 1..(i - 1)}

LEMMA NeedsFirstAppend ==
    ASSUME NEW S, NEW s \in Seq(S), NEW x \in S, NEW needs, NeedsFirst(s, needs),
           needs[x] \subseteq Held(s)
    PROVE  NeedsFirst(Append(s, x), needs)
<1> DEFINE c == Append(s, x)
           n == Len(s)
<1>1. /\ n \in Nat /\ DOMAIN s = 1..n /\ DOMAIN c = 1..(n + 1)
      /\ c[n + 1] = x /\ \A i \in 1..n : c[i] = s[i]
  OBVIOUS
<1> HIDE DEF c, n
<1>2. SUFFICES ASSUME NEW i \in 1..(n + 1)
               PROVE  needs[c[i]] \subseteq {c[j] : j \in 1..(i - 1)}
  BY <1>1 DEF NeedsFirst, c
<1>3. {c[j] : j \in 1..(i - 1)} = {s[j] : j \in 1..(i - 1)}
  <2>1. \A j \in 1..(i - 1) : j \in 1..n
    BY <1>1
  <2> QED BY <1>1, <2>1
<1>4. CASE i = n + 1
  <2>1. {s[j] : j \in 1..(i - 1)} = Held(s)
    <3>1. i - 1 = n
      BY <1>1, <1>4
    <3> QED BY <1>1, <3>1 DEF Held
  <2> QED BY <1>1, <1>3, <1>4, <2>1
<1>5. CASE i # n + 1
  <2>1. i \in DOMAIN s /\ c[i] = s[i]
    BY <1>1, <1>5
  <2> QED BY <1>3, <2>1 DEF NeedsFirst
<1> QED BY <1>4, <1>5

\* As many different modules as the registry is long are all modules.
LEMMA AllPlaced ==
    ASSUME NEW s \in Seq(Modules), Distinct(s), Len(s) = Len(Registry)
    PROVE  Held(s) = Modules
<1>n. PICK N \in Nat : N = Len(Registry)
  BY ModulesAreFew
<1>1. /\ Len(s) = N /\ DOMAIN s = 1..N /\ s \in [1..N -> Modules]
      /\ IsFiniteSet(Modules) /\ Cardinality(Modules) <= N
  BY <1>n, ModulesAreFew
<1>2. s \in Injection(1..N, Modules)
  BY <1>1 DEF Injection, IsInjective, Distinct
<1>3. IsFiniteSet(1..N) /\ Cardinality(1..N) = N
  <2>1. 1 \in Int /\ N \in Int /\ N - 1 + 1 = N /\ (1 > N => N = 0)
    BY <1>n
  <2> QED BY <2>1, FS_Interval
<1>4. Cardinality(1..N) <= Cardinality(Modules) /\ Cardinality(Modules) \in Nat
  BY <1>1, <1>2, FS_Injection, FS_CardinalityType
<1>5. Cardinality(1..N) = Cardinality(Modules)
  BY <1>1, <1>3, <1>4
<1>6. s \in Surjection(1..N, Modules)
  BY <1>1, <1>2, <1>5, FS_Injection
<1>7. \A m \in Modules : \E i \in 1..N : s[i] = m
  BY <1>6 DEF Surjection
<1> QED BY <1>1, <1>7 DEF Held

\* The loop of _topological_order places each active module once, behind those it
\* needs, and leaves none out all of whose needs are placed.
LEMMA PlacedIs ==
    ASSUME NEW active \in SUBSET Modules, NEW graph
    PROVE  LET order == TopologicalOrder(active, graph)
               needs == [m \in active |-> graph[m] \cap active]
           IN  /\ order \in Seq(active) /\ Distinct(order)
               /\ NeedsFirst(order, needs)
               /\ \A m \in active : needs[m] \subseteq Held(order) => m \in Held(order)
<1>n. PICK N \in Nat : N = Len(Registry)
  BY RegistryIsUnique
<1> DEFINE needs(m) == graph[m] \cap active
           X == [done : Seq(active), queue : Seq(active)]
           x == [done |-> <<>>, queue |-> InRegistryOrder({m \in active : needs(m) = {}})]
           Free(s) == {d \in active : Head(s.queue) \in needs(d) /\
                         \A e \in needs(d) : \E i \in DOMAIN Append(s.done, Head(s.queue)) :
                            Append(s.done, Head(s.queue))[i] = e}
           After(s) == [done |-> Append(s.done, Head(s.queue)),
                        queue |-> Tail(s.queue) \o InRegistryOrder(Free(s))]
           place == [s \in X |-> IF s.queue = <<>> THEN s ELSE After(s)]
           Goes(f) == f = [n \in 0..N |-> IF n = 0 THEN x ELSE place[f[n-1]]]
           req == [m \in active |-> needs(m)]
           F == CHOOSE f : Goes(f)
<1>1. TopologicalOrder(active, graph) = F[N].done
  BY <1>n DEF TopologicalOrder
<1>2. /\ x \in X
      /\ \A s \in X : s.queue # <<>> =>
            /\ Head(s.queue) \in active /\ Tail(s.queue) \in Seq(active)
            /\ InRegistryOrder(Free(s)) \in Seq(active) /\ After(s) \in X
  <2>1. ASSUME NEW T \in SUBSET active
        PROVE  InRegistryOrder(T) \in Seq(active) /\ Held(InRegistryOrder(T)) \subseteq T
    <3>1. InRegistryOrder(T) \in Seq(T \cap Modules) /\ T \cap Modules = T
      BY PickedIs
    <3>2. InRegistryOrder(T) \in Seq(T)
      BY <3>1
    <3> QED BY <3>2, HeldIs
  <2>2. {m \in active : needs(m) = {}} \in SUBSET active
    OBVIOUS
  <2>3. x \in X
    <3> HIDE DEF needs
    <3> QED BY <2>1, <2>2
  <2>4. ASSUME NEW s \in X, s.queue # <<>>
        PROVE  /\ Head(s.queue) \in active /\ Tail(s.queue) \in Seq(active)
               /\ InRegistryOrder(Free(s)) \in Seq(active) /\ After(s) \in X
    <3>1. s.queue \in Seq(active) /\ s.done \in Seq(active)
      OBVIOUS
    <3>2. Head(s.queue) \in active /\ Tail(s.queue) \in Seq(active)
      BY <2>4, <3>1
    <3>3. Free(s) \in SUBSET active
      OBVIOUS
    <3> HIDE DEF Free
    <3>4. InRegistryOrder(Free(s)) \in Seq(active)
      BY <2>1, <3>3
    <3> QED BY <3>1, <3>2, <3>4
  <2> HIDE DEF x, X, Free, After
  <2> QED BY <2>3, <2>4
<1> HIDE DEF x, After
<1>3. /\ place \in [X -> X]
      /\ \A s \in X : place[s] = IF s.queue = <<>> THEN s ELSE After(s)
  <2> HIDE DEF X
  <2> QED BY <1>2
<1> HIDE DEF place
<1>4. Goes(F)
  <2> DEFINE G == [w \in (1..N) \X X |-> place[w[2]]]
  <2>1. G \in [(1..N) \X X -> X] /\ x \in X
    <3> HIDE DEF X
    <3> QED BY <1>2, <1>3
  <2>2. \A n \in 1..N, s \in X : G[<<n, s>>] = place[s]
    <3> HIDE DEF X
    <3> QED OBVIOUS
  <2> HIDE DEF G, X
  <2>r. PICK f : Recurs(f, N, X, x, G)
    BY <2>1, RecursionExists
  <2>3. f \in [0..N -> X] /\ f[0] = x /\ \A i \in 1..N : f[i] = G[<<i, f[i - 1]>>]
    BY <2>r DEF Recurs
  <2>4. ASSUME NEW i \in 0..N
        PROVE  f[i] = IF i = 0 THEN x ELSE place[f[i-1]]
    <3>1. i # 0 => i \in 1..N /\ i - 1 \in 0..N
      OBVIOUS
    <3>2. i # 0 => f[i] = G[<<i, f[i - 1]>>] /\ f[i - 1] \in X
      BY <2>3, <3>1
    <3> QED BY <2>2, <2>3, <3>1, <3>2
  <2>5. f = [i \in 0..N |-> f[i]]
    BY <2>3
  <2>6. Goes(f)
    BY <2>4, <2>5
  <2> HIDE DEF Goes
  <2> QED BY <2>6
<1> HIDE DEF F
<1> DEFINE Sound(s) == /\ s \in X /\ Distinct(s.done) /\ Distinct(s.queue)
                       /\ Held(s.done) \cap Held(s.queue) = {}
                       /\ \A d \in Held(s.done) \cup Held(s.queue) : needs(d) \subseteq Held(s.done)
                       /\ \A d \in active : needs(d) \subseteq Held(s.done) =>
                                            d \in Held(s.done) \cup Held(s.queue)
                       /\ NeedsFirst(s.done, req)
           Good == {n \in 0..N : Sound(F[n]) /\ (F[n].queue = <<>> \/ Len(F[n].done) = n)}
<1>a. \A d \in active : req[d] = needs(d)
  OBVIOUS
<1> HIDE DEF req
<1>5. Sound(x)
  <2> DEFINE T == {m \in active : needs(m) = {}}
  <2>1. InRegistryOrder(T) \in Seq(T \cap Modules) /\ Distinct(InRegistryOrder(T))
    BY PickedIs
  <2>2. Held(InRegistryOrder(T)) \subseteq T
    BY PickedHeld
  <2>3. \A d \in Held(InRegistryOrder(T)) : needs(d) = {}
    BY <2>2
  <2>6. \A d \in active : needs(d) \subseteq {} => d \in Held(InRegistryOrder(T))
    <3>1. T \in SUBSET Modules /\ \A d \in active : needs(d) \subseteq {} => d \in T
      OBVIOUS
    <3> HIDE DEF T, needs
    <3>2. Held(InRegistryOrder(T)) = T
      BY <3>1, PickedIs
    <3> QED BY <3>1, <3>2
  <2>4. x.done = <<>> /\ x.queue = InRegistryOrder(T)
    BY DEF x
  <2> HIDE DEF T, needs, X
  <2>5. Held(<<>>) = {} /\ Distinct(<<>>) /\ NeedsFirst(<<>>, req)
    BY DEF Held, Distinct, NeedsFirst
  <2> QED BY <1>2, <2>1, <2>3, <2>4, <2>5, <2>6
<1>6. ASSUME NEW s \in X, Sound(s), s.queue # <<>> PROVE Sound(After(s))
  <2> DEFINE m == Head(s.queue)
             done == Append(s.done, m)
             free == Free(s)
             new == InRegistryOrder(free)
             old == Tail(s.queue)
  <2>1. /\ m \in active /\ old \in Seq(active) /\ new \in Seq(active) /\ After(s) \in X
        /\ s.done \in Seq(active) /\ s.queue \in Seq(active)
    BY <1>2, <1>6
  <2>2. After(s).done = done /\ After(s).queue = old \o new
    BY DEF After
  <2>3. Held(s.queue) = {m} \cup Held(old)
    BY <1>6, <2>1, SplitIs
  <2>4. Distinct(old) /\ m \notin Held(old)
    <3>1. /\ Len(old) \in Nat /\ Len(s.queue) = Len(old) + 1 /\ s.queue[1] = m
          /\ \A i \in 1..Len(old) : old[i] = s.queue[i + 1]
          /\ DOMAIN old = 1..Len(old) /\ DOMAIN s.queue = 1..(Len(old) + 1)
      BY <1>6, <2>1, SplitIs, HeldIs
    <3> DEFINE q == s.queue
               k == Len(old)
    <3>2. Distinct(q) /\ k \in Nat /\ q[1] = m /\ DOMAIN old = 1..k /\ DOMAIN q = 1..(k + 1)
          /\ \A i \in 1..k : old[i] = q[i + 1]
      BY <1>6, <3>1
    <3> HIDE DEF q, k, old, m
    <3>3. ASSUME NEW i \in 1..k, NEW j \in 1..k, old[i] = old[j] PROVE i = j
      <4>1. i + 1 \in DOMAIN q /\ j + 1 \in DOMAIN q /\ q[i + 1] = q[j + 1]
        BY <3>2, <3>3
      <4>2. i + 1 = j + 1
        BY <3>2, <4>1 DEF Distinct
      <4> QED BY <3>2, <4>2
    <3>4. ASSUME NEW i \in 1..k, old[i] = m PROVE FALSE
      <4>1. i + 1 \in DOMAIN q /\ 1 \in DOMAIN q /\ q[i + 1] = q[1] /\ i + 1 # 1
        BY <3>2, <3>4
      <4> QED BY <3>2, <4>1 DEF Distinct
    <3>5. Distinct(old)
      BY <3>2, <3>3 DEF Distinct
    <3>6. m \notin Held(old)
      BY <3>2, <3>4 DEF Held
    <3> QED BY <3>5, <3>6
  <2>5. done \in Seq(active) /\ Held(done) = Held(s.done) \cup {m} /\ Distinct(done)
    <3>1. m \notin Held(s.done) /\ Distinct(s.done)
      BY <1>6, <2>3
    <3> HIDE DEF m
    <3> QED BY <2>1, <3>1, AppendIs
  <2>f. NeedsFirst(done, req)
    <3>1. m \in Held(s.queue)
      BY <2>3
    <3>2. NeedsFirst(s.done, req) /\ needs(m) \subseteq Held(s.done)
      BY <1>6, <3>1
    <3> HIDE DEF m, needs
    <3>3. req[m] \subseteq Held(s.done)
      BY <1>a, <2>1, <3>2
    <3> QED BY <2>1, <3>2, <3>3, NeedsFirstAppend
  <2>6. new \in Seq(free \cap Modules) /\ Distinct(new)
    BY PickedIs
  <2>7. Held(new) = free
    <3>1. free \in SUBSET Modules
      OBVIOUS
    <3> HIDE DEF free
    <3> QED BY <3>1, PickedIs
  <2>8. \A d \in active : d \in free <=> m \in needs(d) /\ needs(d) \subseteq Held(done)
    BY DEF Held
  <2>s. free \subseteq active
    OBVIOUS
  <2>9. free \cap Held(s.done) = {} /\ free \cap Held(s.queue) = {}
    <3>1. m \notin Held(s.done)
      BY <1>6, <2>3
    <3>2. \A d \in Held(s.done) \cup Held(s.queue) : needs(d) \subseteq Held(s.done)
      BY <1>6
    <3> HIDE DEF free, m, needs
    <3> QED BY <2>8, <2>s, <3>1, <3>2
  <2> HIDE DEF m, done, free, new, old
  <2>10. Held(old) \cap Held(new) = {}
    BY <2>3, <2>7, <2>9
  <2>11. /\ Held(old \o new) = Held(old) \cup Held(new)
         /\ Distinct(old \o new)
    BY <2>1, <2>4, <2>6, <2>10, ConcatIs, ConcatDistinct
  <2>12. Held(done) \cap Held(old \o new) = {}
    BY <1>6, <2>3, <2>4, <2>5, <2>7, <2>9, <2>11
  <2>13. ASSUME NEW d \in Held(done) \cup Held(old \o new) PROVE needs(d) \subseteq Held(done)
    <3>1. d \in Held(s.done) \cup Held(s.queue) \/ d \in free
      BY <2>3, <2>5, <2>7, <2>11, <2>13
    <3>2. d \in Held(s.done) \cup Held(s.queue) => needs(d) \subseteq Held(s.done)
      BY <1>6
    <3> HIDE DEF needs
    <3> QED BY <2>5, <2>8, <2>s, <3>1, <3>2
  <2>14. ASSUME NEW d \in active, needs(d) \subseteq Held(done)
         PROVE  d \in Held(done) \cup Held(old \o new)
    <3>1. needs(d) \subseteq Held(s.done) => d \in Held(s.done) \cup Held(s.queue)
      BY <1>6
    <3> HIDE DEF needs
    <3>2. CASE m \in needs(d)
      BY <2>7, <2>8, <2>11, <2>14, <3>2
    <3>3. CASE m \notin needs(d)
      BY <2>3, <2>5, <2>11, <2>14, <3>1, <3>3
    <3> QED BY <3>2, <3>3
  <2> HIDE DEF needs, X
  <2> QED BY <2>1, <2>2, <2>5, <2>f, <2>11, <2>12, <2>13, <2>14
<1>7. Good = 0..N
  <2>1. Good \in SUBSET (0..N)
    OBVIOUS
  <2>2. 0 \in Good
    <3>1. F[0] = x /\ 0 \in 0..N
      BY <1>4
    <3>2. Len(x.done) = 0
      BY DEF x
    <3> HIDE DEF Sound
    <3> QED BY <1>5, <3>1, <3>2
  <2>3. ASSUME NEW n \in 1..N, n - 1 \in Good PROVE n \in Good
    <3>1. n \in 0..N /\ n # 0
      OBVIOUS
    <3>2. /\ Sound(F[n - 1]) /\ F[n - 1] \in X
          /\ F[n - 1].queue = <<>> \/ Len(F[n - 1].done) = n - 1
      BY <2>3
    <3>3. F[n] = place[F[n - 1]]
      BY <1>4, <3>1
    <3>4. CASE F[n - 1].queue = <<>>
      <4>1. F[n] = F[n - 1]
        <5> HIDE DEF Sound, X
        <5> QED BY <1>3, <3>2, <3>3, <3>4
      <4> HIDE DEF Sound, X
      <4> QED BY <3>1, <3>2, <3>4, <4>1
    <3>5. CASE F[n - 1].queue # <<>>
      <4>1. F[n] = After(F[n - 1])
        <5> HIDE DEF Sound, X
        <5> QED BY <1>3, <3>2, <3>3, <3>5
      <4>2. Len(F[n].done) = n
        <5>1. F[n].done = Append(F[n - 1].done, Head(F[n - 1].queue))
          <6> HIDE DEF Sound, X, Free
          <6> QED BY <4>1 DEF After
        <5>2. F[n - 1].done \in Seq(active) /\ Len(F[n - 1].done) = n - 1
          BY <3>2, <3>5
        <5>3. Len(F[n].done) = (n - 1) + 1
          BY <5>1, <5>2
        <5> QED BY <3>1, <5>3
      <4> HIDE DEF Sound, X
      <4>3. Sound(F[n])
        BY <1>6, <3>2, <3>5, <4>1
      <4> QED BY <3>1, <4>2, <4>3
    <3> QED BY <3>4, <3>5
  <2> HIDE DEF Good
  <2> QED BY <1>n, <2>1, <2>2, <2>3, Climbs
<1>8. Sound(F[N]) /\ (F[N].queue = <<>> \/ Len(F[N].done) = N)
  <2>1. N \in 0..N
    OBVIOUS
  <2>2. \A n \in Good : Sound(F[n]) /\ (F[n].queue = <<>> \/ Len(F[n].done) = n)
    <3> HIDE DEF Sound
    <3> QED OBVIOUS
  <2> HIDE DEF Good, Sound
  <2> QED BY <1>7, <2>1, <2>2
<1>9. F[N].done \in Seq(active) /\ Distinct(F[N].done) /\ NeedsFirst(F[N].done, req)
  BY <1>8
<1>b. ASSUME NEW d \in active, needs(d) \subseteq Held(F[N].done) PROVE d \in Held(F[N].done)
  <2>1. CASE F[N].queue = <<>>
    <3>1. Held(F[N].queue) = {}
      BY <2>1 DEF Held
    <3>2. d \in Held(F[N].done) \cup Held(F[N].queue)
      BY <1>8, <1>b
    <3> QED BY <3>1, <3>2
  <2>2. CASE Len(F[N].done) = N
    <3>1. F[N].done \in Seq(Modules)
      BY <1>9
    <3>2. Held(F[N].done) = Modules
      BY <1>n, <1>9, <2>2, <3>1, AllPlaced
    <3> QED BY <3>2
  <2> QED BY <1>8, <2>1, <2>2
<1> QED BY <1>1, <1>9, <1>b DEF req

\* So does the planner, of the modules that are enabled.
LEMMA PlanIs ==
    ASSUME NEW enabled \in SUBSET Modules, NEW md \in Modes, NEW req
    PROVE  /\ ActivationOrder(req, enabled, md) \in Seq(Modules)
           /\ Distinct(ActivationOrder(req, enabled, md))
           /\ Held(ActivationOrder(req, enabled, md)) \subseteq enabled
<1> DEFINE active == Eligible(enabled, md) \ Blocked(req, enabled, md)
           order == ActivationOrder(req, enabled, md)
<1>1. active \in SUBSET enabled /\ active \in SUBSET Modules
  BY DEF Eligible
<1>2. order = TopologicalOrder(active, RequiredGraph(req, enabled))
  BY DEF ActivationOrder
<1> HIDE DEF active, order
<1>3. order \in Seq(active) /\ Distinct(order)
  BY <1>1, <1>2, PlacedIs
<1>4. order \in Seq(Modules) /\ Held(order) \subseteq active
  BY <1>1, <1>3, HeldIs
<1> QED BY <1>1, <1>3, <1>4 DEF order

\* What CycleMembers computes: for each module the least set that holds what it
\* requires and what the members of the set require.
Reaches(R, graph) ==
    /\ R \in [Modules -> SUBSET Modules]
    /\ \A m \in Modules : graph[m] \subseteq R[m]
    /\ \A m \in Modules : \A d \in R[m] : graph[d] \subseteq R[m]
    /\ \A m \in Modules : \A C \in SUBSET Modules :
         graph[m] \subseteq C /\ (\A d \in C : graph[d] \subseteq C) => R[m] \subseteq C

LEMMA ReachIs ==
    ASSUME NEW graph \in [Modules -> SUBSET Modules]
    PROVE  \E R : Reaches(R, graph) /\ CycleMembers(graph) = {m \in Modules : m \in R[m]}
<1>n. PICK N \in Nat : N = Len(Registry)
  BY ModulesAreFew
<1> DEFINE X == [Modules -> SUBSET Modules]
           After(r) == [m \in Modules |-> r[m] \cup UNION {graph[d] : d \in r[m]}]
           Goes(f) == f = [n \in 0..N |-> IF n = 0 THEN graph ELSE After(f[n-1])]
           F == CHOOSE f : Goes(f)
<1>1. CycleMembers(graph) = {m \in Modules : m \in F[N][m]}
  BY <1>n DEF CycleMembers
<1>2. \A r \in X : After(r) \in X
  <2> SUFFICES ASSUME NEW r \in X, NEW m \in Modules
               PROVE  r[m] \cup UNION {graph[d] : d \in r[m]} \in SUBSET Modules
    OBVIOUS
  <2>1. r[m] \in SUBSET Modules
    OBVIOUS
  <2> QED BY <2>1
<1>3. Goes(F)
  <2> DEFINE G == [w \in (1..N) \X X |-> After(w[2])]
  <2>1. G \in [(1..N) \X X -> X] /\ graph \in X
    <3> HIDE DEF X, After
    <3>1. graph \in X
      BY DEF X
    <3> QED BY <1>2, <3>1
  <2>2. \A n \in 1..N, r \in X : G[<<n, r>>] = After(r)
    <3> HIDE DEF X, After
    <3> QED OBVIOUS
  <2> HIDE DEF G, X, After
  <2>3. PICK f : Recurs(f, N, X, graph, G)
    BY <2>1, RecursionExists
  <2>4. f \in [0..N -> X] /\ f[0] = graph /\ \A i \in 1..N : f[i] = G[<<i, f[i - 1]>>]
    BY <2>3 DEF Recurs
  <2>5. ASSUME NEW i \in 0..N
        PROVE  f[i] = IF i = 0 THEN graph ELSE After(f[i-1])
    <3>1. i # 0 => i \in 1..N /\ i - 1 \in 0..N
      OBVIOUS
    <3>2. i # 0 => f[i] = G[<<i, f[i - 1]>>] /\ f[i - 1] \in X
      BY <2>4, <3>1
    <3> QED BY <2>2, <2>4, <3>1, <3>2
  <2>6. f = [i \in 0..N |-> f[i]]
    BY <2>4
  <2>7. Goes(f)
    BY <2>5, <2>6
  <2> HIDE DEF Goes
  <2> QED BY <2>7
<1> HIDE DEF F
<1>4. /\ 0 \in 0..N /\ N \in 0..N /\ F[0] = graph
      /\ \A n \in 1..N : n \in 0..N /\ n - 1 \in 0..N /\ F[n] = After(F[n-1])
  <2>1. 0 \in 0..N /\ N \in 0..N /\ \A n \in 1..N : n \in 0..N /\ n - 1 \in 0..N /\ n # 0
    OBVIOUS
  <2> HIDE DEF After
  <2> QED BY <1>3, <2>1
<1>5. \A n \in 0..N : F[n] \in X
  <2> DEFINE Good == {n \in 0..N : F[n] \in X}
  <2>1. Good \in SUBSET (0..N) /\ 0 \in Good
    BY <1>4
  <2>2. ASSUME NEW n \in 1..N, n - 1 \in Good PROVE n \in Good
    <3> HIDE DEF After, X
    <3> QED BY <1>2, <1>4, <2>2
  <2> HIDE DEF Good, X
  <2>3. Good = 0..N
    BY <2>1, <2>2, Climbs
  <2> QED BY <2>3 DEF Good
<1>6. ASSUME NEW m \in Modules
      PROVE  /\ graph[m] \subseteq F[N][m] /\ \A d \in F[N][m] : graph[d] \subseteq F[N][m]
             /\ \A C \in SUBSET Modules :
                  graph[m] \subseteq C /\ (\A d \in C : graph[d] \subseteq C) => F[N][m] \subseteq C
  <2> DEFINE G == [T \in SUBSET Modules |-> T \cup UNION {graph[d] : d \in T}]
             f == [n \in 0..N |-> F[n][m]]
  <2>1. /\ G \in [SUBSET Modules -> SUBSET Modules]
        /\ \A T \in SUBSET Modules : T \subseteq G[T]
        /\ \A T \in SUBSET Modules : \A d \in T : graph[d] \subseteq G[T]
        /\ \A C \in SUBSET Modules : (\A d \in C : graph[d] \subseteq C) =>
             \A T \in SUBSET C : G[T] \subseteq C
    <3>1. \A T \in SUBSET Modules : T \cup UNION {graph[d] : d \in T} \in SUBSET Modules
      OBVIOUS
    <3>2. G \in [SUBSET Modules -> SUBSET Modules]
      BY <3>1
    <3>3. \A T \in SUBSET Modules : G[T] = T \cup UNION {graph[d] : d \in T}
      OBVIOUS
    <3> HIDE DEF G
    <3>4. \A T \in SUBSET Modules : T \subseteq G[T] /\ \A d \in T : graph[d] \subseteq G[T]
      BY <3>3
    <3>5. ASSUME NEW C \in SUBSET Modules, \A d \in C : graph[d] \subseteq C,
                 NEW T \in SUBSET C
          PROVE  G[T] \subseteq C
      BY <3>3, <3>5
    <3>6. \A C \in SUBSET Modules : (\A d \in C : graph[d] \subseteq C) =>
            \A T \in SUBSET C : G[T] \subseteq C
      BY <3>5
    <3>7. \A T \in SUBSET Modules : T \subseteq G[T]
      BY <3>4
    <3>8. \A T \in SUBSET Modules : \A d \in T : graph[d] \subseteq G[T]
      BY <3>4
    <3> QED BY <3>2, <3>6, <3>7, <3>8
  <2>2. f \in [0..N -> SUBSET Modules]
    <3>1. \A n \in 0..N : F[n][m] \in SUBSET Modules
      BY <1>5
    <3> QED BY <3>1
  <2>3. ASSUME NEW n \in 1..N PROVE f[n] = G[f[n - 1]]
    <3>1. F[n] = After(F[n-1]) /\ F[n-1][m] \in SUBSET Modules
      BY <1>4, <1>5
    <3>2. f[n] = F[n][m] /\ f[n - 1] = F[n-1][m]
      BY <1>4
    <3>3. F[n][m] = F[n-1][m] \cup UNION {graph[d] : d \in F[n-1][m]}
      BY <3>1
    <3> HIDE DEF f
    <3> QED BY <3>1, <3>2, <3>3
  <2>4. f[0] = graph[m] /\ f[N] = F[N][m]
    BY <1>4
  <2> HIDE DEF G, f
  <2>5. Grows(f, N, Modules, G)
    BY <1>n, <2>1, <2>2, <2>3, ModulesAreFew DEF Grows
  <2>6. Least(f[N], f[0], Modules, G)
    BY <2>5, GrowsToLeast
  <2> QED BY <2>1, <2>4, <2>6 DEF Least
<1>7. Reaches(F[N], graph)
  BY <1>4, <1>5, <1>6 DEF Reaches
<1> QED BY <1>1, <1>7

\* Modules that each require one of them hold a cycle.
LEMMA CycleFound ==
    ASSUME NEW graph \in [Modules -> SUBSET Modules], NEW T \in SUBSET Modules, T # {},
           \A m \in T : graph[m] \cap T # {}
    PROVE  T \cap CycleMembers(graph) # {}
<1>1. PICK R : Reaches(R, graph) /\ CycleMembers(graph) = {m \in Modules : m \in R[m]}
  BY ReachIs
<1>2. /\ \A m \in Modules : R[m] \in SUBSET Modules /\ graph[m] \subseteq R[m]
      /\ \A m \in Modules : \A d \in R[m] : graph[d] \subseteq R[m]
      /\ \A m \in Modules : \A C \in SUBSET Modules :
           graph[m] \subseteq C /\ (\A d \in C : graph[d] \subseteq C) => R[m] \subseteq C
  BY <1>1 DEF Reaches
<1> DEFINE Met(m) == R[m] \cap T
           Sizes == {Cardinality(Met(m)) : m \in T}
<1>3. ASSUME NEW m \in T
      PROVE  IsFiniteSet(Met(m)) /\ Cardinality(Met(m)) \in Nat
  <2>1. Met(m) \in SUBSET Modules
    BY <1>2
  <2> HIDE DEF Met
  <2>2. IsFiniteSet(Met(m))
    BY <2>1, FS_Subset, ModulesAreFew
  <2> QED BY <2>2, FS_CardinalityType
\* Take one from which the fewest of them are reached.
<1>4. PICK m \in T : \A d \in T : Cardinality(Met(m)) <= Cardinality(Met(d))
  <2>1. Sizes \in SUBSET Nat /\ Sizes # {}
    <3> HIDE DEF Met
    <3> QED BY <1>3
  <2>2. PICK k \in Sizes : \A j \in Sizes : ~(<<j, k>> \in OpToRel(<, Nat))
    <3> HIDE DEF Sizes
    <3> QED BY <2>1, WFMin, NatLessThanWellFounded
  <2>3. k \in Nat /\ \A j \in Sizes : j \in Nat /\ ~(j < k)
    <3> HIDE DEF Sizes
    <3> QED BY <2>1, <2>2 DEF OpToRel
  <2>4. PICK m \in T : k = Cardinality(Met(m))
    <3> HIDE DEF Met
    <3> QED OBVIOUS
  <2>5. ASSUME NEW d \in T PROVE Cardinality(Met(m)) <= Cardinality(Met(d))
    <3>1. Cardinality(Met(d)) \in Sizes
      OBVIOUS
    <3> HIDE DEF Sizes
    <3>2. PICK j \in Sizes : j = Cardinality(Met(d))
      BY <3>1
    <3>3. k <= j
      BY <2>3
    <3> HIDE DEF Met
    <3> QED BY <2>4, <3>2, <3>3
  <2> HIDE DEF Met
  <2> QED BY <2>5
<1>5. PICK d \in graph[m] \cap T : TRUE
  OBVIOUS
<1>6. m \in Modules /\ d \in Modules /\ d \in R[m] /\ d \in T
  BY <1>2, <1>5
\* All that is reached from what it requires is reached from it, hence the same.
<1>7. R[d] \subseteq R[m]
  BY <1>2, <1>6
<1>8. Met(d) = Met(m)
  <2>1. Met(d) \in SUBSET Met(m)
    BY <1>7
  <2>2. Cardinality(Met(m)) <= Cardinality(Met(d)) /\ IsFiniteSet(Met(m))
        /\ Cardinality(Met(m)) \in Nat /\ Cardinality(Met(d)) \in Nat
    <3> HIDE DEF Met
    <3> QED BY <1>3, <1>4, <1>6
  <2> HIDE DEF Met
  <2>3. Cardinality(Met(d)) <= Cardinality(Met(m))
    BY <2>1, <2>2, FS_Subset
  <2>4. Cardinality(Met(m)) = Cardinality(Met(d))
    BY <2>2, <2>3
  <2> QED BY <2>1, <2>2, <2>4, FS_Subset
<1>9. d \in R[d]
  BY <1>6, <1>8
<1> QED BY <1>1, <1>6, <1>9

\* A cycle is of modules that each require one of them, and lies in every set that
\* holds one of them and what its members require.
LEMMA CycleIs ==
    ASSUME NEW graph \in [Modules -> SUBSET Modules], NEW S \in SUBSET Modules,
           \A m \in S : graph[m] \subseteq S, S \cap CycleMembers(graph) # {}
    PROVE  \E T \in SUBSET S : T # {} /\ \A m \in T : graph[m] \cap T # {}
<1>1. PICK R : Reaches(R, graph) /\ CycleMembers(graph) = {m \in Modules : m \in R[m]}
  BY ReachIs
<1>2. /\ \A m \in Modules : R[m] \in SUBSET Modules /\ graph[m] \subseteq R[m]
      /\ \A m \in Modules : \A d \in R[m] : graph[d] \subseteq R[m]
      /\ \A m \in Modules : \A C \in SUBSET Modules :
           graph[m] \subseteq C /\ (\A d \in C : graph[d] \subseteq C) => R[m] \subseteq C
  BY <1>1 DEF Reaches
<1>3. PICK c \in S : c \in Modules /\ c \in R[c]
  BY <1>1
<1>4. R[c] \subseteq S
  BY <1>2, <1>3
<1> DEFINE T == {m \in R[c] : c \in R[m]}
<1>5. T \in SUBSET S /\ c \in T
  BY <1>3, <1>4
<1>6. ASSUME NEW m \in T PROVE graph[m] \cap T # {}
  <2>1. m \in Modules /\ m \in R[c] /\ c \in R[m] /\ graph[m] \in SUBSET Modules
    BY <1>2, <1>3
  <2> DEFINE C == graph[m] \cup UNION {R[d] : d \in graph[m]}
  <2>2. C \in SUBSET Modules
    BY <1>2, <2>1
  <2>3. \A d \in C : graph[d] \subseteq C
    <3> SUFFICES ASSUME NEW d \in C, NEW e \in graph[d] PROVE e \in C
      OBVIOUS
    <3>1. CASE d \in graph[m]
      <4>1. e \in R[d]
        BY <1>2, <2>2, <3>1
      <4> QED BY <3>1, <4>1
    <3>2. CASE d \notin graph[m]
      <4>1. PICK b \in graph[m] : d \in R[b]
        BY <3>2
      <4>2. e \in R[b]
        BY <1>2, <2>1, <4>1
      <4> QED BY <4>1, <4>2
    <3> QED BY <3>1, <3>2
  <2>4. R[m] \subseteq C
    <3>1. graph[m] \subseteq C
      OBVIOUS
    <3> HIDE DEF C
    <3> QED BY <1>2, <2>1, <2>2, <2>3, <3>1
  <2>5. PICK d \in graph[m] : d = c \/ c \in R[d]
    BY <2>1, <2>4
  <2>6. d \in R[c]
    BY <1>2, <1>3, <2>1, <2>5
  <2>7. c \in R[d]
    BY <1>3, <2>5
  <2> QED BY <2>5, <2>6, <2>7
<1> QED BY <1>5, <1>6

\* What the loop of build_activation_plan blocks: the least set of modules that holds
\* those blocked at first and each eligible one that requires one of them.
LEMMA BlockedIs ==
    ASSUME NEW req \in [Modules -> SUBSET Modules], NEW enabled \in SUBSET Modules, NEW md \in Modes
    PROVE  LET graph == RequiredGraph(req, enabled)
               B == Blocked(req, enabled, md)
           IN  /\ graph \in [Modules -> SUBSET Modules]
               /\ B \in SUBSET Modules /\ BlockedAtFirst(req, enabled, md) \subseteq B
               /\ \A m \in Eligible(enabled, md) : graph[m] \cap B # {} => m \in B
               /\ \A C \in SUBSET Modules :
                    /\ BlockedAtFirst(req, enabled, md) \subseteq C
                    /\ \A m \in Eligible(enabled, md) : graph[m] \cap C # {} => m \in C
                    => B \subseteq C
<1>n. PICK N \in Nat : N = Len(Registry)
  BY ModulesAreFew
<1> DEFINE graph == RequiredGraph(req, enabled)
           first == BlockedAtFirst(req, enabled, md)
           fit == Eligible(enabled, md)
           X == SUBSET Modules
           After(B) == B \cup {m \in fit : graph[m] \cap B # {}}
           Goes(f) == f = [n \in 0..N |-> IF n = 0 THEN first ELSE After(f[n-1])]
           F == CHOOSE f : Goes(f)
<1>1. Blocked(req, enabled, md) = F[N]
  BY <1>n DEF Blocked
<1>2. graph \in [Modules -> SUBSET Modules] /\ first \in X /\ fit \in SUBSET Modules
  BY DEF RequiredGraph, BlockedAtFirst, Eligible
<1> HIDE DEF graph, first, fit
<1> DEFINE G == [B \in SUBSET Modules |-> After(B)]
<1>3. /\ G \in [SUBSET Modules -> SUBSET Modules]
      /\ \A B \in SUBSET Modules : B \subseteq G[B] /\ G[B] = After(B)
  BY <1>2
<1>4. Goes(F)
  <2> DEFINE H == [w \in (1..N) \X X |-> After(w[2])]
  <2>1. H \in [(1..N) \X X -> X]
    <3>1. \A B \in X : After(B) \in X
      BY <1>2
    <3> HIDE DEF After, X
    <3> QED BY <3>1
  <2>2. \A n \in 1..N, B \in X : H[<<n, B>>] = After(B)
    <3> HIDE DEF X, After
    <3> QED OBVIOUS
  <2> HIDE DEF H, X, After
  <2>3. PICK f : Recurs(f, N, X, first, H)
    BY <1>2, <2>1, RecursionExists
  <2>4. f \in [0..N -> X] /\ f[0] = first /\ \A i \in 1..N : f[i] = H[<<i, f[i - 1]>>]
    BY <2>3 DEF Recurs
  <2>5. ASSUME NEW i \in 0..N
        PROVE  f[i] = IF i = 0 THEN first ELSE After(f[i-1])
    <3>1. i # 0 => i \in 1..N /\ i - 1 \in 0..N
      OBVIOUS
    <3>2. i # 0 => f[i] = H[<<i, f[i - 1]>>] /\ f[i - 1] \in X
      BY <2>4, <3>1
    <3> QED BY <2>2, <2>4, <3>1, <3>2
  <2>6. f = [i \in 0..N |-> f[i]]
    BY <2>4
  <2>7. Goes(f)
    BY <2>5, <2>6
  <2> HIDE DEF Goes
  <2> QED BY <2>7
<1> HIDE DEF F
<1>5. /\ 0 \in 0..N /\ N \in 0..N /\ F[0] = first
      /\ \A n \in 1..N : n \in 0..N /\ n - 1 \in 0..N /\ F[n] = After(F[n-1])
  <2>1. 0 \in 0..N /\ N \in 0..N /\ \A n \in 1..N : n \in 0..N /\ n - 1 \in 0..N /\ n # 0
    OBVIOUS
  <2> HIDE DEF After
  <2> QED BY <1>4, <2>1
<1>6. \A n \in 0..N : F[n] \in X
  <2> DEFINE Good == {n \in 0..N : F[n] \in X}
  <2>1. Good \in SUBSET (0..N) /\ 0 \in Good
    BY <1>2, <1>5
  <2>2. ASSUME NEW n \in 1..N, n - 1 \in Good PROVE n \in Good
    BY <1>2, <1>5, <2>2
  <2> HIDE DEF Good, X
  <2>3. Good = 0..N
    BY <2>1, <2>2, Climbs
  <2> QED BY <2>3 DEF Good
<1>7. Least(F[N], first, Modules, G)
  <2> DEFINE f == [n \in 0..N |-> F[n]]
  <2>1. f \in [0..N -> SUBSET Modules] /\ f[0] = first /\ f[N] = F[N]
    BY <1>5, <1>6
  <2>2. \A n \in 1..N : f[n] = G[f[n - 1]]
    <3> SUFFICES ASSUME NEW n \in 1..N PROVE f[n] = G[f[n - 1]]
      OBVIOUS
    <3>1. F[n - 1] \in SUBSET Modules /\ F[n] = After(F[n-1])
      BY <1>5, <1>6
    <3>2. f[n] = F[n] /\ f[n - 1] = F[n-1]
      BY <1>5
    <3> HIDE DEF f, G, After
    <3> QED BY <1>3, <3>1, <3>2
  <2> HIDE DEF f, G
  <2>3. Grows(f, N, Modules, G)
    <3>1. \A B \in SUBSET Modules : B \subseteq G[B]
      BY <1>3
    <3>2. N \in Nat /\ IsFiniteSet(Modules) /\ Cardinality(Modules) <= N
      BY <1>n, ModulesAreFew
    <3> QED BY <1>3, <2>1, <2>2, <3>1, <3>2 DEF Grows
  <2>4. Least(f[N], f[0], Modules, G)
    BY <2>3, GrowsToLeast
  <2> QED BY <2>1, <2>4
<1> HIDE DEF G
<1>8. F[N] \in SUBSET Modules /\ first \subseteq F[N] /\ G[F[N]] = F[N]
  BY <1>7 DEF Least
<1>9. \A m \in fit : graph[m] \cap F[N] # {} => m \in F[N]
  <2>1. After(F[N]) = F[N]
    <3> HIDE DEF After
    <3> QED BY <1>3, <1>8
  <2> QED BY <2>1
<1>a. ASSUME NEW C \in SUBSET Modules, first \subseteq C,
             \A m \in fit : graph[m] \cap C # {} => m \in C
      PROVE  F[N] \subseteq C
  <2>1. ASSUME NEW T \in SUBSET C PROVE G[T] \subseteq C
    <3>1. T \in SUBSET Modules /\ After(T) \subseteq C
      BY <1>a
    <3> HIDE DEF After
    <3> QED BY <1>3, <3>1
  <2> QED BY <1>7, <1>a, <2>1 DEF Least
<1> QED BY <1>1, <1>2, <1>8, <1>9, <1>a DEF graph, first, fit

\* What is left of the eligible modules is the largest set that can run.
LEMMA ActiveIs ==
    ASSUME NEW req \in [Modules -> SUBSET Modules], NEW enabled \in SUBSET Modules, NEW md \in Modes
    PROVE  LET active == Eligible(enabled, md) \ Blocked(req, enabled, md)
           IN  /\ active = LargestRunnable(req, enabled, md)
               /\ Closed(req, active) /\ Acyclic(req, active)
<1> DEFINE graph == RequiredGraph(req, enabled)
           first == BlockedAtFirst(req, enabled, md)
           fit == Eligible(enabled, md)
           B == Blocked(req, enabled, md)
           active == fit \ B
<1>1. /\ graph \in [Modules -> SUBSET Modules] /\ B \in SUBSET Modules /\ first \subseteq B
      /\ \A m \in fit : graph[m] \cap B # {} => m \in B
      /\ \A C \in SUBSET Modules :
           first \subseteq C /\ (\A m \in fit : graph[m] \cap C # {} => m \in C) => B \subseteq C
  BY BlockedIs
<1>2. /\ \A m \in enabled : graph[m] = req[m] \cap enabled
      /\ fit = enabled \cap Tags[md] /\ fit \in SUBSET Modules
  BY DEF RequiredGraph, Eligible
<1>3. /\ first \in SUBSET enabled
      /\ \A m \in enabled :
           m \in first <=> \/ m \in Unfit \/ req[m] \ enabled # {} \/ m \in CycleMembers(graph)
                           \/ m \in Tags[md] /\ graph[m] \ Tags[md] # {}
  BY DEF BlockedAtFirst
<1> HIDE DEF graph, first, fit, B
<1>4. active \in SUBSET (fit \ Unfit) /\ active \in SUBSET Modules
  BY <1>1, <1>2, <1>3
<1>5. Closed(req, active)
  <2> SUFFICES ASSUME NEW m \in active, NEW d \in req[m] PROVE d \in active
    BY DEF Closed
  <2>1. m \in enabled /\ m \in Tags[md] /\ m \in fit /\ m \notin first /\ m \notin B
    BY <1>1, <1>2
  <2>2. d \in enabled /\ d \in graph[m]
    BY <1>2, <1>3, <2>1
  <2>3. d \in Tags[md]
    BY <1>3, <2>1, <2>2
  <2>4. d \notin B
    BY <1>1, <2>1, <2>2
  <2> QED BY <1>2, <2>2, <2>3, <2>4
<1>6. Acyclic(req, active)
  <2> SUFFICES ASSUME NEW T \in SUBSET active, T # {}, \A m \in T : req[m] \cap T # {}
               PROVE  FALSE
    BY DEF Acyclic
  <2>1. \A m \in T : m \in enabled /\ m \notin first
    BY <1>1, <1>2
  <2>2. \A m \in T : graph[m] \cap T # {}
    BY <1>2, <2>1
  <2>3. T \in SUBSET Modules
    BY <1>4
  <2>4. T \cap CycleMembers(graph) # {}
    BY <1>1, <2>2, <2>3, CycleFound
  <2> QED BY <1>3, <2>1, <2>4
\* No module of a set that can run is blocked.
<1>7. ASSUME NEW S \in SUBSET (fit \ Unfit), Closed(req, S), Acyclic(req, S)
      PROVE  S \subseteq active
  <2>1. /\ \A m \in S : m \in enabled /\ m \in Tags[md] /\ m \notin Unfit /\ m \in fit
        /\ \A m \in S : req[m] \subseteq S /\ graph[m] = req[m]
        /\ S \in SUBSET Modules
    BY <1>2, <1>7 DEF Closed
  <2>2. S \cap CycleMembers(graph) = {}
    <3>1. SUFFICES ASSUME S \cap CycleMembers(graph) # {} PROVE FALSE
      OBVIOUS
    <3>2. \A m \in S : graph[m] \subseteq S
      BY <2>1
    <3>3. graph \in [Modules -> SUBSET Modules] /\ S \in SUBSET Modules
      BY <1>1, <2>1
    <3>4. PICK T \in SUBSET S : T # {} /\ \A m \in T : graph[m] \cap T # {}
      BY <3>1, <3>2, <3>3, CycleIs
    <3> QED BY <1>7, <2>1, <3>4 DEF Acyclic
  <2>3. S \cap first = {}
    BY <1>3, <2>1, <2>2
  <2> DEFINE C == Modules \ S
  <2>4. first \subseteq C
    BY <1>1, <2>3
  <2>5. \A m \in fit : graph[m] \cap C # {} => m \in C
    BY <1>2, <2>1
  <2>6. B \subseteq C
    BY <1>1, <2>4, <2>5
  <2> QED BY <2>1, <2>6
<1>8. active = LargestRunnable(req, enabled, md)
  <2> DEFINE L == {S \in SUBSET (fit \ Unfit) : Closed(req, S) /\ Acyclic(req, S)}
  <2>1. LargestRunnable(req, enabled, md) = UNION L
    BY DEF LargestRunnable, fit
  <2>2. active \in L
    BY <1>4, <1>5, <1>6
  <2>3. \A S \in L : S \subseteq active
    BY <1>7
  <2> HIDE DEF L, active
  <2> QED BY <2>1, <2>2, <2>3
<1> QED BY <1>5, <1>6, <1>8 DEF fit, B

\* build_activation_plan is right for every registry, graph and mode: the plan has the
\* largest set of fit modules that is closed under required dependencies and without
\* a cycle, and each module comes after what it requires.
THEOREM PlannerIsRight ==
    ASSUME NEW req \in [Modules -> SUBSET Modules], NEW enabled \in SUBSET Modules, NEW md \in Modes
    PROVE  /\ Held(ActivationOrder(req, enabled, md)) = LargestRunnable(req, enabled, md)
           /\ DependenciesFirst(req, ActivationOrder(req, enabled, md))
<1> DEFINE active == Eligible(enabled, md) \ Blocked(req, enabled, md)
           graph == RequiredGraph(req, enabled)
           order == ActivationOrder(req, enabled, md)
           needs == [m \in active |-> graph[m] \cap active]
<1>1. active = LargestRunnable(req, enabled, md) /\ Closed(req, active) /\ Acyclic(req, active)
  BY ActiveIs
<1>2. active \in SUBSET enabled /\ active \in SUBSET Modules
  BY DEF Eligible
<1>3. \A m \in active : needs[m] = req[m]
  <2>1. \A m \in active : graph[m] = req[m] \cap enabled /\ req[m] \subseteq active
    BY <1>1, <1>2 DEF RequiredGraph, Closed
  <2> HIDE DEF graph, active
  <2> QED BY <1>2, <2>1
<1>4. order = TopologicalOrder(active, graph)
  BY DEF ActivationOrder
<1> HIDE DEF order, active, graph
<1>5. /\ order \in Seq(active) /\ NeedsFirst(order, needs)
      /\ \A m \in active : needs[m] \subseteq Held(order) => m \in Held(order)
  BY <1>2, <1>4, PlacedIs
<1> HIDE DEF needs
<1>6. Held(order) \subseteq active /\ \A i \in DOMAIN order : order[i] \in active
  BY <1>5, HeldIs
\* Of the modules left out one would need none that is left out.
<1>7. Held(order) = active
  <2>1. SUFFICES ASSUME active \ Held(order) # {} PROVE FALSE
    BY <1>6
  <2>2. PICK m \in active \ Held(order) : req[m] \cap (active \ Held(order)) = {}
    BY <1>1, <2>1 DEF Acyclic
  <2>3. req[m] \subseteq active
    BY <1>1 DEF Closed
  <2> QED BY <1>3, <1>5, <2>2, <2>3
<1>8. DependenciesFirst(req, order)
  BY <1>3, <1>5, <1>6 DEF NeedsFirst, DependenciesFirst
<1> QED BY <1>1, <1>7, <1>8 DEF order

\* What is served is running and planned.
LEMMA ServedIs ==
    ASSUME plan \in Seq(Modules), NEW port \in [Modules -> Nat]
    PROVE  Served(port) \in Seq(Modules) /\ Held(Served(port)) \subseteq RunningModules
<1>n. PICK N \in Nat : N = Len(plan)
  OBVIOUS
<1> DEFINE X == Seq(RunningModules)
           Part(i) == IF plan[i] \in RunningModules THEN [k \in 1..port[plan[i]] |-> plan[i]]
                      ELSE <<>>
           Goes(f) == f = [i \in 0..N |-> IF i = 0 THEN <<>> ELSE f[i-1] \o Part(i)]
           F == CHOOSE f : Goes(f)
           x == <<>>
<1>1. Served(port) = F[N]
  BY <1>n DEF Served
<1>2. \A i \in 1..N : Part(i) \in X
  <2> SUFFICES ASSUME NEW i \in 1..N, plan[i] \in RunningModules
               PROVE  [k \in 1..port[plan[i]] |-> plan[i]] \in X
    OBVIOUS
  <2>1. plan[i] \in Modules
    BY <1>n
  <2> DEFINE m == plan[i]
             c == port[m]
  <2>2. m \in RunningModules /\ c \in Nat
    BY <2>1
  <2> HIDE DEF m, c
  <2>3. [k \in 1..c |-> m] \in X
    BY <2>2
  <2> QED BY <2>3 DEF m, c
<1> HIDE DEF Part
<1>3. x \in X /\ \A i \in 1..N, s \in X : s \o Part(i) \in X
  BY <1>2
<1>4. Goes(F)
  <2> DEFINE G == [w \in (1..N) \X X |-> w[2] \o Part(w[1])]
  <2> HIDE DEF X
  <2>1. G \in [(1..N) \X X -> X] /\ x \in X
    BY <1>3
  <2>2. \A n \in 1..N, s \in X : G[<<n, s>>] = s \o Part(n)
    OBVIOUS
  <2> HIDE DEF G, x
  <2>r. PICK f : Recurs(f, N, X, x, G)
    BY <2>1, RecursionExists
  <2>3. f \in [0..N -> X] /\ f[0] = x /\ \A i \in 1..N : f[i] = G[<<i, f[i - 1]>>]
    BY <2>r DEF Recurs
  <2>4. ASSUME NEW i \in 0..N PROVE f[i] = IF i = 0 THEN x ELSE f[i-1] \o Part(i)
    <3>1. i # 0 => i \in 1..N /\ i - 1 \in 0..N
      OBVIOUS
    <3>2. i # 0 => f[i] = G[<<i, f[i - 1]>>] /\ f[i - 1] \in X
      BY <2>3, <3>1
    <3> QED BY <2>2, <2>3, <3>1, <3>2
  <2>5. f = [i \in 0..N |-> f[i]]
    BY <2>3
  <2>6. Goes(f)
    BY <2>4, <2>5 DEF x
  <2> HIDE DEF Goes
  <2> QED BY <2>6
<1> HIDE DEF F, X
<1> DEFINE Good == {n \in 0..N : F[n] \in X}
<1>5. 0 \in Good
  BY <1>3, <1>4
<1>6. ASSUME NEW n \in 1..N, n - 1 \in Good PROVE n \in Good
  <2>1. n \in 0..N /\ n # 0
    OBVIOUS
  <2>2. F[n] = F[n-1] \o Part(n) /\ F[n-1] \in X
    BY <1>4, <1>6, <2>1
  <2> QED BY <1>3, <2>1, <2>2
<1>7. Good = 0..N
  <2>1. Good \in SUBSET (0..N)
    OBVIOUS
  <2> HIDE DEF Good
  <2> QED BY <1>n, <1>5, <1>6, <2>1, Climbs
<1>8. N \in Good
  <2>1. N \in 0..N
    OBVIOUS
  <2> HIDE DEF Good
  <2> QED BY <1>7, <2>1
<1>9. Served(port) \in Seq(RunningModules) /\ RunningModules \subseteq Modules
  BY <1>1, <1>8 DEF X, RunningModules
<1> QED
  <2> DEFINE s == Served(port)
             R == RunningModules
  <2> HIDE DEF s, R
  <2>1. s \in Seq(R) /\ R \subseteq Modules
    BY <1>9 DEF s, R
  <2>2. s \in Seq(Modules) /\ Held(s) \subseteq R
    BY <2>1, HeldIs
  <2> QED BY <2>2 DEF s, R

-----------------------------------------------------------------------------
(* The invariant *)

Frames(t) == Held(stack[t])
Rest(t) == Held(Tail(stack[t]))

\* The coroutines a manager runs and those every task may run in the loop.
LoopOps == {"stop", "plan", "replan", "startAll", "dependents", "probe", "collect"}
ManageOps == {"stop", "plan", "replan", "startAll", "halt", "start", "health"}
Bases == {"stop", "plan", "replan", "startAll", "probe", "collect"}

\* Which coroutine may wait for which other: <<the one that runs, the one that waits>>.
Above ==
    {<<"stop", "plan">>, <<"halt", "stop">>, <<"halt", "replan">>}
    \cup ({"start", "health"} \X {"startAll"})
    \cup ({"call"} \X {"dependents", "probe", "collect"})
    \cup ({"dependents"} \X {"dependents", "startAll", "probe", "collect"})

Fits(s) ==
    \A i \in DOMAIN s :
        IF i = Len(s) THEN s[i].op \in Bases ELSE <<s[i].op, s[i + 1].op>> \in Above

FrameOK(f) ==
    /\ f.op \in LoopOps => f.at = "loop" /\ f.p = 0
    /\ f.op \in Callees => f.m \in Modules /\ f.at # "loop"
    /\ f.at = "lookup" => f.op \in {"call", "health"}
    /\ f.op = "plan" => f.m \in Modes

Shape == \A t \in Tasks : Fits(stack[t]) /\ \A f \in Frames(t) : FrameOK(f)

\* A manager works alone.
Managing(t) == \E f \in Frames(t) : f.op \in ManageOps
Alone == \A t \in Tasks : Managing(t) => t \in Managers /\ \A u \in Tasks \ {t} : ~Busy(u)

\* Modules in the table are planned, behind what they require; disabled and failed
\* ones are not in the table.
NoneRegistered == \A m \in Modules : ~Registered(m)

PlanInv ==
    /\ Distinct(plan)
    /\ \A m \in Modules : Registered(m) => m \in Held(plan)
    /\ mode = None => NoneRegistered
    /\ \A i, j \in DOMAIN plan : Registered(plan[j]) /\ plan[i] \in requires[plan[j]] => i < j

TableInv == \A m \in disabled \cup failed : ~Registered(m)

\* What a stop still has to stop is the table, and the plan up to some module in
\* reverse; what an activation has still to start is the plan from some module on.
StopOK(f) ==
    /\ Len(f.todo) <= Len(plan)
    /\ \A i \in DOMAIN f.todo : f.todo[i] = plan[Len(f.todo) + 1 - i]
    /\ \A m \in Modules : Registered(m) => m \in Held(f.todo)

StartOK(f) ==
    /\ mode # None /\ Len(f.todo) <= Len(plan)
    /\ \A i \in DOMAIN f.todo : f.todo[i] = plan[Len(plan) - Len(f.todo) + i]
    /\ \A m \in Held(f.todo) : ~Registered(m) /\ m \notin failed /\ m \notin disabled
    /\ \A d \in Modules : Registered(d) => requires[d] \cap Held(f.todo) = {}

\* What a collection has still to ask ran when it began, and failed since or is there.
ServeOK(f) == \A m \in Held(f.todo) : Registered(m) \/ m \in failed

FrameInv(f) ==
    /\ f.op = "stop" => StopOK(f)
    /\ f.op = "startAll" => StartOK(f)
    /\ f.op \in {"probe", "collect"} => ServeOK(f)

FramesInv == \A t \in Tasks : \A f \in Frames(t) : FrameInv(f)

\* What the coroutine that runs, or waits for a process, holds.  A call is over when
\* its module was failed or stopped and the process only has to be waited for.
Over(f) == f.at = "done" \/ (f.at \in {"exit", "yield"} /\ f.next = "done")
Live(p) == p # 0 /\ procs[p] \in {"new", "up"}

TopOK(f, rest) ==
    /\ f.op \in {"start", "health", "call"} /\ f.at # "lookup" => table[f.m] \in {0, f.p}
    /\ f.op \in {"start", "health"} /\ ~Over(f) => Registered(f.m)
    /\ f.op = "halt" /\ Over(f) => ~Live(f.p)
    /\ f.op = "start" => \A d \in Modules : Registered(d) => f.m \notin requires[d]
    /\ f.op = "call" /\ f.at = "lookup" =>
         /\ Registered(f.m) \/ f.m \in failed
         /\ \A r \in rest : r.op \in {"probe", "collect"}
    /\ f.op = "plan" => NoneRegistered
    /\ f.op \in Callees => \A r \in rest : r.op = "startAll" => f.m \notin Held(r.todo)

TopsInv == \A t \in Tasks : Busy(t) => TopOK(Top(t), Rest(t))

\* A process that lives is in the table or about to be stopped; one that is being
\* created has its creator.
Creates(f, p) == f.op = "start" /\ f.at = "spawn" /\ f.p = p
Halts(f, p) == f.op = "halt" /\ f.p = p

ProcsInv ==
    \A p \in Processes :
        /\ Live(p) => \/ \E m \in Modules : table[m] = p
                      \/ \E t \in Tasks : Busy(t) /\ Halts(Top(t), p)
        /\ procs[p] = "new" => \E t \in Tasks : Busy(t) /\ Creates(Top(t), p)

\* Unless the table is being rebuilt, a planned module is in the table, failed or
\* still to be started, or the host was stopped ...
Rebuilding == \E t \in Tasks : \E f \in Frames(t) : f.op \in {"stop", "plan", "replan"}
StartsLater(m) ==
    \E t \in Tasks : \E f \in Frames(t) : f.op = "startAll" /\ m \in Held(f.todo)
Starting == \E t \in Tasks : \E f \in Frames(t) : f.op = "startAll"

PlacedInv ==
    ~Rebuilding =>
        \/ \A m \in Held(plan) : Registered(m) \/ m \in failed \/ StartsLater(m)
        \/ NoneRegistered /\ ~Starting

\* ... and a module whose dependency is gone will be found by the quarantine.
Finds(t, d, m) ==
    \/ Busy(t) /\ Top(t).op = "call" /\ Top(t).at = "err" /\ Top(t).m = d
    \/ Busy(t) /\ Top(t).op \in {"call", "health"} /\ Over(Top(t)) /\ Top(t).m = m
    \/ \E f \in Frames(t) : f.op = "dependents" /\ f.m = m /\ d \in Held(f.todo)

ReachInv ==
    ~Rebuilding =>
        \A d \in Modules : Registered(d) =>
            \A m \in requires[d] : Registered(m) \/ \E t \in Tasks : Finds(t, d, m)

Sound ==
    /\ Shape /\ Alone /\ PlanInv /\ TableInv /\ FramesInv /\ TopsInv /\ ProcsInv
    /\ PlacedInv /\ ReachInv

HostInv == TypeOK /\ Sound

-----------------------------------------------------------------------------
(* Stacks of frames *)

\* A sequence that is not empty.
LEMMA UnconsIs ==
    ASSUME NEW S, NEW r \in Seq(S), r # <<>>
    PROVE  /\ Head(r) \in S /\ Tail(r) \in Seq(S) /\ r = <<Head(r)>> \o Tail(r)
           /\ Held(r) = {Head(r)} \cup Held(Tail(r))
<1> PICK n \in Nat : n = Len(r)
  OBVIOUS
<1>1. Head(r) \in S /\ Tail(r) \in Seq(S) /\ n # 0
  OBVIOUS
<1> DEFINE h == Head(r)
           q == Tail(r)
           c == <<h>> \o q
<1>2. /\ Len(q) = n - 1 /\ r[1] = h
      /\ \A i \in 1..(n - 1) : q[i] = r[i + 1]
  OBVIOUS
<1>3. h \in S /\ q \in Seq(S)
  BY <1>1
<1> HIDE DEF h, q
<1>4. /\ c \in Seq(S) /\ Len(c) = Len(q) + 1 /\ c[1] = h
      /\ \A i \in 1..Len(q) : c[i + 1] = q[i]
      /\ Held(c) = {h} \cup Held(q)
  BY <1>3, ConsIs
<1> HIDE DEF c
<1>5. Len(c) = n
  BY <1>2, <1>4
<1>6. ASSUME NEW i \in 1..n PROVE c[i] = r[i]
  <2>1. CASE i = 1
    BY <1>2, <1>4, <2>1
  <2>2. CASE i # 1
    <3>1. i - 1 \in 1..(n - 1) /\ (i - 1) + 1 = i
      BY <2>2
    <3> QED BY <1>2, <1>4, <1>1, <3>1
  <2> QED BY <2>1, <2>2
<1>7. r = c
  <2>1. c \in Seq(S) /\ r \in Seq(S) /\ Len(c) = Len(r)
    BY <1>4, <1>5
  <2> QED BY <1>6, <2>1
<1> QED BY <1>1, <1>3, <1>4, <1>7 DEF h, q, c

\* Two elements before a sequence.
LEMMA PairIs ==
    ASSUME NEW S, NEW g \in S, NEW f \in S, NEW r \in Seq(S)
    PROVE  <<g, f>> \o r = <<g>> \o (<<f>> \o r)
<1> PICK n \in Nat : n = Len(r)
  OBVIOUS
<1> DEFINE c == <<f>> \o r
           s == <<g>> \o c
           w == <<g, f>> \o r
<1>1. /\ w \in Seq(S) /\ Len(w) = n + 2 /\ w[1] = g /\ w[2] = f
      /\ \A i \in 1..n : w[i + 2] = r[i]
  OBVIOUS
<1>2. /\ c \in Seq(S) /\ Len(c) = n + 1 /\ c[1] = f
      /\ \A i \in 1..n : c[i + 1] = r[i]
  BY ConsIs
<1> HIDE DEF c
<1>3. /\ s \in Seq(S) /\ Len(s) = n + 2 /\ s[1] = g
      /\ \A i \in 1..(n + 1) : s[i + 1] = c[i]
  BY <1>2, ConsIs
<1> HIDE DEF s, w
<1>4. ASSUME NEW i \in 1..(n + 2) PROVE w[i] = s[i]
  <2>1. CASE i = 1
    BY <1>1, <1>3, <2>1
  <2>2. CASE i = 2
    <3>1. 1 \in 1..(n + 1) /\ s[1 + 1] = c[1]
      BY <1>3
    <3> QED BY <1>1, <1>2, <2>2, <3>1
  <2>3. CASE i # 1 /\ i # 2
    <3>1. /\ i - 2 \in 1..n /\ (i - 2) + 2 = i /\ i - 1 \in 1..(n + 1) /\ (i - 1) + 1 = i
          /\ (i - 2) + 1 = i - 1
      BY <2>3
    <3>2. w[i] = r[i - 2]
      BY <1>1, <3>1
    <3>3. s[i] = c[i - 1]
      BY <1>3, <3>1
    <3>4. c[i - 1] = r[i - 2]
      BY <1>2, <3>1
    <3> QED BY <3>2, <3>3, <3>4
  <2> QED BY <2>1, <2>2, <2>3
<1>5. w = s
  <2> PICK k \in Nat : k = n + 2
    OBVIOUS
  <2>1. w \in Seq(S) /\ s \in Seq(S) /\ Len(w) = k /\ Len(s) = k
    BY <1>1, <1>3
  <2>2. \A i \in 1..k : w[i] = s[i]
    BY <1>4
  <2> QED BY <2>1, <2>2
<1> QED BY <1>5 DEF w, s, c

LEMMA TwoIs ==
    ASSUME NEW S, NEW g \in S, NEW f \in S
    PROVE  <<g>> \o <<f>> = <<g, f>>
<1>1. <<g, f>> \o <<>> = <<g>> \o (<<f>> \o <<>>)
  <2>1. <<>> \in Seq(S)
    OBVIOUS
  <2> QED BY <2>1, PairIs
<1>2. <<g, f>> \o <<>> = <<g, f>> /\ <<f>> \o <<>> = <<f>>
  OBVIOUS
<1> QED BY <1>1, <1>2

\* A frame that is put on a stack.
LEMMA FitsIs ==
    ASSUME NEW g \in Frame, NEW r \in Seq(Frame)
    PROVE  Fits(<<g>> \o r) <=> /\ Fits(r)
                                /\ r = <<>> => g.op \in Bases
                                /\ r # <<>> => <<g.op, Head(r).op>> \in Above
<1> DEFINE s == <<g>> \o r
<1>n. PICK n \in Nat : n = Len(r)
  OBVIOUS
<1>1. /\ Len(s) = n + 1 /\ DOMAIN s = 1..(n + 1) /\ DOMAIN r = 1..n /\ s[1] = g
      /\ \A i \in 1..n : s[i + 1] = r[i]
      /\ r = <<>> <=> n = 0
      /\ r # <<>> => Head(r) = r[1]
  BY <1>n
<1> HIDE DEF s
<1> DEFINE Ok(q, k, i) == IF i = k THEN q[i].op \in Bases ELSE <<q[i].op, q[i + 1].op>> \in Above
<1>2. \A i \in 1..n : Ok(s, n + 1, i + 1) <=> Ok(r, n, i)
  <2> SUFFICES ASSUME NEW i \in 1..n PROVE Ok(s, n + 1, i + 1) <=> Ok(r, n, i)
    OBVIOUS
  <2>1. i + 1 = n + 1 <=> i = n
    OBVIOUS
  <2>2. s[i + 1] = r[i] /\ (i # n => i + 1 \in 1..n /\ s[(i + 1) + 1] = r[i + 1])
    BY <1>1
  <2> QED BY <2>1, <2>2
<1>3. Ok(s, n + 1, 1) <=> (n = 0 => g.op \in Bases) /\ (n # 0 => <<g.op, r[1].op>> \in Above)
  <2>1. n # 0 => 1 \in 1..n /\ s[1 + 1] = r[1]
    BY <1>1
  <2>2. 1 = n + 1 <=> n = 0
    OBVIOUS
  <2> QED BY <1>1, <2>1, <2>2
<1>4. Fits(r) <=> \A i \in 1..n : Ok(r, n, i)
  BY <1>1, <1>n DEF Fits
<1>5. Fits(s) <=> \A i \in 1..(n + 1) : Ok(s, n + 1, i)
  BY <1>1 DEF Fits
<1> HIDE DEF Ok
<1>6. Fits(s) <=> Ok(s, n + 1, 1) /\ \A i \in 1..n : Ok(s, n + 1, i + 1)
  <2>1. \A i \in 1..(n + 1) : i = 1 \/ (i - 1 \in 1..n /\ (i - 1) + 1 = i)
    OBVIOUS
  <2>2. 1 \in 1..(n + 1) /\ \A i \in 1..n : i + 1 \in 1..(n + 1)
    OBVIOUS
  <2> QED BY <1>5, <2>1, <2>2
<1> QED BY <1>1, <1>2, <1>3, <1>4, <1>6 DEF s

\* The frames that wait below a coroutine.
LEMMA BelowIs ==
    ASSUME NEW g \in Frame, NEW r \in Seq(Frame), Fits(<<g>> \o r)
    PROVE  /\ g.op \in {"plan", "replan", "startAll", "probe", "collect"} => Held(r) = {}
           /\ g.op = "stop" => \A f \in Held(r) : f.op = "plan"
           /\ g.op = "halt" => \A f \in Held(r) : f.op \in {"stop", "plan", "replan"}
           /\ g.op \in {"start", "health"} => \A f \in Held(r) : f.op = "startAll"
           /\ g.op \in {"halt", "start", "health", "call", "dependents"} => r # <<>>
           /\ r # <<>> => Head(r).op \in LoopOps /\ Head(r) \in Held(r)
           /\ r # <<>> /\ g.op \in {"start", "health"} => Head(r).op = "startAll"
<1>1. /\ Fits(r)
      /\ r = <<>> => g.op \in Bases
      /\ r # <<>> => <<g.op, Head(r).op>> \in Above
  BY FitsIs
<1>2. r = <<>> => Held(r) = {}
  BY HeldIs
<1> DEFINE h == Head(r)
           q == Tail(r)
<1>3. r # <<>> => h \in Frame /\ q \in Seq(Frame) /\ r = <<h>> \o q
  BY UnconsIs
<1>5. r # <<>> => <<g.op, h.op>> \in Above
  BY <1>1 DEF h
<1> HIDE DEF h, q
<1>4. r # <<>> => Held(r) = {h} \cup Held(q)
  BY UnconsIs DEF h, q
<1>6. r # <<>> => /\ Fits(q)
                  /\ q # <<>> => <<h.op, Head(q).op>> \in Above
  BY <1>1, <1>3, FitsIs
<1>7. r # <<>> /\ h.op \in {"plan", "replan", "startAll"} => Held(q) = {}
  <2>1. SUFFICES ASSUME r # <<>>, h.op \in {"plan", "replan", "startAll"} PROVE Held(q) = {}
    OBVIOUS
  <2>2. q = <<>>
    BY <1>6, <2>1 DEF Above
  <2> QED BY <1>3, <2>1, <2>2, HeldIs
<1>8. r # <<>> /\ h.op = "stop" => \A f \in Held(q) : f.op = "plan"
  <2>1. SUFFICES ASSUME r # <<>>, h.op = "stop", q # <<>> PROVE \A f \in Held(q) : f.op = "plan"
    BY <1>3, HeldIs
  <2> DEFINE k == Head(q)
             w == Tail(q)
  <2>2. k \in Frame /\ w \in Seq(Frame) /\ q = <<k>> \o w /\ Held(q) = {k} \cup Held(w)
    BY <1>3, <2>1, UnconsIs
  <2> HIDE DEF w
  <2>3. k.op = "plan"
    BY <1>6, <2>1 DEF Above
  <2> HIDE DEF k
  <2>4. w = <<>>
    <3>1. w # <<>> => <<k.op, Head(w).op>> \in Above
      BY <1>6, <2>1, <2>2, FitsIs
    <3> QED BY <2>3, <3>1 DEF Above
  <2>5. Held(q) = {k}
    BY <2>2, <2>4, HeldIs
  <2> QED BY <2>3, <2>5
<1>9. h.op \in LoopOps \/ r = <<>>
  BY <1>5 DEF Above, LoopOps
<1>a. g.op \in {"plan", "replan", "startAll", "probe", "collect"} => r = <<>>
  BY <1>5 DEF Above
<1>b. r # <<>> /\ g.op = "stop" => h.op = "plan"
  BY <1>5 DEF Above
<1>c. r # <<>> /\ g.op = "halt" => h.op \in {"stop", "replan"}
  BY <1>5 DEF Above
<1>d. r # <<>> /\ g.op \in {"start", "health"} => h.op = "startAll"
  BY <1>5 DEF Above
<1>e. g.op \in {"halt", "start", "health", "call", "dependents"} => r # <<>>
  BY <1>1 DEF Bases
<1>f. r # <<>> => h \in Held(r)
  BY <1>4
<1> QED BY <1>2, <1>4, <1>7, <1>8, <1>9, <1>a, <1>b, <1>c, <1>d, <1>e, <1>f DEF h

\* The frames of a task that is busy.
LEMMA BusyIs ==
    ASSUME TypeOK, Shape, NEW t \in Tasks, Busy(t)
    PROVE  /\ Top(t) \in Frame /\ Tail(stack[t]) \in Seq(Frame)
           /\ stack[t] = <<Top(t)>> \o Tail(stack[t])
           /\ Fits(stack[t]) /\ Fits(Tail(stack[t]))
           /\ Frames(t) = {Top(t)} \cup Rest(t) /\ Rest(t) \subseteq Frame
           /\ \A f \in Frames(t) : FrameOK(f)
           /\ Rest(t) = {} <=> Tail(stack[t]) = <<>>
           /\ Top(t).op \in {"plan", "replan", "startAll", "probe", "collect"} => Rest(t) = {}
           /\ Top(t).op = "stop" => \A f \in Rest(t) : f.op = "plan"
           /\ Top(t).op = "halt" => \A f \in Rest(t) : f.op \in {"stop", "plan", "replan"}
           /\ Top(t).op \in {"start", "health"} => \A f \in Rest(t) : f.op = "startAll"
           /\ Top(t).op \in {"halt", "start", "health", "call", "dependents"} => Rest(t) # {}
           /\ Rest(t) # {} => /\ Head(Tail(stack[t])).op \in LoopOps
                              /\ Head(Tail(stack[t])) \in Rest(t)
<1> DEFINE s == stack[t]
           g == Head(s)
           r == Tail(s)
<1>1. s \in Seq(Frame) /\ s # <<>> /\ Fits(s)
  BY DEF TypeOK, Busy, Shape
<1>2. g \in Frame /\ r \in Seq(Frame) /\ s = <<g>> \o r /\ Held(s) = {g} \cup Held(r)
  <2> HIDE DEF s
  <2> QED BY <1>1, UnconsIs
<1>3. Top(t) = g /\ Frames(t) = Held(s) /\ Rest(t) = Held(r)
  BY DEF Top, Frames, Rest
<1>4. \A f \in Frames(t) : FrameOK(f)
  BY DEF Shape
<1>5. Held(r) \subseteq Frame /\ (r = <<>> <=> Held(r) = {})
  <2> HIDE DEF r
  <2> QED BY <1>2, HeldIs
<1> HIDE DEF g, r
<1>6. Fits(<<g>> \o r)
  BY <1>1, <1>2
<1>7. Fits(r)
  BY <1>2, <1>6, FitsIs
<1>8. /\ g.op \in {"plan", "replan", "startAll", "probe", "collect"} => Held(r) = {}
      /\ g.op = "stop" => \A f \in Held(r) : f.op = "plan"
      /\ g.op = "halt" => \A f \in Held(r) : f.op \in {"stop", "plan", "replan"}
      /\ g.op \in {"start", "health"} => \A f \in Held(r) : f.op = "startAll"
      /\ g.op \in {"halt", "start", "health", "call", "dependents"} => r # <<>>
      /\ r # <<>> => Head(r).op \in LoopOps /\ Head(r) \in Held(r)
  BY <1>2, <1>6, BelowIs
<1>9. r = Tail(stack[t])
  BY DEF r
<1> HIDE DEF s
<1> QED BY <1>1, <1>2, <1>3, <1>4, <1>5, <1>7, <1>8, <1>9 DEF s

\* What a step of one task leaves alone.
Unmoved(t) ==
    \A u \in Tasks : u # t =>
        /\ stack'[u] = stack[u] /\ (Busy(u)' <=> Busy(u))
        /\ Frames(u)' = Frames(u) /\ Top(u)' = Top(u) /\ Rest(u)' = Rest(u)

LEMMA StackMoves ==
    ASSUME TypeOK, Shape, NEW t \in Tasks, NEW s \in Seq(Frame),
           stack' = [stack EXCEPT ![t] = s], Fits(s), \A f \in Held(s) : FrameOK(f)
    PROVE  /\ stack' \in [Tasks -> Seq(Frame)] /\ stack'[t] = s
           /\ Busy(t)' <=> s # <<>>
           /\ Frames(t)' = Held(s) /\ Top(t)' = Head(s) /\ Rest(t)' = Held(Tail(s))
           /\ Unmoved(t) /\ Shape'
<1>1. stack \in [Tasks -> Seq(Frame)]
  BY DEF TypeOK
<1>2. /\ stack' \in [Tasks -> Seq(Frame)] /\ stack'[t] = s
      /\ \A u \in Tasks : u # t => stack'[u] = stack[u]
  BY <1>1
<1>3. /\ Busy(t)' <=> s # <<>>
      /\ Frames(t)' = Held(s) /\ Top(t)' = Head(s) /\ Rest(t)' = Held(Tail(s))
  BY <1>2 DEF Busy, Frames, Top, Rest
<1>4. Unmoved(t)
  BY <1>2 DEF Unmoved, Busy, Frames, Top, Rest
<1>5. Shape'
  <2> SUFFICES ASSUME NEW u \in Tasks
               PROVE  Fits(stack'[u]) /\ \A f \in Frames(u)' : FrameOK(f)
    BY DEF Shape, Fits, FrameOK
  <2> QED BY <1>2, <1>3, <1>4 DEF Shape, Unmoved
<1> QED BY <1>2, <1>3, <1>4, <1>5

\* A coroutine that goes on, or another one that takes its place.
Replaces(op, new) ==
    /\ op \in Bases => new \in Bases
    /\ \A x : <<op, x>> \in Above => <<new, x>> \in Above

LEMMA ReplacesIs ==
    /\ \A op : Replaces(op, op)
    /\ Replaces("start", "health") /\ Replaces("call", "dependents")
    /\ Replaces("health", "dependents") /\ Replaces("plan", "startAll")
BY DEF Replaces, Above, Bases

LEMMA AfterBecome ==
    ASSUME TypeOK, Shape, NEW t \in Tasks, Busy(t), NEW g \in Frame, Become(t, g),
           FrameOK(g), Replaces(Top(t).op, g.op)
    PROVE  /\ stack' \in [Tasks -> Seq(Frame)]
           /\ Busy(t)' /\ Top(t)' = g /\ Rest(t)' = Rest(t) /\ Frames(t)' = {g} \cup Rest(t)
           /\ Unmoved(t) /\ Shape'
<1> DEFINE r == Tail(stack[t])
           s == <<g>> \o r
<1>1. /\ Top(t) \in Frame /\ r \in Seq(Frame) /\ Fits(<<Top(t)>> \o r)
      /\ \A f \in Held(r) : FrameOK(f)
      /\ Held(r) = Rest(t)
  BY BusyIs DEF Rest
<1>2. stack' = [stack EXCEPT ![t] = s]
  BY DEF Become
<1> HIDE DEF r
<1>3. s \in Seq(Frame) /\ Head(s) = g /\ Tail(s) = r /\ Held(s) = {g} \cup Held(r) /\ s # <<>>
  BY <1>1, ConsIs
<1>4. Fits(s)
  BY <1>1, FitsIs DEF Replaces
<1> HIDE DEF s
<1>5. \A f \in Held(s) : FrameOK(f)
  BY <1>1, <1>3
<1> QED BY <1>1, <1>2, <1>3, <1>4, <1>5, StackMoves

\* A coroutine that calls another one.
LEMMA AfterAwait ==
    ASSUME TypeOK, Shape, NEW t \in Tasks, Busy(t), NEW f \in Frame, NEW g \in Frame,
           Await(t, f, g), FrameOK(f), FrameOK(g), f.op = Top(t).op, <<g.op, f.op>> \in Above
    PROVE  /\ stack' \in [Tasks -> Seq(Frame)]
           /\ Busy(t)' /\ Top(t)' = g /\ Rest(t)' = {f} \cup Rest(t)
           /\ Frames(t)' = {g, f} \cup Rest(t)
           /\ Unmoved(t) /\ Shape'
<1> DEFINE r == Tail(stack[t])
           c == <<f>> \o r
           s == <<g>> \o c
<1>1. /\ Top(t) \in Frame /\ r \in Seq(Frame) /\ Fits(<<Top(t)>> \o r)
      /\ \A k \in Held(r) : FrameOK(k)
      /\ Held(r) = Rest(t)
  BY BusyIs DEF Rest
<1> HIDE DEF r
<1>2. stack' = [stack EXCEPT ![t] = s]
  <2>1. g \in Frame /\ f \in Frame /\ r \in Seq(Frame)
    BY <1>1
  <2>2. <<g, f>> \o r = s
    BY ONLY <2>1, PairIs
  <2> QED BY <2>2 DEF Await, r
<1>3. /\ c \in Seq(Frame) /\ Head(c) = f /\ Tail(c) = r /\ Held(c) = {f} \cup Held(r)
      /\ c # <<>>
  BY <1>1, ConsIs
<1>4. Fits(c)
  BY <1>1, FitsIs
<1> HIDE DEF c
<1>5. /\ s \in Seq(Frame) /\ Head(s) = g /\ Tail(s) = c /\ Held(s) = {g} \cup Held(c)
      /\ s # <<>>
  BY <1>3, ConsIs
<1>6. Fits(s)
  BY <1>3, <1>4, FitsIs
<1> HIDE DEF s
<1>7. \A k \in Held(s) : FrameOK(k)
  BY <1>1, <1>3, <1>5
<1>8. /\ stack' \in [Tasks -> Seq(Frame)]
      /\ Busy(t)' <=> s # <<>>
      /\ Frames(t)' = Held(s) /\ Top(t)' = Head(s) /\ Rest(t)' = Held(Tail(s))
      /\ Unmoved(t) /\ Shape'
  BY <1>2, <1>5, <1>6, <1>7, StackMoves
<1> QED BY <1>1, <1>3, <1>5, <1>8

\* A coroutine that returns, and one that raises through every other.
LEMMA AfterReturn ==
    ASSUME TypeOK, Shape, NEW t \in Tasks, Busy(t), Return(t)
    PROVE  /\ stack' \in [Tasks -> Seq(Frame)]
           /\ Busy(t)' <=> Rest(t) # {}
           /\ Frames(t)' = Rest(t)
           /\ Busy(t)' => /\ Top(t)' \in Rest(t) /\ Top(t)'.op \in LoopOps
                         /\ <<Top(t).op, Top(t)'.op>> \in Above
           /\ Busy(t)' => Rest(t)' \subseteq Rest(t)
           /\ Unmoved(t) /\ Shape'
<1> DEFINE s == Tail(stack[t])
<1>1. /\ s \in Seq(Frame) /\ Fits(s) /\ \A f \in Held(s) : FrameOK(f)
      /\ Held(s) = Rest(t) /\ (Rest(t) = {} <=> s = <<>>)
      /\ Rest(t) # {} => Head(s).op \in LoopOps /\ Head(s) \in Rest(t)
      /\ Top(t) \in Frame /\ Fits(<<Top(t)>> \o s)
  BY BusyIs DEF Rest
<1>2. stack' = [stack EXCEPT ![t] = s]
  BY DEF Return
<1> HIDE DEF s
<1>5. s # <<>> => <<Top(t).op, Head(s).op>> \in Above
  BY <1>1, FitsIs
<1>3. s # <<>> => Held(Tail(s)) \subseteq Held(s)
  BY <1>1, UnconsIs
<1>4. /\ stack' \in [Tasks -> Seq(Frame)]
      /\ Busy(t)' <=> s # <<>>
      /\ Frames(t)' = Held(s) /\ Top(t)' = Head(s) /\ Rest(t)' = Held(Tail(s))
      /\ Unmoved(t) /\ Shape'
  BY <1>1, <1>2, StackMoves
<1> QED BY <1>1, <1>3, <1>4, <1>5

LEMMA AfterRaise ==
    ASSUME TypeOK, Shape, NEW t \in Tasks, Raise(t)
    PROVE  /\ stack' \in [Tasks -> Seq(Frame)]
           /\ ~Busy(t)' /\ Frames(t)' = {} /\ Unmoved(t) /\ Shape'
<1> DEFINE s == <<>>
<1>1. s \in Seq(Frame) /\ Fits(s) /\ Held(s) = {}
  BY DEF Fits, Held
<1>2. stack' = [stack EXCEPT ![t] = s]
  BY DEF Raise
<1> QED BY <1>1, <1>2, StackMoves

\* A task that begins with one coroutine, or with one and another after it.
LEMMA AfterBegin ==
    ASSUME TypeOK, Shape, NEW t \in Tasks, NEW g \in Frame,
           stack' = [stack EXCEPT ![t] = <<g>>], FrameOK(g), g.op \in Bases
    PROVE  /\ stack' \in [Tasks -> Seq(Frame)]
           /\ Busy(t)' /\ Top(t)' = g /\ Rest(t)' = {} /\ Frames(t)' = {g}
           /\ Unmoved(t) /\ Shape'
<1> DEFINE r == <<>>
           s == <<g>> \o r
<1>1. r \in Seq(Frame) /\ Fits(r) /\ Held(r) = {}
  BY DEF Fits, Held
<1>2. stack' = [stack EXCEPT ![t] = s]
  <2>1. s = <<g>>
    OBVIOUS
  <2> QED BY <2>1
<1>3. s \in Seq(Frame) /\ s # <<>> /\ Head(s) = g /\ Tail(s) = r /\ Held(s) = {g} \cup Held(r)
  <2> HIDE DEF r
  <2> QED BY <1>1, ConsIs
<1>4. Fits(s)
  BY <1>1, FitsIs
<1> HIDE DEF s
<1>5. \A f \in Held(s) : FrameOK(f)
  BY <1>1, <1>3
<1> QED BY <1>1, <1>2, <1>3, <1>4, <1>5, StackMoves

LEMMA AfterBeginTwo ==
    ASSUME TypeOK, Shape, NEW t \in Tasks, NEW g \in Frame, NEW f \in Frame,
           stack' = [stack EXCEPT ![t] = <<g>> \o <<f>>], FrameOK(g), FrameOK(f),
           f.op \in Bases, <<g.op, f.op>> \in Above
    PROVE  /\ stack' \in [Tasks -> Seq(Frame)]
           /\ Busy(t)' /\ Top(t)' = g /\ Rest(t)' = {f} /\ Frames(t)' = {g, f}
           /\ Unmoved(t) /\ Shape'
<1> DEFINE r == <<>>
           c == <<f>> \o r
           s == <<g>> \o c
<1>1. r \in Seq(Frame) /\ Fits(r) /\ Held(r) = {}
  BY DEF Fits, Held
<1>2. stack' = [stack EXCEPT ![t] = s]
  <2>1. s = <<g>> \o <<f>>
    OBVIOUS
  <2> QED BY <2>1
<1>3. c \in Seq(Frame) /\ c # <<>> /\ Head(c) = f /\ Held(c) = {f} \cup Held(r)
  <2> HIDE DEF r
  <2> QED BY <1>1, ConsIs
<1>4. Fits(c)
  BY <1>1, FitsIs
<1> HIDE DEF c
<1> HIDE DEF r
<1>5. s \in Seq(Frame) /\ s # <<>> /\ Head(s) = g /\ Tail(s) = c /\ Held(s) = {g} \cup Held(c)
  <2>1. c \in Seq(Frame)
    BY <1>3
  <2> QED BY ONLY <2>1, g \in Frame, ConsIs
<1>6. Fits(s)
  BY <1>3, <1>4, FitsIs
<1> HIDE DEF s
<1>7. \A k \in Held(s) : FrameOK(k)
  BY <1>1, <1>3, <1>5
<1>8. /\ stack' \in [Tasks -> Seq(Frame)] /\ (Busy(t)' <=> s # <<>>)
      /\ Frames(t)' = Held(s) /\ Top(t)' = Head(s) /\ Rest(t)' = Held(Tail(s))
      /\ Unmoved(t) /\ Shape'
  BY <1>2, <1>5, <1>6, <1>7, StackMoves
<1> QED BY <1>1, <1>3, <1>5, <1>8

-----------------------------------------------------------------------------
(* A coroutine that goes on without changing the table *)

\* A task that is idle has no frames, and a manager that is at work is alone.
LEMMA IdleIs ==
    ASSUME TypeOK, NEW t \in Tasks
    PROVE  Busy(t) <=> Frames(t) # {}
<1>1. stack[t] \in Seq(Frame)
  BY DEF TypeOK
<1> QED BY <1>1, HeldIs DEF Busy, Frames

LEMMA AloneIs ==
    ASSUME TypeOK, Alone, NEW t \in Tasks, Busy(t)
    PROVE  /\ \A u \in Tasks : u # t => ~Managing(u)
           /\ Managing(t) => t \in Managers /\ \A u \in Tasks : u # t => ~Busy(u) /\ Frames(u) = {}
BY IdleIs DEF Alone

LEMMA AloneKeeps ==
    ASSUME TypeOK, Alone, NEW t \in Tasks, Busy(t), Unmoved(t), Managing(t)' => Managing(t)
    PROVE  Alone'
<1>1. ASSUME NEW u \in Tasks, Managing(u)'
      PROVE  u \in Managers /\ \A v \in Tasks \ {u} : ~Busy(v)'
  <2>1. CASE u = t
    BY <1>1, <2>1 DEF Alone, Unmoved
  <2>2. CASE u # t
    <3>1. Managing(u)
      BY <1>1, <2>2 DEF Unmoved, Managing
    <3> QED BY <2>2, <3>1, AloneIs
  <2> QED BY <2>1, <2>2
<1> QED BY <1>1 DEF Alone, Tasks

\* Where the table and the plan stay, what is said of them stays.
LEMMA SameTable ==
    ASSUME UNCHANGED <<config, failed, table>>
    PROVE  /\ \A m : Registered(m)' <=> Registered(m)
           /\ NoneRegistered' <=> NoneRegistered
           /\ PlanInv' <=> PlanInv
           /\ TableInv' <=> TableInv
           /\ \A f : FrameInv(f)' <=> FrameInv(f)
<1>1. \A m : Registered(m)' <=> Registered(m)
  BY DEF Registered
<1>2. NoneRegistered' <=> NoneRegistered
  BY <1>1 DEF NoneRegistered
<1>3. PlanInv' <=> PlanInv
  BY <1>1, <1>2 DEF PlanInv, config, Distinct, Held
<1>4. TableInv' <=> TableInv
  BY <1>1 DEF TableInv, config
<1>5. ASSUME NEW f PROVE FrameInv(f)' <=> FrameInv(f)
  <2>1. StopOK(f)' <=> StopOK(f)
    BY <1>1 DEF StopOK, config
  <2>2. StartOK(f)' <=> StartOK(f)
    BY <1>1 DEF StartOK, config
  <2>3. ServeOK(f)' <=> ServeOK(f)
    BY <1>1 DEF ServeOK, config
  <2> QED BY <2>1, <2>2, <2>3 DEF FrameInv
<1> QED BY <1>1, <1>2, <1>3, <1>4, <1>5

\* A coroutine above the loops of the host goes on: it stays with its module, may
\* learn the process of the module, and lets no process come to life but the one it
\* was started for.
GoesOn(t, g) ==
    /\ Busy(t) /\ Become(t, g) /\ UNCHANGED <<config, failed, table>>
    /\ Top(t).op \in Callees /\ g.op = Top(t).op /\ g.m = Top(t).m
    /\ g.at \notin {"loop", "lookup"}
    /\ g.op = "halt" => g.p = Top(t).p /\ (Over(Top(t)) => Over(g)) /\ (Over(g) => ~Live(g.p)')
    /\ g.op # "halt" => /\ Top(t).at # "err" /\ table[g.m] \in {0, g.p}
                        /\ Over(g) <=> Over(Top(t))
    /\ \A p \in Processes :
          /\ Live(p)' => Live(p) \/ (g.op = "start" /\ \E m \in Modules : table[m] = p)
          /\ procs'[p] = "new" => procs[p] = "new" /\ ~Creates(Top(t), p)

LEMMA GoesOnKeeps ==
    ASSUME HostInv, NEW t \in Tasks, NEW g \in Frame, GoesOn(t, g)
    PROVE  Sound'
<1> USE DEF HostInv, Sound, GoesOn
<1>g. g.op \in Callees /\ g.op \notin LoopOps /\ g.op \notin Bases /\ g.m \in Modules
  <2>1. FrameOK(Top(t))
    BY BusyIs
  <2> QED BY <2>1 DEF FrameOK, Callees, LoopOps, Bases
<1>1. /\ Busy(t)' /\ Top(t)' = g /\ Rest(t)' = Rest(t) /\ Frames(t)' = {g} \cup Rest(t)
      /\ Unmoved(t) /\ Shape'
  <2>1. FrameOK(g)
    <3>1. FrameOK(Top(t)) /\ g.op # "plan"
      BY <1>g, BusyIs DEF LoopOps
    <3> QED BY <1>g, <3>1 DEF FrameOK
  <2> QED BY <2>1, ReplacesIs, AfterBecome
<1>2. Frames(t) = {Top(t)} \cup Rest(t) /\ Top(t) \in Frame
  BY BusyIs
<1>3. /\ \A m : Registered(m)' <=> Registered(m)
      /\ NoneRegistered' <=> NoneRegistered
      /\ PlanInv' /\ TableInv'
      /\ \A f : FrameInv(f)' <=> FrameInv(f)
  BY SameTable
\* The loops below and of the other tasks are the same.
<1>4. \A u \in Tasks : \A f : f.op \in LoopOps => (f \in Frames(u)' <=> f \in Frames(u))
  BY <1>g, <1>1, <1>2 DEF Unmoved
<1>5. Alone'
  <2>1. Managing(t)' => Managing(t)
    BY <1>1, <1>2 DEF Managing
  <2> QED BY <1>1, <2>1, AloneKeeps
<1>6. FramesInv'
  <2> SUFFICES ASSUME NEW u \in Tasks, NEW f \in Frames(u)' PROVE FrameInv(f)
    BY <1>3 DEF FramesInv
  <2>1. CASE f \in Frames(u)
    BY <2>1 DEF FramesInv
  <2>2. CASE f \notin Frames(u)
    <3>1. f = g
      BY <1>1, <1>2, <2>2 DEF Unmoved
    <3> QED BY <1>g, <3>1 DEF FrameInv, LoopOps
  <2> QED BY <2>1, <2>2
<1>7. TopsInv'
  <2> SUFFICES ASSUME NEW u \in Tasks, Busy(u)' PROVE TopOK(Top(u), Rest(u))'
    BY DEF TopsInv
  <2>1. CASE u = t
    <3>1. TopOK(Top(t), Rest(t))
      BY DEF TopsInv
    <3>2. g.op # "plan" /\ g.at # "lookup" /\ g.m = Top(t).m /\ g.op = Top(t).op
      BY <1>g DEF LoopOps
    <3>3. table' = table /\ requires' = requires /\ failed' = failed
      BY DEF config
    <3>4. Top(u)' = g /\ Rest(u)' = Rest(t) /\ (NoneRegistered' <=> NoneRegistered)
      BY <1>1, <1>3, <2>1
    <3> QED BY <3>1, <3>2, <3>3, <3>4 DEF TopOK, Over, Registered, Live
  <2>2. CASE u # t
    <3>1. TopOK(Top(u), Rest(u)) /\ Top(u)' = Top(u) /\ Rest(u)' = Rest(u)
      BY <1>1, <2>2 DEF TopsInv, Unmoved
    <3>2. Top(u).op # "halt"
      <4>1. Busy(u) /\ ~Managing(u)
        BY <1>1, <2>2, AloneIs DEF Unmoved
      <4>2. TypeOK /\ Shape /\ u \in Tasks /\ Busy(u)
        BY <4>1
      <4> HIDE DEF HostInv, Sound, GoesOn
      <4>3. Frames(u) = {Top(u)} \cup Rest(u)
        BY ONLY <4>2, BusyIs
      <4> QED BY <4>1, <4>3 DEF Managing, ManageOps
    <3>3. table' = table /\ requires' = requires /\ failed' = failed
          /\ (NoneRegistered' <=> NoneRegistered)
      BY <1>3 DEF config
    <3> QED BY <3>1, <3>2, <3>3 DEF TopOK, Over, Registered
  <2> QED BY <2>1, <2>2
<1>8. ProcsInv'
  <2> SUFFICES ASSUME NEW p \in Processes
               PROVE  /\ Live(p)' => \/ \E m \in Modules : table[m] = p
                                     \/ \E u \in Tasks : Busy(u)' /\ Halts(Top(u)', p)
                      /\ procs'[p] = "new" => \E u \in Tasks : Busy(u)' /\ Creates(Top(u)', p)
    BY DEF ProcsInv, Halts, Creates
  <2>1. ASSUME Live(p)', ~\E m \in Modules : table[m] = p
        PROVE  \E u \in Tasks : Busy(u)' /\ Halts(Top(u)', p)
    <3>1. PICK u \in Tasks : Busy(u) /\ Halts(Top(u), p)
      BY <2>1 DEF ProcsInv
    <3>2. u = t => Halts(g, p)
      BY <3>1 DEF Halts
    <3> QED BY <1>1, <3>1, <3>2 DEF Unmoved
  <2>2. ASSUME procs'[p] = "new"
        PROVE  \E u \in Tasks : Busy(u)' /\ Creates(Top(u)', p)
    <3>1. PICK u \in Tasks : Busy(u) /\ Creates(Top(u), p)
      BY <2>2 DEF ProcsInv
    <3> QED BY <1>1, <2>2, <3>1 DEF Unmoved
  <2> QED BY <2>1, <2>2
<1>9. PlacedInv'
  <2>1. Rebuilding' <=> Rebuilding
    BY <1>4 DEF Rebuilding, LoopOps
  <2>2. \A m : StartsLater(m)' <=> StartsLater(m)
    BY <1>4 DEF StartsLater, LoopOps
  <2>3. Starting' <=> Starting
    BY <1>4 DEF Starting, LoopOps
  <2>4. plan' = plan /\ failed' = failed /\ Held(plan) \subseteq Modules
    BY HeldIs DEF config, TypeOK
  <2> QED BY <1>3, <2>1, <2>2, <2>3, <2>4 DEF PlacedInv
<1>a. ReachInv'
  <2>1. Rebuilding' <=> Rebuilding
    BY <1>4 DEF Rebuilding, LoopOps
  <2>2. ASSUME NEW u \in Tasks, NEW d, NEW m, Finds(u, d, m) PROVE Finds(u, d, m)'
    <3>1. CASE Busy(u) /\ Top(u).op = "call" /\ Top(u).at = "err" /\ Top(u).m = d
      <4>1. Busy(u)' /\ Top(u)' = Top(u)
        BY <1>1, <3>1 DEF Unmoved
      <4> QED BY <3>1, <4>1 DEF Finds
    <3>2. CASE Busy(u) /\ Top(u).op \in {"call", "health"} /\ Over(Top(u)) /\ Top(u).m = m
      <4>1. /\ Busy(u)' /\ Top(u)'.op \in {"call", "health"} /\ Over(Top(u)') /\ Top(u)'.m = m
        BY <1>1, <3>2 DEF Unmoved
      <4> QED BY <4>1 DEF Finds, Over
    <3>3. CASE \E f \in Frames(u) : f.op = "dependents" /\ f.m = m /\ d \in Held(f.todo)
      <4>1. \E f \in Frames(u)' : f.op = "dependents" /\ f.m = m /\ d \in Held(f.todo)
        BY <1>4, <3>3 DEF LoopOps
      <4> QED BY <4>1 DEF Finds
    <3> QED BY <2>2, <3>1, <3>2, <3>3 DEF Finds
  <2>4. requires' = requires
    BY DEF config
  <2> QED BY <1>3, <2>1, <2>2, <2>4 DEF ReachInv
<1> QED BY <1>1, <1>3, <1>5, <1>6, <1>7, <1>8, <1>9, <1>a

\* What the invariant says of a coroutine above the loops.
LEMMA CalleeIs ==
    ASSUME HostInv, NEW t \in Tasks, Busy(t), Top(t).op \in Callees
    PROVE  /\ Top(t) \in Frame /\ Top(t).m \in Modules /\ Top(t).at # "loop"
           /\ Top(t).op # "halt" /\ Top(t).at # "lookup" => table[Top(t).m] \in {0, Top(t).p}
           /\ TopOK(Top(t), Rest(t))
<1>1. Top(t) \in Frame /\ FrameOK(Top(t)) /\ TopOK(Top(t), Rest(t))
  BY BusyIs DEF HostInv, Sound, TopsInv
<1>2. Top(t).m \in Modules /\ Top(t).at # "loop"
  BY <1>1 DEF FrameOK
<1> QED BY <1>1, <1>2 DEF TopOK, Callees

\* A process that is being created has a creator, and no other task runs then.
LEMMA NoneNew ==
    ASSUME HostInv, NEW t \in Tasks, Busy(t), ~(Top(t).op = "start" /\ Top(t).at = "spawn")
    PROVE  \A p \in Processes : procs[p] # "new"
<1> SUFFICES ASSUME NEW p \in Processes, procs[p] = "new" PROVE FALSE
  OBVIOUS
<1>1. PICK u \in Tasks : Busy(u) /\ Creates(Top(u), p)
  BY DEF HostInv, Sound, ProcsInv
<1>2. Top(u) \in Frames(u)
  BY <1>1, BusyIs DEF HostInv, Sound
<1>3. Managing(u)
  BY <1>1, <1>2 DEF Managing, ManageOps, Creates
<1>4. u = t
  BY <1>1, <1>3, AloneIs DEF HostInv, Sound
<1> QED BY <1>1, <1>4 DEF Creates

\* A coroutine that only goes on to another point.
LEMMA GoesOnTo ==
    ASSUME HostInv, NEW t \in Tasks, Busy(t), Top(t).op \in Callees,
           Top(t).at \notin {"spawn", "lookup", "err"},
           NEW at \in WaitPoints \cup {"ask", "ok", "err", "done"},
           Become(t, [Top(t) EXCEPT !.at = at]),
           Over([Top(t) EXCEPT !.at = at]) <=> Over(Top(t)),
           UNCHANGED <<config, failed, table, procs>>
    PROVE  Sound'
<1>1. /\ Top(t) \in Frame /\ Top(t).m \in Modules
      /\ Top(t).op # "halt" => table[Top(t).m] \in {0, Top(t).p}
      /\ TopOK(Top(t), Rest(t))
  BY CalleeIs
<1>2. PICK g \in Frame : g = [Top(t) EXCEPT !.at = at]
  BY <1>1 DEF Frame
<1>3. /\ g.op = Top(t).op /\ g.m = Top(t).m /\ g.p = Top(t).p /\ g.at = at
      /\ at \notin {"loop", "lookup"}
  BY <1>1, <1>2 DEF Frame, WaitPoints
<1>4. Become(t, g) /\ (Over(g) <=> Over(Top(t)))
  BY <1>2
<1>6. g.op = "halt" /\ Over(g) => ~Live(g.p)'
  <2>1. Top(t).op = "halt" /\ Over(Top(t)) => ~Live(Top(t).p)
    BY <1>1 DEF TopOK
  <2> QED BY <1>3, <1>4, <2>1 DEF Live
<1>7. \A p \in Processes : /\ Live(p)' <=> Live(p)
                           /\ procs'[p] = "new" => procs[p] = "new" /\ ~Creates(Top(t), p)
  BY DEF Live, Creates
<1>8. GoesOn(t, g)
  BY <1>1, <1>3, <1>4, <1>6, <1>7 DEF GoesOn
<1> QED BY <1>8, GoesOnKeeps

\* terminate leaves no process of this call behind.
LEMMA TerminateIs ==
    ASSUME HostInv, NEW t \in Tasks, Busy(t), Top(t).op \in Callees,
           Top(t).at \notin {"spawn", "lookup"}, NEW next \in {"err", "done"}, Terminate(t, next)
    PROVE  /\ \E g \in Frame :
                 /\ Become(t, g)
                 /\ g.op = Top(t).op /\ g.m = Top(t).m /\ g.p = Top(t).p
                 /\ g.at \in {"exit", "yield", next} /\ g.next = next
           /\ procs' \in [Processes -> ProcessState]
           /\ \A p \in Processes : /\ procs'[p] # "new" /\ (p # Top(t).p => procs'[p] = procs[p])
                                   /\ Live(p)' => Live(p) /\ p # Top(t).p
<1> DEFINE f == Top(t)
           st == StateOf(f.p)
           at == CASE st = "up"                    -> "exit"
                   [] st \in {"crashed", "ending"} -> "yield"
                   [] OTHER                        -> next
           g == [f EXCEPT !.next = next, !.at = at]
<1>1. f \in Frame /\ procs \in [Processes -> ProcessState]
  BY CalleeIs DEF HostInv, TypeOK
<1>2. \A p \in Processes : procs[p] # "new"
  BY NoneNew
<1>3. procs' = [p \in Processes |->
                   IF p # f.p THEN procs[p]
                   ELSE CASE st = "up"      -> "ending"
                          [] st = "crashed" -> "none"
                          [] OTHER          -> st]
  BY DEF Terminate
<1>4. Become(t, g)
  BY DEF Terminate
<1>5. f.p \in Processes => st = procs[f.p]
  <2>1. 0 \notin Processes
    BY ProcessBound DEF Processes
  <2> QED BY <2>1 DEF StateOf
<1> HIDE DEF st
<1>6. at \in {"exit", "yield", next}
  OBVIOUS
<1> HIDE DEF at
<1>7. g \in Frame /\ g.op = f.op /\ g.m = f.m /\ g.p = f.p /\ g.at = at /\ g.next = next
  BY <1>1, <1>6 DEF Frame, WaitPoints
<1>8. ASSUME NEW p \in Processes
      PROVE  /\ procs'[p] \in ProcessState /\ procs'[p] # "new"
             /\ p # f.p => procs'[p] = procs[p]
             /\ p = f.p => procs'[p] # "up"
  <2>1. CASE p # f.p
    BY <1>1, <1>2, <1>3, <2>1
  <2>2. CASE p = f.p
    <3>1. st = procs[p] /\ st \in ProcessState /\ st # "new"
      BY <1>1, <1>2, <1>5, <2>2
    <3>2. procs'[p] = CASE st = "up"      -> "ending"
                        [] st = "crashed" -> "none"
                        [] OTHER          -> st
      BY <1>3, <2>2
    <3> QED BY <2>2, <3>1, <3>2 DEF ProcessState
  <2> QED BY <2>1, <2>2
<1>9. procs' \in [Processes -> ProcessState]
  <2>1. procs' = [p \in Processes |-> procs'[p]]
    BY <1>3
  <2> QED BY <1>8, <2>1
<1> HIDE DEF g
<1> QED BY <1>4, <1>6, <1>7, <1>8, <1>9 DEF Live

\* The actions that are of this kind.
LEMMA AskKeeps == ASSUME HostInv, NEW t \in Tasks, Ask(t) PROVE Sound'
<1>1. Busy(t) /\ Top(t).op \in Callees /\ Top(t).at = "ask" /\ Top(t) \in Frame
  BY CalleeIs DEF Ask, Turn
<1>2. UNCHANGED <<config, failed, table, procs>>
  BY DEF Ask
<1>3. ASSUME NEW at \in {"err", "io", "wait"} PROVE ~Over([Top(t) EXCEPT !.at = at])
  BY <1>1 DEF Over, Frame
<1>4. PICK at \in {"err", "io", "wait"} : Become(t, [Top(t) EXCEPT !.at = at])
  BY DEF Ask
<1>5. ~Over(Top(t)) /\ at \in WaitPoints \cup {"ask", "ok", "err", "done"}
  BY <1>1 DEF Over, WaitPoints
<1> QED BY <1>1, <1>2, <1>3, <1>4, <1>5, GoesOnTo

LEMMA GrantedKeeps == ASSUME HostInv, NEW t \in Tasks, Granted(t) PROVE Sound'
<1>1. Busy(t) /\ Top(t).op \in Callees /\ Top(t).at = "wait" /\ Top(t) \in Frame
  BY CalleeIs DEF Granted, Turn
<1>2. UNCHANGED <<config, failed, table, procs>>
  BY DEF Granted
<1>3. ASSUME NEW at \in {"err", "io"} PROVE ~Over([Top(t) EXCEPT !.at = at])
  BY <1>1 DEF Over, Frame
<1>4. PICK at \in {"err", "io"} : Become(t, [Top(t) EXCEPT !.at = at])
  BY DEF Granted
<1>5. ~Over(Top(t)) /\ at \in WaitPoints \cup {"ask", "ok", "err", "done"}
  BY <1>1 DEF Over, WaitPoints
<1> QED BY <1>1, <1>2, <1>3, <1>4, <1>5, GoesOnTo

LEMMA AnswerKeeps == ASSUME HostInv, NEW t \in Tasks, Answer(t) PROVE Sound'
<1>1. Busy(t) /\ Top(t).op \in Callees /\ Top(t).at = "io" /\ Top(t) \in Frame
  BY CalleeIs DEF Answer, Turn
<1>2. UNCHANGED <<config, failed, table, procs>> /\ Become(t, [Top(t) EXCEPT !.at = "ok"])
  BY DEF Answer
<1>3. ~Over([Top(t) EXCEPT !.at = "ok"]) /\ ~Over(Top(t))
  BY <1>1 DEF Over, Frame
<1> QED BY <1>1, <1>2, <1>3, GoesOnTo

LEMMA RejectKeeps == ASSUME HostInv, NEW t \in Tasks, Reject(t) PROVE Sound'
<1>1. Busy(t) /\ Top(t).op \in Callees /\ Top(t).at = "ok"
  BY DEF Reject, Turn, Callees
<1>a. Top(t) \in Frame
  BY <1>1, CalleeIs
<1>2. UNCHANGED <<config, failed, table, procs>> /\ Become(t, [Top(t) EXCEPT !.at = "err"])
  BY DEF Reject
<1>3. ~Over([Top(t) EXCEPT !.at = "err"]) /\ ~Over(Top(t))
  BY <1>1, <1>a DEF Over, Frame
<1> QED BY <1>1, <1>2, <1>3, GoesOnTo

LEMMA TerminatedKeeps == ASSUME HostInv, NEW t \in Tasks, Terminated(t) PROVE Sound'
<1>1. Busy(t) /\ Top(t).op \in Callees /\ Top(t).at \in {"exit", "yield"} /\ Top(t) \in Frame
  BY CalleeIs DEF Terminated, Turn
<1>2. /\ UNCHANGED <<config, failed, table, procs>>
      /\ Become(t, [Top(t) EXCEPT !.at = Top(t).next])
  BY DEF Terminated
<1>3. PICK at \in {"err", "done"} : at = Top(t).next
  BY <1>1 DEF Frame
<1>4. Over([Top(t) EXCEPT !.at = at]) <=> Over(Top(t))
  BY <1>1, <1>3 DEF Over, Frame
<1> QED BY <1>1, <1>2, <1>3, <1>4, GoesOnTo

LEMMA LoseKeeps == ASSUME HostInv, NEW t \in Tasks, Lose(t) PROVE Sound'
<1>1. Busy(t) /\ Top(t).op \in Callees /\ Top(t).at = "io" /\ Terminate(t, "err")
  BY DEF Lose, Turn
<1>2. UNCHANGED <<config, failed, table>>
  BY DEF Lose
<1>3. PICK g \in Frame : /\ Become(t, g)
                         /\ g.op = Top(t).op /\ g.m = Top(t).m /\ g.p = Top(t).p
                         /\ g.at \in {"exit", "yield", "err"} /\ g.next = "err"
  BY <1>1, TerminateIs
<1>4. \A p \in Processes : procs'[p] # "new" /\ (Live(p)' => Live(p))
  BY <1>1, TerminateIs
<1>5. ~Over(g) /\ ~Over(Top(t)) /\ g.at \notin {"loop", "lookup"}
  BY <1>1, <1>3 DEF Over
<1>6. g.op # "halt" => table[g.m] \in {0, g.p}
  BY <1>1, <1>3, CalleeIs
<1>7. GoesOn(t, g)
  BY <1>1, <1>2, <1>3, <1>4, <1>5, <1>6 DEF GoesOn
<1> QED BY <1>7, GoesOnKeeps

LEMMA HaltKeeps == ASSUME HostInv, NEW t \in Tasks, Halt(t) PROVE Sound'
<1>1. Busy(t) /\ Top(t).op = "halt" /\ Top(t).at \in {"ok", "err"} /\ Terminate(t, "done")
  BY DEF Halt, Turn
<1>2. UNCHANGED <<config, failed, table>> /\ Top(t).op \in Callees
  BY <1>1 DEF Halt, Callees
<1>3. PICK g \in Frame : /\ Become(t, g)
                         /\ g.op = Top(t).op /\ g.m = Top(t).m /\ g.p = Top(t).p
                         /\ g.at \in {"exit", "yield", "done"} /\ g.next = "done"
  BY <1>1, <1>2, TerminateIs
<1>4. \A p \in Processes : procs'[p] # "new" /\ (Live(p)' => Live(p) /\ p # Top(t).p)
  BY <1>1, <1>2, TerminateIs
<1>5. Over(g) /\ g.at \notin {"loop", "lookup"}
  BY <1>3 DEF Over
<1>6. ~Live(g.p)'
  <2>1. g.p \in Processes \/ g.p = 0
    BY DEF Frame, Processes
  <2> QED BY <1>3, <1>4, <2>1 DEF Live
<1>7. GoesOn(t, g)
  BY <1>1, <1>2, <1>3, <1>4, <1>5, <1>6 DEF GoesOn
<1> QED BY <1>7, GoesOnKeeps

LEMMA SpawnKeeps == ASSUME HostInv, NEW t \in Tasks, Spawn(t) PROVE Sound'
<1>1. Busy(t) /\ Top(t).op = "start" /\ Top(t).op \in Callees /\ Top(t).at = "spawn"
  BY DEF Spawn, Turn, Callees
<1>2. UNCHANGED <<config, failed, table>> /\ ~Over(Top(t))
  BY <1>1 DEF Spawn, Over
<1>3. /\ Top(t) \in Frame /\ Top(t).m \in Modules /\ table[Top(t).m] \in {0, Top(t).p}
      /\ TopOK(Top(t), Rest(t))
  BY <1>1, CalleeIs
<1>4. table[Top(t).m] = Top(t).p
  BY <1>1, <1>2, <1>3 DEF TopOK, Registered
<1>5. \E at \in {"ask", "err"}, st \in {"up", "none"} :
         Become(t, [Top(t) EXCEPT !.at = at]) /\ procs' = [procs EXCEPT ![Top(t).p] = st]
  BY DEF Spawn
<1>6. PICK at \in {"ask", "err"}, st \in {"up", "none"} :
         Become(t, [Top(t) EXCEPT !.at = at]) /\ procs' = [procs EXCEPT ![Top(t).p] = st]
  BY <1>5
<1>7. PICK g \in Frame : g = [Top(t) EXCEPT !.at = at]
  BY <1>3 DEF Frame
<1>8. /\ g.op = Top(t).op /\ g.m = Top(t).m /\ g.p = Top(t).p /\ g.at = at /\ Become(t, g)
  BY <1>3, <1>6, <1>7 DEF Frame
<1>9. ~Over(g) /\ g.at \notin {"loop", "lookup"}
  BY <1>8 DEF Over
<1>a. ASSUME NEW p \in Processes
      PROVE  /\ Live(p)' => Live(p) \/ \E m \in Modules : table[m] = p
             /\ procs'[p] = "new" => procs[p] = "new" /\ ~Creates(Top(t), p)
  <2>1. p # Top(t).p => procs'[p] = procs[p]
    BY <1>6 DEF HostInv, TypeOK
  <2>2. p = Top(t).p => procs'[p] = st
    BY <1>6 DEF HostInv, TypeOK
  <2> QED BY <1>3, <1>4, <2>1, <2>2 DEF Live, Creates
<1>b. GoesOn(t, g)
  BY <1>1, <1>2, <1>3, <1>4, <1>8, <1>9, <1>a DEF GoesOn
<1> QED BY <1>b, GoesOnKeeps

LEMMA UnhealthyKeeps == ASSUME HostInv, NEW t \in Tasks, Unhealthy(t) PROVE Sound'
<1>1. Busy(t) /\ Top(t).op = "health" /\ Top(t).op \in Callees /\ Top(t).at = "ok"
  BY DEF Unhealthy, Turn, Callees
<1>2. UNCHANGED <<config, failed, table, procs>> /\ ~Over(Top(t))
  BY <1>1 DEF Unhealthy, Over
<1>3. Top(t) \in Frame /\ Top(t).m \in Modules /\ table[Top(t).m] \in 0..MaxProcesses
  BY <1>1, CalleeIs DEF HostInv, TypeOK
<1>4. PICK g \in Frame : g = [Top(t) EXCEPT !.p = table[Top(t).m], !.at = "err"]
  BY <1>3 DEF Frame
<1>5. g.op = Top(t).op /\ g.m = Top(t).m /\ g.p = table[g.m] /\ g.at = "err" /\ Become(t, g)
  BY <1>3, <1>4 DEF Frame, Unhealthy
<1>6. \A p \in Processes : /\ Live(p)' <=> Live(p)
                           /\ procs'[p] = "new" => procs[p] = "new" /\ ~Creates(Top(t), p)
  BY <1>1, <1>2 DEF Live, Creates
<1>7. GoesOn(t, g)
  BY <1>1, <1>2, <1>5, <1>6 DEF GoesOn, Over
<1> QED BY <1>7, GoesOnKeeps

-----------------------------------------------------------------------------
(* A stack that changes while the table and the processes stay *)

Changes(t) == \E f \in Frames(t) : f.op \in {"stop", "plan", "replan"}
WillStart(t, m) == \E f \in Frames(t) : f.op = "startAll" /\ m \in Held(f.todo)
Starts(t) == \E f \in Frames(t) : f.op = "startAll"

LEMMA StackKeeps ==
    ASSUME HostInv, NEW t \in Tasks, Unmoved(t), Shape', Alone',
           UNCHANGED <<config, failed, table, procs>>,
           \A f \in Frames(t)' : f \in Frames(t) \/ FrameInv(f),
           Busy(t)' => TopOK(Top(t), Rest(t))',
           \A p \in Processes : Busy(t) /\ Halts(Top(t), p) /\ Live(p) =>
              Busy(t)' /\ Halts(Top(t)', p),
           \A p \in Processes : Busy(t) => ~Creates(Top(t), p),
           ~Changes(t)' => \/ ~Changes(t)
                           \/ NoneRegistered /\ \A u \in Tasks : ~Starts(u)',
           ~Changes(t)' => \A m \in Modules : WillStart(t, m) => WillStart(t, m)',
           ~Changes(t)' => (Starts(t)' => Starts(t) \/ Changes(t)),
           ~Changes(t)' => \A d, m \in Modules :
              Registered(d) /\ m \in requires[d] /\ ~Registered(m) /\ Finds(t, d, m) =>
                 Finds(t, d, m)'
    PROVE  Sound'
<1> USE DEF HostInv, Sound
<1>3. /\ \A m : Registered(m)' <=> Registered(m)
      /\ NoneRegistered' <=> NoneRegistered
      /\ PlanInv' /\ TableInv'
      /\ \A f : FrameInv(f)' <=> FrameInv(f)
  BY SameTable
<1>6. FramesInv'
  <2> SUFFICES ASSUME NEW u \in Tasks, NEW f \in Frames(u)' PROVE FrameInv(f)
    BY <1>3 DEF FramesInv
  <2>1. f \in Frames(u) => FrameInv(f)
    BY DEF FramesInv
  <2>2. u # t => f \in Frames(u)
    BY DEF Unmoved
  <2> QED BY <2>1, <2>2
<1>7. TopsInv'
  <2> SUFFICES ASSUME NEW u \in Tasks, Busy(u)', u # t PROVE TopOK(Top(u), Rest(u))'
    BY DEF TopsInv
  <2>1. Busy(u) /\ Top(u)' = Top(u) /\ Rest(u)' = Rest(u)
    BY DEF Unmoved
  <2>2. TopOK(Top(u), Rest(u))
    BY <2>1 DEF TopsInv
  <2>3. table' = table /\ requires' = requires /\ failed' = failed /\ procs' = procs
        /\ (NoneRegistered' <=> NoneRegistered)
    BY <1>3 DEF config
  <2> QED BY <2>1, <2>2, <2>3 DEF TopOK, Over, Registered, Live
<1>8. ProcsInv'
  <2> SUFFICES ASSUME NEW p \in Processes
               PROVE  /\ Live(p) => \/ \E m \in Modules : table[m] = p
                                    \/ \E u \in Tasks : Busy(u)' /\ Halts(Top(u)', p)
                      /\ procs[p] = "new" => \E u \in Tasks : Busy(u)' /\ Creates(Top(u)', p)
    BY DEF ProcsInv, Halts, Creates, Live
  <2>1. ASSUME Live(p), ~\E m \in Modules : table[m] = p
        PROVE  \E u \in Tasks : Busy(u)' /\ Halts(Top(u)', p)
    <3>1. PICK u \in Tasks : Busy(u) /\ Halts(Top(u), p)
      BY <2>1 DEF ProcsInv
    <3>2. CASE u = t
      BY <2>1, <3>1, <3>2
    <3>3. CASE u # t
      BY <3>1, <3>3 DEF Unmoved
    <3> QED BY <3>2, <3>3
  <2>2. ASSUME procs[p] = "new"
        PROVE  \E u \in Tasks : Busy(u)' /\ Creates(Top(u)', p)
    <3>1. PICK u \in Tasks : Busy(u) /\ Creates(Top(u), p)
      BY <2>2 DEF ProcsInv
    <3>2. u # t
      BY <3>1
    <3> QED BY <3>1, <3>2 DEF Unmoved
  <2> QED BY <2>1, <2>2
<1>4. \A u \in Tasks : u # t =>
         /\ Changes(u)' <=> Changes(u)
         /\ Starts(u)' <=> Starts(u)
         /\ \A m : WillStart(u, m)' <=> WillStart(u, m)
  BY DEF Unmoved, Changes, Starts, WillStart
<1>5. ~Rebuilding' => ~Changes(t)' /\ (~Rebuilding \/ Changes(t))
  <2>1. Rebuilding' <=> \E u \in Tasks : Changes(u)'
    BY DEF Rebuilding, Changes
  <2>2. Rebuilding <=> \E u \in Tasks : Changes(u)
    BY DEF Rebuilding, Changes
  <2> QED BY <1>4, <2>1, <2>2
<1>e. ~Rebuilding => ~Changes(t)
  BY DEF Rebuilding, Changes
<1>9. PlacedInv'
  <2> SUFFICES ASSUME ~Rebuilding'
               PROVE  \/ \A m \in Held(plan) :
                            Registered(m) \/ m \in failed \/ StartsLater(m)'
                      \/ NoneRegistered /\ ~Starting'
    <3>1. plan' = plan /\ failed' = failed
      BY DEF config
    <3> QED BY <1>3, <3>1 DEF PlacedInv
  <2>1. Starting' <=> \E u \in Tasks : Starts(u)'
    BY DEF Starting, Starts
  <2>2. CASE ~Rebuilding
    <3>1. /\ \A m \in Modules : StartsLater(m) => StartsLater(m)'
          /\ Starting' => Starting
      <4>1. \A m : StartsLater(m)' <=> \E u \in Tasks : WillStart(u, m)'
        BY DEF StartsLater, WillStart
      <4>2. \A m : StartsLater(m) <=> \E u \in Tasks : WillStart(u, m)
        BY DEF StartsLater, WillStart
      <4>3. Starting <=> \E u \in Tasks : Starts(u)
        BY DEF Starting, Starts
      <4>4. \A m \in Modules, u \in Tasks : WillStart(u, m) => WillStart(u, m)'
        BY <1>4, <1>5
      <4>5. \A u \in Tasks : Starts(u)' => Starts(u)
        BY <1>4, <1>5, <1>e, <2>2
      <4> QED BY <2>1, <4>1, <4>2, <4>3, <4>4, <4>5
    <3>2. Held(plan) \subseteq Modules
      BY HeldIs DEF TypeOK
    <3> QED BY <2>2, <3>1, <3>2 DEF PlacedInv
  <2>3. CASE Rebuilding
    BY <1>5, <2>1, <2>3
  <2> QED BY <2>2, <2>3
<1>a. ReachInv'
  <2> SUFFICES ASSUME ~Rebuilding', NEW d \in Modules, Registered(d), NEW m \in requires[d],
                      ~Registered(m)
               PROVE  \E u \in Tasks : Finds(u, d, m)'
    BY <1>3 DEF ReachInv, config
  <2>1. ~Rebuilding
    BY <1>5 DEF NoneRegistered
  <2>2. PICK u \in Tasks : Finds(u, d, m)
    BY <2>1 DEF ReachInv
  <2>3. m \in Modules
    BY GraphsOfModules DEF TypeOK
  <2>4. CASE u = t
    BY <1>5, <2>2, <2>3, <2>4
  <2>5. CASE u # t
    BY <2>2, <2>5 DEF Unmoved, Finds, Over
  <2> QED BY <2>4, <2>5
<1> QED BY <1>3, <1>6, <1>7, <1>8, <1>9, <1>a

\* A coroutine that returns, or a call that raises through a collection.
LEMMA LeaveKeeps ==
    ASSUME HostInv, NEW t \in Tasks, Busy(t), UNCHANGED <<config, failed, table, procs>>,
           \/ Return(t)
           \/ Raise(t) /\ Top(t).op = "call" /\ \A r \in Rest(t) : r.op \in {"probe", "collect"},
           Top(t).op = "halt" => Over(Top(t)),
           ~(Top(t).op = "start" /\ Top(t).at = "spawn"),
           Top(t).op \in {"call", "health"} => ~Over(Top(t)) /\ Top(t).at # "err",
           Top(t).op \in {"startAll", "dependents"} => Top(t).todo = <<>>,
           Top(t).op \in {"stop", "plan", "replan"} => NoneRegistered
    PROVE  Sound'
<1>1. /\ Frames(t)' \subseteq Rest(t)
      /\ \A f \in Rest(t) : f.op \notin {"probe", "collect"} => f \in Frames(t)'
      /\ Busy(t)' => Top(t)'.op \in LoopOps /\ <<Top(t).op, Top(t)'.op>> \in Above
      /\ Unmoved(t) /\ Shape'
  <2>1. CASE Return(t)
    BY <2>1, AfterReturn DEF HostInv, Sound
  <2>2. CASE Raise(t) /\ \A r \in Rest(t) : r.op \in {"probe", "collect"}
    BY <2>2, AfterRaise DEF HostInv, Sound
  <2> QED BY <2>1, <2>2
<1>2. /\ Frames(t) = {Top(t)} \cup Rest(t)
      /\ Top(t).op = "stop" => \A f \in Rest(t) : f.op = "plan"
      /\ Top(t).op \in {"plan", "replan"} => Rest(t) = {}
  BY BusyIs DEF HostInv, Sound
<1>3. \A f \in Frames(t)' : f \in Frames(t)
  BY <1>1, <1>2
<1>4. Alone'
  <2>1. Managing(t)' => Managing(t)
    BY <1>3 DEF Managing
  <2> QED BY <1>1, <2>1, AloneKeeps DEF HostInv, Sound
<1>5. Busy(t)' => TopOK(Top(t), Rest(t))'
  <2> SUFFICES ASSUME Busy(t)' PROVE TopOK(Top(t), Rest(t))'
    OBVIOUS
  <2>1. PICK g : g = Top(t)'
    OBVIOUS
  <2>2. g.op \in LoopOps /\ (g.op = "plan" => Top(t).op = "stop")
    BY <1>1, <2>1 DEF Above
  <2>3. g.op = "plan" => NoneRegistered'
    BY <2>2 DEF NoneRegistered, Registered
  <2> QED BY <2>1, <2>2, <2>3 DEF TopOK, LoopOps, Callees
<1>6. \A p \in Processes : ~(Busy(t) /\ Halts(Top(t), p) /\ Live(p))
  <2>1. TopOK(Top(t), Rest(t))
    BY DEF HostInv, Sound, TopsInv
  <2> QED BY <2>1 DEF TopOK, Halts, Live
<1>7. \A p \in Processes : ~Creates(Top(t), p)
  BY DEF Creates
<1>8. ~Changes(t)' => ~Changes(t) \/ (NoneRegistered /\ \A u \in Tasks : ~Starts(u)')
  <2> SUFFICES ASSUME ~Changes(t)', Changes(t)
               PROVE  NoneRegistered /\ \A u \in Tasks : ~Starts(u)'
    OBVIOUS
  <2>1. \A f \in Rest(t) : f.op \notin {"stop", "plan", "replan"}
    BY <1>1 DEF Changes
  <2>2. Top(t).op \in {"stop", "plan", "replan"}
    BY <1>2, <2>1 DEF Changes
  <2>3. Frames(t)' = {}
    BY <1>1, <1>2, <2>1, <2>2
  <2>4. Managing(t)
    BY <1>2, <2>2 DEF Managing, ManageOps
  <2>5. \A u \in Tasks : u # t => Frames(u)' = {}
    BY <1>1, <2>4, AloneIs DEF HostInv, Sound, Unmoved
  <2> QED BY <2>2, <2>3, <2>5 DEF Starts
<1>9. \A m \in Modules : WillStart(t, m) => WillStart(t, m)'
  <2> SUFFICES ASSUME NEW m \in Modules, NEW f \in Frames(t), f.op = "startAll",
                      m \in Held(f.todo)
               PROVE  f \in Frames(t)'
    BY DEF WillStart
  <2>1. f # Top(t)
    BY DEF Held
  <2> QED BY <1>1, <1>2, <2>1
<1>a. Starts(t)' => Starts(t)
  BY <1>3 DEF Starts
<1>b. \A d, m \in Modules : Finds(t, d, m) => Finds(t, d, m)'
  <2> SUFFICES ASSUME NEW d \in Modules, NEW m \in Modules, Finds(t, d, m)
               PROVE  \E f \in Frames(t)' : f.op = "dependents" /\ f.m = m /\ d \in Held(f.todo)
    BY DEF Finds
  <2>1. PICK f \in Frames(t) : f.op = "dependents" /\ f.m = m /\ d \in Held(f.todo)
    BY DEF Finds
  <2>2. f # Top(t)
    BY <2>1 DEF Held
  <2> QED BY <1>1, <1>2, <2>1, <2>2
<1> QED BY <1>1, <1>3, <1>4, <1>5, <1>6, <1>7, <1>8, <1>9, <1>a, <1>b, StackKeeps

LEMMA AcceptKeeps == ASSUME HostInv, NEW t \in Tasks, Accept(t) PROVE Sound'
BY LeaveKeeps DEF Accept, Turn, Over

LEMMA LookupKeeps == ASSUME HostInv, NEW t \in Tasks, Lookup(t) PROVE Sound'
<1>1. /\ Busy(t) /\ Top(t).op \in {"call", "health"} /\ Top(t).op \in Callees
      /\ Top(t).at = "lookup" /\ ~Over(Top(t)) /\ UNCHANGED <<config, failed, table, procs>>
  BY DEF Lookup, Turn, Callees, Over
<1>2. /\ Top(t) \in Frame /\ Top(t).m \in Modules /\ TopOK(Top(t), Rest(t))
      /\ table[Top(t).m] \in 0..MaxProcesses
  BY <1>1, CalleeIs DEF HostInv, TypeOK
<1>3. CASE table[Top(t).m] = 0
  <2>1. Raise(t)
    BY <1>3 DEF Lookup
  <2>2. Top(t).op = "call" /\ \A r \in Rest(t) : r.op \in {"probe", "collect"}
    BY <1>1, <1>2, <1>3 DEF TopOK, Registered
  <2> QED BY <1>1, <2>1, <2>2, LeaveKeeps
<1>4. CASE table[Top(t).m] # 0
  <2>1. PICK g \in Frame : g = [Top(t) EXCEPT !.p = table[Top(t).m], !.at = "ask"]
    BY <1>2 DEF Frame
  <2>2. g.op = Top(t).op /\ g.m = Top(t).m /\ g.p = table[g.m] /\ g.at = "ask" /\ Become(t, g)
    BY <1>2, <1>4, <2>1 DEF Frame, Lookup
  <2>3. \A p \in Processes : /\ Live(p)' <=> Live(p)
                             /\ procs'[p] = "new" => procs[p] = "new" /\ ~Creates(Top(t), p)
    BY <1>1 DEF Live, Creates
  <2>4. GoesOn(t, g)
    BY <1>1, <2>2, <2>3 DEF GoesOn, Over
  <2> QED BY <2>4, GoesOnKeeps
<1> QED BY <1>3, <1>4

\* A new frame.
LEMMA NewIs ==
    ASSUME NEW op \in LoopOps \cup Callees, NEW m \in Modules \cup Modes \cup {None},
           NEW p \in 0..MaxProcesses, NEW at \in {"loop", "lookup", "spawn", "ask", "err"},
           NEW todo \in Seq(Modules)
    PROVE  LET g == New(op, m, p, at, todo) IN
           /\ g \in Frame
           /\ g.op = op /\ g.m = m /\ g.p = p /\ g.at = at /\ g.todo = todo /\ ~Over(g)
<1> DEFINE S == Seq(Modules)
           D == Modules \cup Modes \cup {None}
<1>1. todo \in S /\ m \in D
  OBVIOUS
<1>2. Frame = [op : LoopOps \cup Callees, m : D, p : 0..MaxProcesses,
               at : WaitPoints \cup {"loop", "lookup", "ask", "ok", "err", "done"},
               next : {"err", "done"}, todo : S]
  BY DEF Frame, LoopOps, Callees
<1> HIDE DEF S, D
<1>3. New(op, m, p, at, todo) \in Frame
  BY <1>1, <1>2 DEF New, WaitPoints
<1>4. ~Over(New(op, m, p, at, todo))
  BY DEF New, Over
<1> QED BY <1>3, <1>4 DEF New

LEMMA NoTodo == <<>> \in Seq(Modules) /\ 0 \in 0..MaxProcesses /\ None \notin Modes
BY ProcessBound, NoneIsNoMode

\* The registry holds every module.
LEMMA RegistryIs == Registry \in Seq(Modules) /\ Held(Registry) = Modules
BY RegistryIsUnique DEF Held, Modules

\* The failure of a call goes on to the dependents.
LEMMA FailedKeeps == ASSUME HostInv, NEW t \in Tasks, Failed(t) PROVE Sound'
<1>1. Busy(t) /\ Top(t).op \in Callees /\ Top(t).at = "done" /\ Over(Top(t))
  BY DEF Failed, Turn, Callees, Over
<1>2. UNCHANGED <<config, failed, table, procs>>
  BY DEF Failed
<1>3. CASE Top(t).op \in {"start", "halt"}
  <2>1. Return(t)
    BY <1>3 DEF Failed, Turn
  <2> QED BY <1>1, <1>2, <1>3, <2>1, LeaveKeeps
<1>4. CASE Top(t).op \in {"call", "health"}
  <2>1. Top(t) \in Frame /\ Top(t).m \in Modules
    BY <1>1, CalleeIs
  <2>2. PICK g \in Frame : g = New("dependents", Top(t).m, 0, "loop", Registry)
    BY <2>1, RegistryIs, NoTodo, NewIs DEF LoopOps
  <2>3. /\ g.op = "dependents" /\ g.m = Top(t).m /\ g.todo = Registry /\ g.p = 0
        /\ g.at = "loop" /\ Become(t, g)
    BY <1>4, <2>2 DEF New, Failed, Turn
  <2>4. FrameOK(g) /\ FrameInv(g) /\ Replaces(Top(t).op, g.op)
    BY <1>4, <2>3, ReplacesIs DEF FrameOK, FrameInv, Callees
  <2>5. /\ Busy(t)' /\ Top(t)' = g /\ Rest(t)' = Rest(t) /\ Frames(t)' = {g} \cup Rest(t)
        /\ Unmoved(t) /\ Shape'
    BY <1>1, <2>3, <2>4, AfterBecome DEF HostInv, Sound
  <2>6. Frames(t) = {Top(t)} \cup Rest(t)
    BY <1>1, BusyIs DEF HostInv, Sound
  <2>7. Alone'
    <3>1. Managing(t)' => Managing(t)
      BY <2>3, <2>5, <2>6 DEF Managing, ManageOps
    <3> QED BY <1>1, <2>5, <3>1, AloneKeeps DEF HostInv, Sound
  <2>8. TopOK(Top(t), Rest(t))'
    BY <2>3, <2>5 DEF TopOK, Callees
  <2>9. /\ Changes(t)' <=> Changes(t)
        /\ Starts(t)' <=> Starts(t)
        /\ \A m : WillStart(t, m)' <=> WillStart(t, m)
    BY <1>4, <2>3, <2>5, <2>6 DEF Changes, Starts, WillStart
  <2>a. \A d, m \in Modules : Finds(t, d, m) => Finds(t, d, m)'
    <3> SUFFICES ASSUME NEW d \in Modules, NEW m \in Modules, Finds(t, d, m)
                 PROVE  \E f \in Frames(t)' : f.op = "dependents" /\ f.m = m /\ d \in Held(f.todo)
      BY DEF Finds
    <3>1. CASE Top(t).m = m
      <4>1. d \in Held(g.todo)
        BY <2>3, RegistryIs
      <4> QED BY <2>3, <2>5, <3>1, <4>1
    <3>2. CASE Top(t).m # m
      <4>1. \E f \in Frames(t) : f.op = "dependents" /\ f.m = m /\ d \in Held(f.todo)
        BY <1>1, <3>2 DEF Finds
      <4> QED BY <1>4, <2>5, <2>6, <4>1
    <3> QED BY <3>1, <3>2
  <2>b. \A p \in Processes : ~Halts(Top(t), p) /\ ~Creates(Top(t), p)
    BY <1>4 DEF Halts, Creates
  <2> QED BY <1>2, <2>4, <2>5, <2>6, <2>7, <2>8, <2>9, <2>a, <2>b, StackKeeps
<1> QED BY <1>3, <1>4 DEF Failed, Turn

\* The health probe that follows a start.
LEMMA ReadyKeeps == ASSUME HostInv, NEW t \in Tasks, Ready(t) PROVE Sound'
<1>1. /\ Busy(t) /\ Top(t).op = "start" /\ Top(t).op \in Callees /\ Top(t).at = "ok"
      /\ ~Over(Top(t)) /\ UNCHANGED <<config, failed, table, procs>>
  BY DEF Ready, Turn, Callees, Over
<1>2. /\ Top(t) \in Frame /\ Top(t).m \in Modules
      /\ Registered(Top(t).m)
      /\ \A r \in Rest(t) : r.op = "startAll" => Top(t).m \notin Held(r.todo)
  BY <1>1, CalleeIs DEF TopOK
<1>3. PICK g \in Frame : g = New("health", Top(t).m, 0, "lookup", <<>>)
  BY <1>2, NoTodo, NewIs DEF Callees
<1>4. /\ g.op = "health" /\ g.m = Top(t).m /\ g.p = 0 /\ g.at = "lookup" /\ Become(t, g)
  BY <1>3 DEF New, Ready
<1>5. FrameOK(g) /\ FrameInv(g) /\ Replaces(Top(t).op, g.op)
  BY <1>1, <1>2, <1>4, ReplacesIs DEF FrameOK, FrameInv, LoopOps
<1>6. /\ Busy(t)' /\ Top(t)' = g /\ Rest(t)' = Rest(t) /\ Frames(t)' = {g} \cup Rest(t)
      /\ Unmoved(t) /\ Shape'
  BY <1>1, <1>4, <1>5, AfterBecome DEF HostInv, Sound
<1>7. Frames(t) = {Top(t)} \cup Rest(t)
  BY <1>1, BusyIs DEF HostInv, Sound
<1>8. Alone'
  <2>1. Managing(t)
    BY <1>1, <1>7 DEF Managing, ManageOps
  <2> QED BY <1>1, <1>6, <2>1, AloneKeeps DEF HostInv, Sound
<1>9. TopOK(Top(t), Rest(t))'
  <2>1. Registered(g.m)'
    BY <1>1, <1>2, <1>4 DEF Registered
  <2> QED BY <1>2, <1>4, <1>6, <2>1 DEF TopOK, Registered
<1>a. /\ Changes(t)' <=> Changes(t)
      /\ Starts(t)' <=> Starts(t)
      /\ \A m : WillStart(t, m)' <=> WillStart(t, m)
  BY <1>1, <1>4, <1>6, <1>7 DEF Changes, Starts, WillStart
<1>b. \A d, m \in Modules : Finds(t, d, m) => Finds(t, d, m)'
  BY <1>1, <1>6, <1>7 DEF Finds
<1>c. \A p \in Processes : ~Halts(Top(t), p) /\ ~Creates(Top(t), p)
  BY <1>1 DEF Halts, Creates
<1> QED BY <1>1, <1>5, <1>6, <1>7, <1>8, <1>9, <1>a, <1>b, <1>c, StackKeeps

\* A loop that goes on with what is left of its list.
LEMMA TailIs ==
    ASSUME NEW S, NEW s \in Seq(S), s # <<>>
    PROVE  /\ Head(s) \in S /\ Head(s) \in Held(s) /\ Tail(s) \in Seq(S)
           /\ Held(s) = {Head(s)} \cup Held(Tail(s))
           /\ Len(s) \in Nat \ {0} /\ Len(Tail(s)) = Len(s) - 1 /\ Head(s) = s[1]
           /\ DOMAIN Tail(s) = 1..(Len(s) - 1)
           /\ \A i \in 1..(Len(s) - 1) : Tail(s)[i] = s[i + 1]
           /\ Distinct(s) => Head(s) \notin Held(Tail(s))
<1> PICK n \in Nat : n = Len(s)
  OBVIOUS
<1>1. /\ Head(s) \in S /\ Tail(s) \in Seq(S) /\ Held(s) = {Head(s)} \cup Held(Tail(s))
  BY UnconsIs
<1>2. n # 0 /\ DOMAIN s = 1..n /\ Head(s) = s[1]
  OBVIOUS
<1>3. /\ Len(Tail(s)) = n - 1 /\ DOMAIN Tail(s) = 1..(n - 1)
      /\ \A i \in 1..(n - 1) : Tail(s)[i] = s[i + 1]
  OBVIOUS
<1>4. ASSUME Distinct(s), Head(s) \in Held(Tail(s)) PROVE FALSE
  <2>1. PICK i \in 1..(n - 1) : Tail(s)[i] = s[1]
    BY <1>2, <1>3, <1>4 DEF Held
  <2>2. s[i + 1] = s[1] /\ i + 1 \in DOMAIN s /\ 1 \in DOMAIN s /\ i + 1 # 1
    BY <1>2, <1>3, <2>1
  <2> QED BY <1>4, <2>2 DEF Distinct
<1> QED BY <1>1, <1>2, <1>3, <1>4

LEMMA LoopIs ==
    ASSUME HostInv, NEW t \in Tasks, Busy(t), Top(t).op \in LoopOps
    PROVE  /\ Top(t) \in Frame /\ Top(t).todo \in Seq(Modules) /\ Top(t).at = "loop"
           /\ Top(t).p = 0 /\ Top(t).m \in Modules \cup Modes \cup {None}
           /\ Top(t) \in Frames(t) /\ Frames(t) = {Top(t)} \cup Rest(t)
           /\ ~Over(Top(t)) /\ TopOK(Top(t), Rest(t)) /\ FrameInv(Top(t))
           /\ Top(t).op = "plan" => Top(t).m \in Modes
           /\ \A m \in Modules : table[m] \in 0..MaxProcesses
<1>1. /\ Top(t) \in Frame /\ FrameOK(Top(t)) /\ Frames(t) = {Top(t)} \cup Rest(t)
      /\ TopOK(Top(t), Rest(t))
  BY BusyIs DEF HostInv, Sound, TopsInv
<1>2. FrameInv(Top(t))
  BY <1>1 DEF HostInv, Sound, FramesInv
<1>3. \A m \in Modules : table[m] \in 0..MaxProcesses
  BY DEF HostInv, TypeOK
<1>4. /\ Top(t).todo \in Seq(Modules) /\ Top(t).m \in Modules \cup Modes \cup {None}
  BY <1>1 DEF Frame
<1> QED BY <1>1, <1>2, <1>3, <1>4 DEF FrameOK, Over

\* The next of the registry that may depend on the failed module.
LEMMA QuarantineKeeps == ASSUME HostInv, NEW t \in Tasks, QuarantineNext(t) PROVE Sound'
<1> DEFINE d == Head(Top(t).todo)
           Depends == table[d] # 0 /\ Requires(Top(t).m, d)
<1>1. /\ Busy(t) /\ Top(t).op = "dependents" /\ Top(t).op \in LoopOps
      /\ UNCHANGED <<config, failed, table, procs>>
  BY DEF QuarantineNext, Turn, LoopOps
<1>2. /\ Top(t) \in Frame /\ Top(t).todo \in Seq(Modules) /\ Top(t).at = "loop"
      /\ Top(t).p = 0 /\ ~Over(Top(t)) /\ Frames(t) = {Top(t)} \cup Rest(t)
      /\ \A m \in Modules : table[m] \in 0..MaxProcesses
  BY <1>1, LoopIs
<1>3. CASE Top(t).todo = <<>>
  <2>1. Return(t)
    BY <1>3 DEF QuarantineNext
  <2> QED BY <1>1, <1>3, <2>1, LeaveKeeps
<1>4. CASE Top(t).todo # <<>>
  <2>1. /\ d \in Modules /\ Tail(Top(t).todo) \in Seq(Modules)
        /\ Held(Top(t).todo) = {d} \cup Held(Tail(Top(t).todo))
    BY <1>2, <1>4, TailIs
  <2>2. PICK f \in Frame : f = [Top(t) EXCEPT !.todo = Tail(Top(t).todo)]
    BY <1>2, <2>1 DEF Frame
  <2>3. /\ f.op = "dependents" /\ f.m = Top(t).m /\ f.p = 0 /\ f.at = "loop"
        /\ f.todo = Tail(Top(t).todo) /\ ~Over(f)
    BY <1>1, <1>2, <2>2 DEF Frame, Over
  <2>4. FrameOK(f) /\ FrameInv(f)
    BY <2>3 DEF FrameOK, FrameInv, Callees
  <2>s. /\ ~Halts(Top(t), 0) /\ \A p \in Processes : ~Halts(Top(t), p) /\ ~Creates(Top(t), p)
    BY <1>1 DEF Halts, Creates
  <2>5. CASE ~Depends /\ Become(t, f)
    <3>1. /\ Busy(t)' /\ Top(t)' = f /\ Rest(t)' = Rest(t) /\ Frames(t)' = {f} \cup Rest(t)
          /\ Unmoved(t) /\ Shape'
      <4>1. Replaces(Top(t).op, f.op)
        BY <1>1, <2>3, ReplacesIs
      <4> QED BY <1>1, <2>4, <2>5, <4>1, AfterBecome DEF HostInv, Sound
    <3>2. Alone'
      <4>1. Managing(t)' => Managing(t)
        BY <1>2, <2>3, <3>1 DEF Managing, ManageOps
      <4> QED BY <1>1, <3>1, <4>1, AloneKeeps DEF HostInv, Sound
    <3>3. TopOK(Top(t), Rest(t))'
      BY <2>3, <3>1 DEF TopOK, Callees
    <3>4. /\ Changes(t)' <=> Changes(t)
          /\ Starts(t)' <=> Starts(t)
          /\ \A m : WillStart(t, m)' <=> WillStart(t, m)
      BY <1>1, <1>2, <2>3, <3>1 DEF Changes, Starts, WillStart
    <3>5. \A e, m \in Modules :
             Registered(e) /\ m \in requires[e] /\ Finds(t, e, m) => Finds(t, e, m)'
      <4> SUFFICES ASSUME NEW e \in Modules, NEW m \in Modules, Registered(e), m \in requires[e],
                          Finds(t, e, m)
                   PROVE  \E k \in Frames(t)' : k.op = "dependents" /\ k.m = m /\ e \in Held(k.todo)
        BY DEF Finds
      <4>1. PICK k \in Frames(t) : k.op = "dependents" /\ k.m = m /\ e \in Held(k.todo)
        BY <1>1 DEF Finds
      <4>2. k = Top(t) => e \in Held(f.todo)
        BY <2>1, <2>3, <2>5, <4>1 DEF Requires, Registered
      <4> QED BY <1>2, <2>3, <3>1, <4>1, <4>2
    <3> QED BY <1>1, <1>2, <2>4, <2>s, <3>1, <3>2, <3>3, <3>4, <3>5, StackKeeps
  <2>6. CASE Depends /\ Await(t, f, New("call", d, table[d], "err", <<>>))
    <3>1. PICK g \in Frame : g = New("call", d, table[d], "err", <<>>)
      <4>1. table[d] \in 0..MaxProcesses /\ d \in Modules \cup Modes \cup {None}
        BY <1>2, <2>1
      <4> QED BY <4>1, NoTodo, NewIs DEF Callees
    <3>2. g.op = "call" /\ g.m = d /\ g.p = table[d] /\ g.at = "err" /\ ~Over(g)
      BY <3>1 DEF New, Over
    <3>3. FrameOK(g) /\ FrameInv(g)
      BY <2>1, <3>2 DEF FrameOK, FrameInv, LoopOps
    <3>4. <<g.op, f.op>> \in Above
      BY <2>3, <3>2 DEF Above
    <3>5. /\ Busy(t)' /\ Top(t)' = g /\ Rest(t)' = {f} \cup Rest(t)
          /\ Frames(t)' = {g, f} \cup Rest(t) /\ Unmoved(t) /\ Shape'
      BY <1>1, <2>3, <2>4, <2>6, <3>1, <3>3, <3>4, AfterAwait DEF HostInv, Sound
    <3>6. Alone'
      <4>1. Managing(t)' => Managing(t)
        BY <1>2, <2>3, <3>2, <3>5 DEF Managing, ManageOps
      <4> QED BY <1>1, <3>5, <4>1, AloneKeeps DEF HostInv, Sound
    <3>7. TopOK(Top(t), Rest(t))'
      <4>1. \A r \in Rest(t) : r.op = "startAll" => d \notin Held(r.todo)
        <5> SUFFICES ASSUME NEW r \in Rest(t), r.op = "startAll" PROVE d \notin Held(r.todo)
          OBVIOUS
        <5>1. StartOK(r)
          BY <1>2 DEF HostInv, Sound, FramesInv, FrameInv
        <5> QED BY <2>6, <5>1 DEF StartOK, Registered
      <4>2. table' = table
        BY <1>1
      <4>3. Top(t)' = g /\ Rest(t)' = {f} \cup Rest(t)
        BY <3>5
      <4> QED BY <2>3, <3>2, <4>1, <4>2, <4>3 DEF TopOK, Callees
    <3>8. /\ Changes(t)' <=> Changes(t)
          /\ Starts(t)' <=> Starts(t)
          /\ \A m : WillStart(t, m)' <=> WillStart(t, m)
      BY <1>1, <1>2, <2>3, <3>2, <3>5 DEF Changes, Starts, WillStart
    <3>9. \A e, m \in Modules : Finds(t, e, m) => Finds(t, e, m)'
      <4> SUFFICES ASSUME NEW e \in Modules, NEW m \in Modules, Finds(t, e, m)
                   PROVE  Finds(t, e, m)'
        OBVIOUS
      <4>1. PICK k \in Frames(t) : k.op = "dependents" /\ k.m = m /\ e \in Held(k.todo)
        BY <1>1 DEF Finds
      <4>2. k = Top(t) => e = d \/ e \in Held(f.todo)
        BY <2>1, <2>3, <4>1
      <4>3. CASE e = d
        <5>1. Busy(t)' /\ Top(t)'.op = "call" /\ Top(t)'.at = "err" /\ Top(t)'.m = e
          BY <3>2, <3>5, <4>3
        <5> QED BY <5>1 DEF Finds
      <4>4. CASE e # d
        <5>1. \E c \in Frames(t)' : c.op = "dependents" /\ c.m = m /\ e \in Held(c.todo)
          BY <1>2, <2>3, <3>5, <4>1, <4>2, <4>4
        <5> QED BY <5>1 DEF Finds
      <4> QED BY <4>3, <4>4
    <3> QED BY <1>1, <1>2, <2>4, <2>s, <3>3, <3>5, <3>6, <3>7, <3>8, <3>9, StackKeeps
  <2>7. (~Depends /\ Become(t, f)) \/ (Depends /\ Await(t, f, New("call", d, table[d], "err", <<>>)))
    BY <1>2, <1>4, <2>2 DEF QuarantineNext
  <2> QED BY <2>5, <2>6, <2>7
<1> QED BY <1>3, <1>4

\* The next capability of a collection.
LEMMA ServeKeeps == ASSUME HostInv, NEW t \in Tasks, ServeNext(t) PROVE Sound'
<1> DEFINE n == Head(Top(t).todo)
<1>1. /\ Busy(t) /\ Top(t).op \in {"probe", "collect"} /\ Top(t).op \in LoopOps
      /\ UNCHANGED <<config, failed, table, procs>>
  BY DEF ServeNext, Turn, LoopOps
<1>2. /\ Top(t) \in Frame /\ Top(t).todo \in Seq(Modules) /\ Top(t).at = "loop"
      /\ Top(t).p = 0 /\ ~Over(Top(t)) /\ Frames(t) = {Top(t)} \cup Rest(t)
      /\ ServeOK(Top(t))
  BY <1>1, LoopIs DEF FrameInv
<1>3. Rest(t) = {}
  BY <1>1, BusyIs DEF HostInv, Sound
<1>4. CASE Top(t).todo = <<>>
  <2>1. Return(t)
    BY <1>4 DEF ServeNext
  <2> QED BY <1>1, <2>1, LeaveKeeps
<1>5. CASE Top(t).todo # <<>>
  <2>1. /\ n \in Modules /\ Tail(Top(t).todo) \in Seq(Modules)
        /\ Held(Top(t).todo) = {n} \cup Held(Tail(Top(t).todo))
    BY <1>2, <1>5, TailIs
  <2>2. \/ Become(t, [Top(t) EXCEPT !.todo = Tail(Top(t).todo)])
        \/ Await(t, [Top(t) EXCEPT !.todo = Tail(Top(t).todo), !.m = n],
                    New("call", n, 0, "lookup", <<>>))
    BY <1>5 DEF ServeNext
  <2>3. /\ ~Managing(t)
        /\ ~Changes(t) /\ ~Starts(t) /\ \A m : ~WillStart(t, m)
        /\ \A e, m : ~Finds(t, e, m)
        /\ \A p \in Processes : ~Halts(Top(t), p) /\ ~Creates(Top(t), p)
    BY <1>1, <1>2, <1>3
       DEF Managing, ManageOps, Changes, Starts, WillStart, Finds, Halts, Creates
  <2>4. ASSUME NEW f, f.op = Top(t).op, f.todo = Tail(Top(t).todo) PROVE FrameInv(f)
    <3>1. ServeOK(f)
      BY <1>2, <2>1, <2>4 DEF ServeOK
    <3> QED BY <1>1, <2>4, <3>1 DEF FrameInv
  <2>5. CASE Become(t, [Top(t) EXCEPT !.todo = Tail(Top(t).todo)])
    <3>1. PICK f \in Frame : f = [Top(t) EXCEPT !.todo = Tail(Top(t).todo)]
      BY <1>2, <2>1 DEF Frame
    <3>2. /\ f.op = Top(t).op /\ f.p = 0 /\ f.at = "loop"
          /\ f.todo = Tail(Top(t).todo) /\ Become(t, f)
      BY <1>2, <2>5, <3>1 DEF Frame
    <3>3. FrameOK(f) /\ FrameInv(f)
      BY <1>1, <2>4, <3>2 DEF FrameOK, Callees
    <3>4. /\ Busy(t)' /\ Top(t)' = f /\ Rest(t)' = {} /\ Frames(t)' = {f}
          /\ Unmoved(t) /\ Shape'
      <4>1. Replaces(Top(t).op, f.op)
        BY <3>2, ReplacesIs
      <4> QED BY <1>1, <1>3, <3>2, <3>3, <4>1, AfterBecome DEF HostInv, Sound
    <3>5. ~Managing(t)' /\ ~Starts(t)' /\ ~Changes(t)'
      BY <1>1, <3>2, <3>4 DEF Managing, ManageOps, Starts, Changes
    <3>6. Alone'
      BY <1>1, <3>4, <3>5, AloneKeeps DEF HostInv, Sound
    <3>7. TopOK(Top(t), Rest(t))'
      BY <1>1, <3>2, <3>4 DEF TopOK, Callees
    <3> QED BY <1>1, <2>3, <3>3, <3>4, <3>5, <3>6, <3>7, StackKeeps
  <2>6. CASE Await(t, [Top(t) EXCEPT !.todo = Tail(Top(t).todo), !.m = n],
                      New("call", n, 0, "lookup", <<>>))
    <3>1. PICK f \in Frame : f = [Top(t) EXCEPT !.todo = Tail(Top(t).todo), !.m = n]
      BY <1>2, <2>1 DEF Frame
    <3>2. /\ f.op = Top(t).op /\ f.p = 0 /\ f.at = "loop" /\ f.todo = Tail(Top(t).todo)
      BY <1>2, <3>1 DEF Frame
    <3>3. PICK g \in Frame : g = New("call", n, 0, "lookup", <<>>)
      BY <2>1, NoTodo, NewIs DEF Callees
    <3>4. g.op = "call" /\ g.m = n /\ g.at = "lookup"
      BY <3>3 DEF New
    <3>5. FrameOK(f) /\ FrameInv(f)
      BY <1>1, <2>4, <3>2 DEF FrameOK, Callees
    <3>6. FrameOK(g) /\ FrameInv(g) /\ <<g.op, f.op>> \in Above
      BY <1>1, <2>1, <3>2, <3>4 DEF FrameOK, FrameInv, LoopOps, Above
    <3>7. /\ Busy(t)' /\ Top(t)' = g /\ Rest(t)' = {f} /\ Frames(t)' = {g, f}
          /\ Unmoved(t) /\ Shape'
      <4>1. Await(t, f, g)
        BY <2>6, <3>1, <3>3
      <4> QED BY <1>1, <1>3, <3>2, <3>5, <3>6, <4>1, AfterAwait DEF HostInv, Sound
    <3>8. ~Managing(t)' /\ ~Starts(t)' /\ ~Changes(t)'
      BY <1>1, <3>2, <3>4, <3>7 DEF Managing, ManageOps, Starts, Changes
    <3>9. Alone'
      BY <1>1, <3>7, <3>8, AloneKeeps DEF HostInv, Sound
    <3>a. TopOK(Top(t), Rest(t))'
      <4>1. table[n] # 0 \/ n \in failed
        BY <1>2, <2>1 DEF ServeOK, Registered
      <4>2. table' = table /\ failed' = failed
        BY <1>1
      <4>3. Top(t)' = g /\ Rest(t)' = {f} /\ f.op \in {"probe", "collect"} /\ f.op # "startAll"
        BY <1>1, <3>2, <3>7
      <4> QED BY <3>4, <4>1, <4>2, <4>3 DEF TopOK, Registered
    <3> QED BY <1>1, <2>3, <3>5, <3>6, <3>7, <3>8, <3>9, <3>a, StackKeeps
  <2> QED BY <2>2, <2>5, <2>6
<1> QED BY <1>4, <1>5

-----------------------------------------------------------------------------
(* A manager that rebuilds the table *)

LEMMA RebuildKeeps ==
    ASSUME HostInv, NEW t \in Tasks, t \in Managers, \A u \in Tasks : u # t => ~Busy(u),
           Unmoved(t), Shape', PlanInv', TableInv', procs' = procs,
           \A f \in Frames(t)' : FrameInv(f)',
           TopOK(Top(t), Rest(t))',
           \A p \in Processes : Busy(t) => ~Halts(Top(t), p) /\ ~Creates(Top(t), p),
           \A p \in Processes, m \in Modules : table[m] = p =>
              table'[m] = p \/ (Busy(t)' /\ Halts(Top(t)', p)),
           Changes(t)'
    PROVE  Sound'
<1> USE DEF HostInv, Sound
<1>1. \A u \in Tasks : u # t => ~Busy(u)' /\ Frames(u)' = {}
  BY IdleIs DEF Unmoved
<1>2. Alone'
  BY <1>1 DEF Alone, Managing, Tasks
<1>3. FramesInv'
  BY <1>1 DEF FramesInv
<1>4. TopsInv'
  BY <1>1 DEF TopsInv
<1>5. \A p \in Processes : procs[p] # "new"
  BY DEF ProcsInv
<1>6. ProcsInv'
  <2> SUFFICES ASSUME NEW p \in Processes, Live(p)'
               PROVE  \/ \E m \in Modules : table'[m] = p
                      \/ \E u \in Tasks : Busy(u)' /\ Halts(Top(u)', p)
    BY <1>5 DEF ProcsInv, Halts
  <2>1. PICK m \in Modules : table[m] = p
    BY DEF ProcsInv, Live
  <2> QED BY <2>1
<1>7. Rebuilding'
  BY DEF Rebuilding, Changes
<1>8. PlacedInv' /\ ReachInv'
  BY <1>7 DEF PlacedInv, ReachInv
<1> QED BY <1>2, <1>3, <1>4, <1>6, <1>8

\* The stop of a whole plan.
LEMMA StopAllIs ==
    ASSUME HostInv
    PROVE  /\ StopAll \in Frame /\ StopAll.op = "stop" /\ FrameOK(StopAll) /\ StopOK(StopAll)
<1> PICK n \in Nat : n = Len(plan)
  BY DEF HostInv, TypeOK
<1> DEFINE todo == [i \in DOMAIN plan |-> plan[Len(plan) + 1 - i]]
<1>1. /\ plan \in Seq(Modules) /\ DOMAIN plan = 1..n
      /\ \A m \in Modules : Registered(m) => m \in Held(plan)
  BY DEF HostInv, TypeOK, Sound, PlanInv
<1>2. todo = [i \in 1..n |-> plan[n + 1 - i]]
  BY <1>1
<1>3. todo \in Seq(Modules) /\ Len(todo) = n /\ DOMAIN todo = 1..n
  <2>1. \A i \in 1..n : n + 1 - i \in 1..n
    OBVIOUS
  <2> QED BY <1>1, <1>2, <2>1
<1>4. \A m \in Held(plan) : m \in Held(todo)
  <2> SUFFICES ASSUME NEW j \in 1..n PROVE plan[j] \in Held(todo)
    BY <1>1 DEF Held
  <2>1. n + 1 - j \in 1..n /\ n + 1 - (n + 1 - j) = j
    OBVIOUS
  <2>2. todo[n + 1 - j] = plan[j]
    BY <1>2, <2>1
  <2> QED BY <1>3, <2>1, <2>2 DEF Held
<1>5. StopAll = New("stop", None, 0, "loop", todo)
  BY DEF StopAll
<1>6. \A i \in 1..n : todo[i] = plan[n + 1 - i]
  BY <1>2
<1> HIDE DEF todo
<1>7. /\ StopAll \in Frame
      /\ StopAll.op = "stop" /\ StopAll.p = 0 /\ StopAll.at = "loop" /\ StopAll.todo = todo
  BY <1>3, <1>5, NoTodo, NewIs DEF LoopOps
<1>8. StopOK(StopAll)
  BY <1>1, <1>3, <1>4, <1>6, <1>7 DEF StopOK
<1> QED BY <1>7, <1>8 DEF FrameOK, Callees

LEMMA PlanningIs ==
    ASSUME HostInv, NEW md \in Modes
    PROVE  LET f == Planning(md) IN
           /\ f \in Frame /\ f.op = "plan" /\ FrameOK(f) /\ FrameInv(f)
<1>1. /\ Planning(md) \in Frame /\ Planning(md).op = "plan" /\ Planning(md).m = md
      /\ Planning(md).p = 0 /\ Planning(md).at = "loop"
  <2>1. /\ md \in Modules \cup Modes \cup {None}
        /\ "plan" \in LoopOps \cup Callees
        /\ "loop" \in {"loop", "lookup", "spawn", "ask", "err"}
    BY DEF LoopOps
  <2>2. <<>> \in Seq(Modules) /\ 0 \in 0..MaxProcesses
    BY NoTodo
  <2>3. PICK g \in Frame : g = New("plan", md, 0, "loop", <<>>)
    BY <2>1, <2>2, NewIs
  <2> QED BY <2>3 DEF Planning, New
<1> QED BY <1>1 DEF FrameOK, FrameInv, Callees

\* A stop of the whole plan begins, and nothing else changes.
LEMMA StopBegins ==
    ASSUME HostInv, NEW t \in Tasks, t \in Managers, \A u \in Tasks : u # t => ~Busy(u),
           UNCHANGED <<config, failed, table, procs>>,
           \A p \in Processes : Busy(t) => ~Halts(Top(t), p) /\ ~Creates(Top(t), p),
           \/ stack' = [stack EXCEPT ![t] = <<StopAll>>]
           \/ \E md \in Modes : stack' = [stack EXCEPT ![t] = <<StopAll>> \o <<Planning(md)>>]
    PROVE  Sound'
<1>1. PICK g \in Frame : g = StopAll
  BY StopAllIs
<1>2. g.op = "stop" /\ FrameOK(g) /\ FrameInv(g)
  BY <1>1, StopAllIs DEF FrameInv
<1>3. /\ Top(t)' = g /\ g \in Frames(t)' /\ (\A f \in Frames(t)' : FrameInv(f))
      /\ Unmoved(t) /\ Shape'
  <2>1. CASE stack' = [stack EXCEPT ![t] = <<g>>]
    <3>1. Top(t)' = g /\ Frames(t)' = {g} /\ Unmoved(t) /\ Shape'
      BY <1>2, <2>1, AfterBegin DEF HostInv, Sound, Bases
    <3> QED BY <1>2, <3>1
  <2>2. CASE \E md \in Modes : stack' = [stack EXCEPT ![t] = <<g>> \o <<Planning(md)>>]
    <3>1. PICK md \in Modes : stack' = [stack EXCEPT ![t] = <<g>> \o <<Planning(md)>>]
      BY <2>2
    <3>2. PICK f \in Frame : f = Planning(md)
      BY PlanningIs
    <3>3. f.op = "plan" /\ FrameOK(f) /\ FrameInv(f)
      BY <3>2, PlanningIs
    <3>4. <<g.op, f.op>> \in Above /\ f.op \in Bases
      BY <1>2, <3>3 DEF Above, Bases
    <3>5. Top(t)' = g /\ Frames(t)' = {g, f} /\ Unmoved(t) /\ Shape'
      BY <1>2, <3>1, <3>2, <3>3, <3>4, AfterBeginTwo DEF HostInv, Sound
    <3> QED BY <1>2, <3>3, <3>5
  <2> QED BY <1>1, <2>1, <2>2
<1>4. PlanInv' /\ TableInv' /\ \A f : FrameInv(f)' <=> FrameInv(f)
  BY SameTable DEF HostInv, Sound
<1>5. \A f \in Frames(t)' : FrameInv(f)'
  BY <1>3, <1>4
<1>6. TopOK(Top(t), Rest(t))'
  BY <1>2, <1>3 DEF TopOK, Callees
<1>7. Changes(t)'
  BY <1>2, <1>3 DEF Changes
<1> QED BY <1>3, <1>4, <1>5, <1>6, <1>7, RebuildKeeps

\* Without overlap a manager begins when nothing runs.
LEMMA MayManageIs ==
    ASSUME Overlap = FALSE, HostInv, NEW t \in Tasks, MayManage(t)
    PROVE  t \in Managers /\ ~Busy(t) /\ (\A u \in Tasks : ~Busy(u)) /\ stack[t] = <<>>
BY DEF MayManage, Idle, Tasks, Busy

LEMMA ActivateKeeps ==
    ASSUME Overlap = FALSE, HostInv, NEW t \in Tasks, NEW md \in Modes, Activate(t, md)
    PROVE  Sound'
<1>1. t \in Managers /\ ~Busy(t) /\ \A u \in Tasks : ~Busy(u)
  BY MayManageIs DEF Activate
<1>2. stack' = [stack EXCEPT ![t] = <<StopAll>> \o <<Planning(md)>>]
  <2>1. <<StopAll>> \o <<Planning(md)>> = <<StopAll, Planning(md)>>
    BY StopAllIs, PlanningIs, TwoIs
  <2> QED BY <2>1 DEF Activate, Begin
<1> QED BY <1>1, <1>2, StopBegins DEF Activate

LEMMA StopKeeps ==
    ASSUME Overlap = FALSE, HostInv, NEW t \in Tasks, Stop(t)
    PROVE  Sound'
<1>1. t \in Managers /\ ~Busy(t) /\ \A u \in Tasks : ~Busy(u)
  BY MayManageIs DEF Stop
<1> QED BY <1>1, StopBegins DEF Stop, Begin

\* The end of disable and enable.
LEMMA ReplanKeeps == ASSUME HostInv, NEW t \in Tasks, Replan(t) PROVE Sound'
<1>1. /\ Busy(t) /\ Top(t).op = "replan" /\ Top(t).op \in LoopOps
      /\ UNCHANGED <<config, failed, table, procs>>
  BY DEF Replan, Turn, LoopOps
<1>2. /\ Rest(t) = {} /\ Tail(stack[t]) = <<>> /\ Frames(t) = {Top(t)}
  BY <1>1, BusyIs DEF HostInv, Sound
<1>3. CASE mode = None
  <2>1. NoneRegistered
    BY <1>3 DEF HostInv, Sound, PlanInv
  <2>2. Return(t)
    BY <1>3 DEF Replan
  <2> QED BY <1>1, <2>1, <2>2, LeaveKeeps
<1>4. CASE mode # None
  <2>1. Managing(t)
    BY <1>1, <1>2 DEF Managing, ManageOps
  <2>2. t \in Managers /\ \A u \in Tasks : u # t => ~Busy(u)
    BY <1>1, <2>1, AloneIs DEF HostInv, Sound
  <2>3. mode \in Modes
    BY <1>4 DEF HostInv, TypeOK
  <2>4. stack' = [stack EXCEPT ![t] = <<StopAll>> \o <<Planning(mode)>>]
    <3>1. <<StopAll, Planning(mode)>> \o <<>> = <<StopAll>> \o <<Planning(mode)>>
      OBVIOUS
    <3> QED BY <1>2, <1>4, <3>1 DEF Replan
  <2>5. \A p \in Processes : ~Halts(Top(t), p) /\ ~Creates(Top(t), p)
    BY <1>1 DEF Halts, Creates
  <2>6. \E md \in Modes : stack' = [stack EXCEPT ![t] = <<StopAll>> \o <<Planning(md)>>]
    BY <2>3, <2>4
  <2> QED BY <1>1, <2>2, <2>5, <2>6, StopBegins
<1> QED BY <1>3, <1>4

\* What enable and disable go on with.
LEMMA ReplanIs ==
    \E f \in Frame : /\ f = New("replan", None, 0, "loop", <<>>)
                     /\ f.op = "replan" /\ FrameOK(f) /\ FrameInv(f)
<1>1. PICK f \in Frame : f = New("replan", None, 0, "loop", <<>>)
  BY NoTodo, NewIs DEF LoopOps
<1>2. f.op = "replan" /\ f.at = "loop" /\ f.p = 0
  BY <1>1 DEF New
<1> QED BY <1>1, <1>2 DEF FrameOK, FrameInv, Callees

LEMMA EnableKeeps ==
    ASSUME Overlap = FALSE, HostInv, NEW t \in Tasks, NEW m \in Modules, Enable(t, m)
    PROVE  Sound'
<1>1. t \in Managers /\ ~Busy(t) /\ \A u \in Tasks : ~Busy(u)
  BY MayManageIs DEF Enable
<1>2. PICK f \in Frame : /\ f = New("replan", None, 0, "loop", <<>>)
                         /\ f.op = "replan" /\ FrameOK(f) /\ FrameInv(f)
  BY ReplanIs
<1>3. stack' = [stack EXCEPT ![t] = <<f>>]
  <2>1. <<>> \o <<f>> = <<f>>
    OBVIOUS
  <2> QED BY <1>2, <2>1 DEF Enable, Begin
<1>4. Top(t)' = f /\ Frames(t)' = {f} /\ Unmoved(t) /\ Shape'
  BY <1>2, <1>3, AfterBegin DEF HostInv, Sound, Bases
<1>5. /\ UNCHANGED <<requires, failed, plan, mode, table, procs>>
      /\ disabled' = disabled \ {m}
  BY DEF Enable
<1>6. PlanInv'
  BY <1>5 DEF HostInv, Sound, PlanInv, NoneRegistered, Registered, Held, Distinct
<1>7. TableInv'
  BY <1>5 DEF HostInv, Sound, TableInv, Registered
<1>8. \A k \in Frames(t)' : FrameInv(k)'
  BY <1>2, <1>4 DEF FrameInv
<1>9. TopOK(Top(t), Rest(t))'
  BY <1>2, <1>4 DEF TopOK, Callees
<1>a. Changes(t)'
  BY <1>2, <1>4 DEF Changes
<1> QED BY <1>1, <1>4, <1>5, <1>6, <1>7, <1>8, <1>9, <1>a, RebuildKeeps

\* The coroutine that stops the process of one module.
LEMMA HaltingIs ==
    ASSUME HostInv, NEW m \in Modules
    PROVE  \E g \in Frame : /\ g = Halting(m) /\ g.op = "halt" /\ g.m = m /\ g.p = table[m]
                            /\ ~Over(g) /\ FrameOK(g) /\ FrameInv(g)
<1>1. m \in Modules \cup Modes \cup {None} /\ table[m] \in 0..MaxProcesses
  BY DEF HostInv, TypeOK
<1>2. PICK g \in Frame : g = New("halt", m, table[m], "ask", <<>>)
  BY <1>1, NoTodo, NewIs DEF Callees
<1>3. g.op = "halt" /\ g.m = m /\ g.p = table[m] /\ g.at = "ask"
  BY <1>2 DEF New
<1> QED BY <1>2, <1>3 DEF Halting, Over, FrameOK, FrameInv, LoopOps

LEMMA DisableKeeps ==
    ASSUME Overlap = FALSE, HostInv, NEW t \in Tasks, NEW m \in Modules, Disable(t, m)
    PROVE  Sound'
<1>1. t \in Managers /\ ~Busy(t) /\ \A u \in Tasks : ~Busy(u)
  BY MayManageIs DEF Disable
<1>2. PICK f \in Frame : /\ f = New("replan", None, 0, "loop", <<>>)
                         /\ f.op = "replan" /\ FrameOK(f) /\ FrameInv(f)
  BY ReplanIs
<1>3. PICK g \in Frame : /\ g = Halting(m) /\ g.op = "halt" /\ g.m = m /\ g.p = table[m]
                         /\ ~Over(g) /\ FrameOK(g) /\ FrameInv(g)
  BY HaltingIs
<1>4. /\ stack' = [stack EXCEPT ![t] =
                     (IF table[m] # 0 THEN <<g>> ELSE <<>>) \o <<f>>]
      /\ table' = [table EXCEPT ![m] = 0]
      /\ UNCHANGED <<requires, failed, plan, mode, procs>>
      /\ disabled' = disabled \cup {m}
  BY <1>2, <1>3 DEF Disable, Begin
<1>5. table \in [Modules -> 0..MaxProcesses] /\ requires' = requires
  BY <1>4 DEF HostInv, TypeOK
<1>6. /\ \A d \in Modules : Registered(d)' <=> Registered(d) /\ d # m
      /\ \A d \in Modules : d # m => table'[d] = table[d]
  BY <1>4, <1>5 DEF Registered
<1>7. PlanInv'
  <2>1. plan' = plan /\ mode' = mode /\ plan \in Seq(Modules) /\ PlanInv
    BY <1>4 DEF HostInv, Sound, TypeOK
  <2>2. \A i \in DOMAIN plan : plan[i] \in Modules
    BY <2>1
  <2> QED BY <1>5, <1>6, <2>1, <2>2 DEF PlanInv, NoneRegistered
<1>8. TableInv'
  <2>1. disabled \subseteq Modules /\ failed \subseteq Modules
    BY DEF HostInv, TypeOK
  <2> QED BY <1>4, <1>6, <2>1 DEF HostInv, Sound, TableInv
<1>9. /\ Unmoved(t) /\ Shape' /\ Busy(t)'
      /\ \A k \in Frames(t)' : k = f \/ k = g
      /\ f \in Frames(t)'
      /\ Top(t)' = IF table[m] # 0 THEN g ELSE f
      /\ \A r \in Rest(t)' : r = f
  <2>1. CASE table[m] # 0
    <3>1. <<g.op, f.op>> \in Above /\ f.op \in Bases
      BY <1>2, <1>3 DEF Above, Bases
    <3>2. stack' = [stack EXCEPT ![t] = <<g>> \o <<f>>]
      BY <1>4, <2>1
    <3>3. /\ Busy(t)' /\ Top(t)' = g /\ Rest(t)' = {f} /\ Frames(t)' = {g, f}
          /\ Unmoved(t) /\ Shape'
      BY <1>2, <1>3, <3>1, <3>2, AfterBeginTwo DEF HostInv, Sound
    <3> QED BY <2>1, <3>3
  <2>2. CASE table[m] = 0
    <3>1. stack' = [stack EXCEPT ![t] = <<f>>]
      <4>1. <<>> \o <<f>> = <<f>>
        OBVIOUS
      <4> QED BY <1>4, <2>2, <4>1
    <3>2. /\ Busy(t)' /\ Top(t)' = f /\ Rest(t)' = {} /\ Frames(t)' = {f}
          /\ Unmoved(t) /\ Shape'
      BY <1>2, <3>1, AfterBegin DEF HostInv, Sound, Bases
    <3> QED BY <2>2, <3>2
  <2> QED BY <2>1, <2>2
<1>a. \A k \in Frames(t)' : FrameInv(k)'
  BY <1>2, <1>3, <1>9 DEF FrameInv
<1>b. TopOK(Top(t), Rest(t))'
  <2>1. PICK k : k = Top(t)'
    OBVIOUS
  <2>2. k.op \in {"halt", "replan"} /\ ~(k.op = "halt" /\ Over(k))
    BY <1>2, <1>3, <1>9, <2>1
  <2>3. \A r \in Rest(t)' : r.op = "replan"
    BY <1>2, <1>9
  <2> QED BY <2>1, <2>2, <2>3 DEF TopOK, Over
<1>c. Changes(t)'
  BY <1>2, <1>9 DEF Changes
<1>d. \A p \in Processes, d \in Modules : table[d] = p =>
         table'[d] = p \/ (Busy(t)' /\ Halts(Top(t)', p))
  <2>1. 0 \notin Processes
    BY ProcessBound DEF Processes
  <2> QED BY <1>3, <1>6, <1>9, <2>1 DEF Halts
<1> QED BY <1>1, <1>4, <1>7, <1>8, <1>9, <1>a, <1>b, <1>c, <1>d, RebuildKeeps

\* The next module that a stop stops.
LEMMA StopNextKeeps == ASSUME HostInv, NEW t \in Tasks, StopNext(t) PROVE Sound'
<1> DEFINE n == Head(Top(t).todo)
<1>1. /\ Busy(t) /\ Top(t).op = "stop" /\ Top(t).op \in LoopOps
      /\ UNCHANGED <<config, failed, procs>>
  BY DEF StopNext, Turn, LoopOps
<1>2. /\ Top(t) \in Frame /\ Top(t).todo \in Seq(Modules) /\ Top(t).at = "loop"
      /\ Top(t).p = 0 /\ ~Over(Top(t)) /\ Frames(t) = {Top(t)} \cup Rest(t)
      /\ StopOK(Top(t))
  BY <1>1, LoopIs DEF FrameInv
<1>3. Managing(t)
  BY <1>1, <1>2 DEF Managing, ManageOps
<1>4. t \in Managers /\ \A u \in Tasks : u # t => ~Busy(u)
  BY <1>1, <1>3, AloneIs DEF HostInv, Sound
<1>5. \A p \in Processes : ~Halts(Top(t), p) /\ ~Creates(Top(t), p)
  BY <1>1 DEF Halts, Creates
<1>6. CASE Top(t).todo = <<>>
  <2>1. Return(t) /\ table' = table
    BY <1>6 DEF StopNext
  <2>2. NoneRegistered
    BY <1>2, <1>6 DEF StopOK, Held, NoneRegistered
  <2> QED BY <1>1, <2>1, <2>2, LeaveKeeps
<1>7. CASE Top(t).todo # <<>>
  <2>1. /\ n \in Modules /\ Tail(Top(t).todo) \in Seq(Modules)
        /\ Held(Top(t).todo) = {n} \cup Held(Tail(Top(t).todo))
    BY <1>2, <1>7, TailIs
  <2>2. PICK f \in Frame : f = [Top(t) EXCEPT !.todo = Tail(Top(t).todo)]
    BY <1>2, <2>1 DEF Frame
  <2>3. /\ f.op = "stop" /\ f.p = 0 /\ f.at = "loop" /\ f.todo = Tail(Top(t).todo)
    BY <1>1, <1>2, <2>2 DEF Frame
  <2>4. FrameOK(f)
    BY <2>3 DEF FrameOK, Callees
  <2>5. \/ table[n] # 0 /\ table' = [table EXCEPT ![n] = 0] /\ Await(t, f, Halting(n))
        \/ table[n] = 0 /\ table' = table /\ Become(t, f)
    BY <1>7, <2>2 DEF StopNext
  <2>6. table \in [Modules -> 0..MaxProcesses]
    BY DEF HostInv, TypeOK
  <2>7. /\ \A d \in Modules : Registered(d)' <=> Registered(d) /\ d # n
        /\ \A d \in Modules : d # n => table'[d] = table[d]
    BY <2>1, <2>5, <2>6 DEF Registered
  <2>8. StopOK(f)'
    <3>1. PICK k \in Nat : k = Len(Top(t).todo)
      BY <1>2
    <3>2. /\ k # 0 /\ Len(f.todo) = k - 1 /\ DOMAIN f.todo = 1..(k - 1)
          /\ \A i \in 1..(k - 1) : f.todo[i] = Top(t).todo[i + 1]
      BY <1>2, <1>7, <2>3, <3>1, TailIs
    <3>3. PICK l \in Nat : l = Len(plan)
      BY DEF HostInv, TypeOK
    <3>4. k <= l /\ \A i \in 1..k : Top(t).todo[i] = plan[k + 1 - i]
      <4>1. DOMAIN Top(t).todo = 1..k
        BY <1>2, <3>1
      <4> QED BY <1>2, <3>1, <3>3, <4>1 DEF StopOK
    <3>5. ASSUME NEW i \in 1..(k - 1) PROVE f.todo[i] = plan[(k - 1) + 1 - i]
      <4>1. i + 1 \in 1..k /\ k + 1 - (i + 1) = (k - 1) + 1 - i
        BY <3>2
      <4> QED BY <3>2, <3>4, <4>1
    <3>6. \A m \in Modules : Registered(m)' => m \in Held(f.todo)
      BY <1>2, <2>1, <2>3, <2>7 DEF StopOK
    <3>7. plan' = plan
      BY <1>1 DEF config
    <3>8. k - 1 <= l
      BY <3>2, <3>4
    <3> QED BY <3>2, <3>3, <3>5, <3>6, <3>7, <3>8 DEF StopOK
  <2>9. PlanInv'
    <3>1. plan' = plan /\ mode' = mode /\ requires' = requires /\ plan \in Seq(Modules) /\ PlanInv
      BY <1>1 DEF HostInv, Sound, TypeOK, config
    <3>2. \A i \in DOMAIN plan : plan[i] \in Modules
      BY <3>1
    <3> QED BY <2>7, <3>1, <3>2 DEF PlanInv, NoneRegistered
  <2>a. TableInv'
    <3>1. disabled' = disabled /\ failed' = failed
          /\ disabled \subseteq Modules /\ failed \subseteq Modules
      BY <1>1 DEF HostInv, TypeOK, config
    <3> QED BY <2>7, <3>1 DEF HostInv, Sound, TableInv
  <2>b. \A k \in Rest(t) : k.op = "plan" /\ FrameInv(k)'
    <3>1. \A k \in Rest(t) : k.op = "plan"
      BY <1>1, BusyIs DEF HostInv, Sound
    <3> QED BY <3>1 DEF FrameInv
  <2>c. FrameInv(f)'
    BY <2>3, <2>8 DEF FrameInv
  <2>d. CASE table[n] = 0 /\ table' = table /\ Become(t, f)
    <3>1. Replaces(Top(t).op, f.op)
      BY <1>1, <2>3, ReplacesIs
    <3>2. /\ Busy(t)' /\ Top(t)' = f /\ Rest(t)' = Rest(t) /\ Frames(t)' = {f} \cup Rest(t)
          /\ Unmoved(t) /\ Shape'
      BY <1>1, <2>4, <2>d, <3>1, AfterBecome DEF HostInv, Sound
    <3>3. TopOK(Top(t), Rest(t))'
      BY <2>3, <3>2 DEF TopOK, Callees
    <3>4. Changes(t)'
      BY <2>3, <3>2 DEF Changes
    <3>5. \A p \in Processes, m \in Modules : table[m] = p => table'[m] = p
      BY <2>d
    <3> QED BY <1>1, <1>4, <1>5, <2>9, <2>a, <2>b, <2>c, <3>2, <3>3, <3>4, <3>5, RebuildKeeps
  <2>e. CASE table[n] # 0 /\ Await(t, f, Halting(n))
    <3>1. PICK g \in Frame : /\ g = Halting(n) /\ g.op = "halt" /\ g.m = n /\ g.p = table[n]
                             /\ ~Over(g) /\ FrameOK(g) /\ FrameInv(g)
      BY <2>1, HaltingIs
    <3>2. <<g.op, f.op>> \in Above
      BY <2>3, <3>1 DEF Above
    <3>3. /\ Busy(t)' /\ Top(t)' = g /\ Rest(t)' = {f} \cup Rest(t)
          /\ Frames(t)' = {g, f} \cup Rest(t) /\ Unmoved(t) /\ Shape'
      BY <1>1, <2>3, <2>4, <2>e, <3>1, <3>2, AfterAwait DEF HostInv, Sound
    <3>4. TopOK(Top(t), Rest(t))'
      <4>1. \A r \in Rest(t)' : r.op # "startAll"
        BY <2>3, <2>b, <3>3
      <4> QED BY <3>1, <3>3, <4>1 DEF TopOK, Over
    <3>5. FrameInv(g)'
      BY <3>1 DEF FrameInv
    <3>6. Changes(t)'
      BY <2>3, <3>3 DEF Changes
    <3>7. \A p \in Processes, m \in Modules : table[m] = p =>
             table'[m] = p \/ (Busy(t)' /\ Halts(Top(t)', p))
      BY <2>7, <3>1, <3>3 DEF Halts
    <3> QED BY <1>1, <1>4, <1>5, <2>9, <2>a, <2>b, <2>c, <3>3, <3>4, <3>5, <3>6, <3>7, RebuildKeeps
  <2> QED BY <2>5, <2>d, <2>e
<1> QED BY <1>6, <1>7

\* A caller that begins.
LEMMA CollectBegins ==
    ASSUME Overlap = FALSE, HostInv, NEW t \in Tasks, MayCall(t), NEW op \in {"probe", "collect"},
           NEW port \in [Modules -> Nat],
           Begin(t, <<New(op, None, 0, "loop", Served(port))>>),
           UNCHANGED <<config, failed, table, procs>>
    PROVE  Sound'
<1>1. t \in Callers /\ ~Busy(t) /\ \A u \in Managers : ~Busy(u)
  BY DEF MayCall, Idle
<1>2. Served(port) \in Seq(Modules) /\ Held(Served(port)) \subseteq RunningModules
  BY ServedIs DEF HostInv, TypeOK
<1>3. PICK f \in Frame : f = New(op, None, 0, "loop", Served(port))
  BY <1>2, NoTodo, NewIs DEF LoopOps
<1>4. f.op = op /\ f.p = 0 /\ f.at = "loop" /\ f.todo = Served(port)
  BY <1>3 DEF New
<1>5. FrameOK(f) /\ FrameInv(f)
  <2>1. ServeOK(f)
    BY <1>2, <1>4 DEF ServeOK, RunningModules, Running, StateOf, Registered
  <2> QED BY <1>4, <2>1 DEF FrameOK, FrameInv, Callees
<1>6. /\ Busy(t)' /\ Top(t)' = f /\ Rest(t)' = {} /\ Frames(t)' = {f} /\ Unmoved(t) /\ Shape'
  BY <1>3, <1>4, <1>5, AfterBegin DEF HostInv, Sound, Bases, Begin
<1>7. Frames(t) = {}
  BY <1>1, IdleIs DEF HostInv
<1>8. Alone'
  <2>1. ~Managing(t)' /\ \A u \in Tasks : u # t => (Managing(u)' <=> Managing(u))
    BY <1>4, <1>6 DEF Managing, ManageOps, Unmoved
  <2>2. \A u \in Tasks : ~Managing(u)
    <3> SUFFICES ASSUME NEW u \in Tasks, Managing(u) PROVE FALSE
      OBVIOUS
    <3>1. u \in Managers
      BY DEF HostInv, Sound, Alone
    <3>2. Busy(u)
      BY IdleIs DEF Managing, HostInv
    <3> QED BY <1>1, <3>1, <3>2
  <2> QED BY <2>1, <2>2 DEF Alone, Tasks
<1>9. TopOK(Top(t), Rest(t))'
  BY <1>4, <1>6 DEF TopOK, Callees
<1>a. ~Changes(t) /\ ~Starts(t)' /\ \A m : ~WillStart(t, m)
  BY <1>4, <1>6, <1>7 DEF Changes, Starts, WillStart
<1>b. \A e, m : ~Finds(t, e, m)
  BY <1>1, <1>7 DEF Finds
<1> QED BY <1>1, <1>5, <1>6, <1>8, <1>9, <1>a, <1>b, StackKeeps

LEMMA CollectsKeep ==
    ASSUME Overlap = FALSE, HostInv, NEW t \in Tasks,
           CollectHealth(t) \/ \E port \in Ports : Collect(t, port)
    PROVE  Sound'
<1>1. CASE CollectHealth(t)
  <2> PICK port \in [Modules -> Nat] : port = [m \in Modules |-> 1]
    OBVIOUS
  <2> QED BY <1>1, CollectBegins DEF CollectHealth
<1>2. ASSUME NEW port \in Ports, Collect(t, port) PROVE Sound'
  <2>1. port \in [Modules -> Nat]
    BY PortsOfModules
  <2> QED BY <1>2, <2>1, CollectBegins DEF Collect
<1> QED BY <1>1, <1>2

\* The new plan, of which nothing is started yet.
LEMMA PlanKeeps == ASSUME HostInv, NEW t \in Tasks, Plan(t) PROVE Sound'
<1>1. /\ Busy(t) /\ Top(t).op = "plan" /\ Top(t).op \in LoopOps
      /\ UNCHANGED <<requires, disabled, table, procs>>
      /\ mode' = Top(t).m /\ failed' = {}
      /\ plan' = ActivationOrder(requires, Modules \ disabled, Top(t).m)
      /\ Become(t, New("startAll", None, 0, "loop", plan'))
  BY DEF Plan, Turn, LoopOps
<1>2. /\ Top(t) \in Frame /\ Frames(t) = {Top(t)} \cup Rest(t) /\ Top(t).m \in Modes
      /\ NoneRegistered
  BY <1>1, LoopIs DEF TopOK
<1>3. Rest(t) = {}
  BY <1>1, BusyIs DEF HostInv, Sound
<1>4. Managing(t)
  BY <1>1, <1>2 DEF Managing, ManageOps
<1>5. t \in Managers /\ \A u \in Tasks : u # t => ~Busy(u) /\ Frames(u) = {}
  BY <1>1, <1>4, AloneIs DEF HostInv, Sound
<1>6. plan' \in Seq(Modules) /\ Distinct(plan') /\ Held(plan') \subseteq Modules \ disabled
  BY <1>1, <1>2, PlanIs
<1>7. PICK order \in Seq(Modules) : order = plan'
  BY <1>6
<1>8. PICK f \in Frame : f = New("startAll", None, 0, "loop", order)
  BY NoTodo, NewIs DEF LoopOps
<1>9. f.op = "startAll" /\ f.at = "loop" /\ f.p = 0 /\ f.todo = order /\ Become(t, f)
  BY <1>1, <1>7, <1>8 DEF New
<1>a. FrameOK(f)
  BY <1>9 DEF FrameOK, Callees
<1>b. /\ Busy(t)' /\ Top(t)' = f /\ Rest(t)' = {} /\ Frames(t)' = {f} /\ Unmoved(t) /\ Shape'
  <2>1. Replaces(Top(t).op, f.op)
    BY <1>1, <1>9, ReplacesIs
  <2> QED BY <1>1, <1>3, <1>9, <1>a, <2>1, AfterBecome DEF HostInv, Sound
<1>c. \A u \in Tasks : u # t => ~Busy(u)' /\ Frames(u)' = {}
  BY <1>5, <1>b DEF Unmoved
<1>d. \A m \in Modules : ~Registered(m)'
  BY <1>1, <1>2 DEF NoneRegistered, Registered
<1>e. Alone'
  BY <1>5, <1>c DEF Alone, Managing, Tasks
<1>f. PlanInv'
  <2>1. mode' # None
    BY <1>1, <1>2, NoneIsNoMode
  <2>2. \A i \in DOMAIN plan' : plan'[i] \in Modules
    BY <1>6
  <2> QED BY <1>6, <1>d, <2>1, <2>2 DEF PlanInv
<1>g. TableInv'
  <2>1. disabled' \subseteq Modules /\ failed' \subseteq Modules
    BY <1>1 DEF HostInv, TypeOK
  <2> QED BY <1>d, <2>1 DEF TableInv
<1>h. FramesInv'
  <2>1. StartOK(f)'
    <3>1. PICK n \in Nat : n = Len(order)
      OBVIOUS
    <3>2. DOMAIN order = 1..n /\ \A i \in 1..n : n - n + i = i
      BY <3>1
    <3>3. mode' # None
      BY <1>1, <1>2, NoneIsNoMode
    <3>4. \A m \in Held(order) : m \in Modules /\ m \notin failed' /\ m \notin disabled'
      BY <1>1, <1>6, <1>7
    <3> QED BY <1>7, <1>9, <1>d, <3>1, <3>2, <3>3, <3>4 DEF StartOK
  <2>2. FrameInv(f)'
    BY <1>9, <2>1 DEF FrameInv
  <2> QED BY <1>b, <1>c, <2>2 DEF FramesInv
<1>i. TopsInv'
  <2>1. TopOK(Top(t), Rest(t))'
    BY <1>9, <1>b DEF TopOK, Callees
  <2> QED BY <1>c, <2>1 DEF TopsInv
<1>j. ProcsInv'
  <2> SUFFICES ASSUME NEW p \in Processes PROVE ~Live(p)'
    BY DEF ProcsInv, Live, Processes
  <2>1. ~Live(p)
    <3>1. 0 \notin Processes
      BY ProcessBound DEF Processes
    <3>2. ~\E m \in Modules : table[m] = p
      BY <1>2, <3>1 DEF NoneRegistered, Registered
    <3>3. ~\E u \in Tasks : Busy(u) /\ Halts(Top(u), p)
      BY <1>1, <1>5 DEF Halts
    <3> QED BY <3>2, <3>3 DEF HostInv, Sound, ProcsInv
  <2> QED BY <1>1, <2>1 DEF Live
<1>k. PlacedInv'
  <2>1. \A m \in Held(plan') : StartsLater(m)'
    BY <1>7, <1>9, <1>b DEF StartsLater
  <2> QED BY <2>1 DEF PlacedInv
<1>l. ReachInv'
  BY <1>d DEF ReachInv
<1> QED BY <1>b, <1>e, <1>f, <1>g, <1>h, <1>i, <1>j, <1>k, <1>l DEF Sound

\* Processes that end.
LEMMA EndsKeep ==
    ASSUME HostInv, NEW p \in Processes, Crash(p) \/ Exit(p)
    PROVE  Sound'
<1> USE DEF HostInv, Sound
<1>1. UNCHANGED <<config, failed, table, stack>>
  BY DEF Crash, Exit
<1>2. \A q \in Processes : /\ Live(q)' => Live(q)
                           /\ procs'[q] = "new" => procs[q] = "new"
  BY DEF Crash, Exit, TypeOK, Live
<1>3. \A t : /\ Busy(t)' <=> Busy(t)
             /\ Frames(t)' = Frames(t) /\ Top(t)' = Top(t) /\ Rest(t)' = Rest(t)
  BY <1>1 DEF Busy, Frames, Top, Rest
<1>4. /\ \A m : Registered(m)' <=> Registered(m)
      /\ NoneRegistered' <=> NoneRegistered
      /\ PlanInv' /\ TableInv'
      /\ \A f : FrameInv(f)' <=> FrameInv(f)
  BY <1>1, SameTable
<1>5. Shape'
  BY <1>1, <1>3 DEF Shape, Fits, FrameOK
<1>6. Alone'
  BY <1>3 DEF Alone, Managing
<1>7. FramesInv'
  BY <1>3, <1>4 DEF FramesInv
<1>8. TopsInv'
  <2> SUFFICES ASSUME NEW t \in Tasks, Busy(t)' PROVE TopOK(Top(t), Rest(t))'
    BY DEF TopsInv
  <2>1. Top(t) \in Frame /\ TopOK(Top(t), Rest(t)) /\ Top(t)' = Top(t) /\ Rest(t)' = Rest(t)
    BY <1>3, BusyIs DEF TopsInv
  <2>2. table' = table /\ failed' = failed /\ requires' = requires
        /\ (NoneRegistered' <=> NoneRegistered)
    BY <1>1, <1>4 DEF config
  <2>3. PICK g \in Frame : g = Top(t)
    BY <2>1
  <2>4. Live(g.p)' => Live(g.p)
    <3>1. g.p = 0 \/ g.p \in Processes
      BY DEF Frame, Processes
    <3> QED BY <1>2, <3>1 DEF Live
  <2>5. Top(t)' = g /\ Top(t) = g
    BY <2>1, <2>3
  <2> QED BY <2>1, <2>2, <2>4, <2>5 DEF TopOK, Over, Registered, Live
<1>9. ProcsInv'
  BY <1>1, <1>2, <1>3 DEF ProcsInv, Halts, Creates
<1>a. PlacedInv'
  <2>1. plan' = plan /\ failed' = failed
    BY <1>1 DEF config
  <2> QED BY <1>3, <1>4, <2>1 DEF PlacedInv, Rebuilding, StartsLater, Starting
<1>b. ReachInv'
  <2>1. requires' = requires /\ (Rebuilding' <=> Rebuilding)
    BY <1>1, <1>3 DEF config, Rebuilding
  <2>2. \A t \in Tasks : \A d, m : Finds(t, d, m)' <=> Finds(t, d, m)
    BY <1>3 DEF Finds, Over
  <2> QED BY <1>4, <2>1, <2>2 DEF ReachInv
<1> QED BY <1>4, <1>5, <1>6, <1>7, <1>8, <1>9, <1>a, <1>b

\* What is still to be started is the plan from the next module on.
LEMMA StartingIs ==
    ASSUME HostInv, NEW t \in Tasks, Busy(t), Top(t).op = "startAll", Top(t).todo # <<>>
    PROVE  LET n == Head(Top(t).todo) rest == Tail(Top(t).todo) IN
           /\ n \in Modules /\ rest \in Seq(Modules)
           /\ Held(Top(t).todo) = {n} \cup Held(rest) /\ n \notin Held(rest)
           /\ n \in Held(plan)
           /\ Len(rest) <= Len(plan)
           /\ \A i \in DOMAIN rest : rest[i] = plan[Len(plan) - Len(rest) + i]
           /\ \A i, j \in DOMAIN plan :
                 plan[j] = n /\ plan[i] \notin Held(Top(t).todo) => i < j
<1> DEFINE todo == Top(t).todo
           n == Head(todo)
           rest == Tail(todo)
<1>1. todo \in Seq(Modules) /\ todo # <<>> /\ StartOK(Top(t))
  BY LoopIs DEF LoopOps, FrameInv
<1>2. plan \in Seq(Modules) /\ Distinct(plan)
  BY DEF HostInv, Sound, TypeOK, PlanInv
<1>3. PICK l \in Nat : l = Len(todo)
  BY <1>1
<1>4. PICK k \in Nat : k = Len(plan) /\ DOMAIN plan = 1..k
  BY <1>2
<1>5. l <= k /\ \A i \in 1..l : todo[i] = plan[k - l + i]
  <2>1. DOMAIN todo = 1..l
    BY <1>1, <1>3
  <2> QED BY <1>1, <1>3, <1>4, <2>1 DEF StartOK
<1>6. /\ n \in Modules /\ rest \in Seq(Modules) /\ Held(todo) = {n} \cup Held(rest)
      /\ l # 0 /\ Len(rest) = l - 1 /\ n = todo[1] /\ DOMAIN rest = 1..(l - 1)
      /\ \A i \in 1..(l - 1) : rest[i] = todo[i + 1]
      /\ Distinct(todo) => n \notin Held(rest)
  <2> HIDE DEF todo
  <2> QED BY <1>1, <1>3, TailIs
<1>d. DOMAIN todo = 1..l
  BY <1>1, <1>3
<1> HIDE DEF todo, n, rest
<1>7. Distinct(todo)
  <2> SUFFICES ASSUME NEW i \in 1..l, NEW j \in 1..l, todo[i] = todo[j] PROVE i = j
    BY <1>d DEF Distinct
  <2>1. k - l + i \in 1..k /\ k - l + j \in 1..k /\ plan[k - l + i] = plan[k - l + j]
    BY <1>5
  <2>2. k - l + i = k - l + j
    BY <1>2, <1>4, <2>1 DEF Distinct
  <2> QED BY <2>2
<1>8. k - l + 1 \in 1..k /\ plan[k - l + 1] = n
  BY <1>5, <1>6
<1>9. n \in Held(plan)
  BY <1>4, <1>8 DEF Held
<1>a. l - 1 <= k /\ \A i \in 1..(l - 1) : rest[i] = plan[k - (l - 1) + i]
  <2> SUFFICES ASSUME NEW i \in 1..(l - 1) PROVE rest[i] = plan[k - (l - 1) + i]
    BY <1>5
  <2>1. i + 1 \in 1..l /\ k - l + (i + 1) = k - (l - 1) + i
    OBVIOUS
  <2> QED BY <1>5, <1>6, <2>1
<1>b. ASSUME NEW i \in 1..k, NEW j \in 1..k, plan[j] = n, plan[i] \notin Held(todo)
      PROVE  i < j
  <2>1. j = k - l + 1
    BY <1>2, <1>4, <1>8, <1>b DEF Distinct
  <2>2. SUFFICES ASSUME i >= j PROVE FALSE
    OBVIOUS
  <2>3. i - (k - l) \in 1..l /\ k - l + (i - (k - l)) = i
    BY <1>5, <2>1, <2>2
  <2>4. todo[i - (k - l)] = plan[i]
    BY <1>5, <2>3
  <2> QED BY <1>b, <1>d, <2>3, <2>4 DEF Held
<1> QED BY <1>4, <1>6, <1>7, <1>9, <1>a, <1>b DEF todo, n, rest

\* The next module that an activation skips or starts.
LEMMA StartNextKeeps == ASSUME HostInv, NEW t \in Tasks, StartNext(t) PROVE Sound'
<1> DEFINE n == Head(Top(t).todo)
           rest == Tail(Top(t).todo)
<1>1. /\ Busy(t) /\ Top(t).op = "startAll" /\ Top(t).op \in LoopOps
      /\ UNCHANGED config /\ UNCHANGED lock
  BY DEF StartNext, Turn, LoopOps
<1>2. /\ Top(t) \in Frame /\ Top(t).todo \in Seq(Modules) /\ Top(t).at = "loop"
      /\ Top(t).p = 0 /\ ~Over(Top(t)) /\ Frames(t) = {Top(t)} \cup Rest(t)
      /\ StartOK(Top(t)) /\ Top(t).m \in Modules \cup Modes \cup {None}
  BY <1>1, LoopIs DEF FrameInv
<1>3. Rest(t) = {}
  BY <1>1, BusyIs DEF HostInv, Sound
<1>4. Managing(t)
  BY <1>1, <1>2 DEF Managing, ManageOps
<1>5. t \in Managers /\ \A u \in Tasks : u # t => ~Busy(u) /\ Frames(u) = {}
  BY <1>1, <1>4, AloneIs DEF HostInv, Sound
<1>6. CASE Top(t).todo = <<>>
  <2>1. Return(t) /\ UNCHANGED <<config, failed, table, procs>>
    BY <1>1, <1>6 DEF StartNext
  <2> QED BY <1>1, <1>2, <1>6, <2>1, LeaveKeeps DEF Over
<1>7. CASE Top(t).todo # <<>>
  <2>1. /\ n \in Modules /\ rest \in Seq(Modules)
        /\ Held(Top(t).todo) = {n} \cup Held(rest) /\ n \notin Held(rest)
        /\ n \in Held(plan)
        /\ Len(rest) <= Len(plan)
        /\ \A i \in DOMAIN rest : rest[i] = plan[Len(plan) - Len(rest) + i]
        /\ \A i, j \in DOMAIN plan : plan[j] = n /\ plan[i] \notin Held(Top(t).todo) => i < j
    BY <1>1, <1>7, StartingIs
  <2>2. PICK f \in Frame : f = [Top(t) EXCEPT !.todo = rest]
    BY <1>2, <2>1 DEF Frame
  <2>3. f.op = "startAll" /\ f.p = 0 /\ f.at = "loop" /\ f.todo = rest
    BY <1>1, <1>2, <2>2 DEF Frame
  <2>4. FrameOK(f)
    BY <2>3 DEF FrameOK, Callees
  <2>5. \A m \in Held(Top(t).todo) : ~Registered(m) /\ m \notin failed /\ m \notin disabled
    BY <1>2 DEF StartOK
  <2>6. \A d \in Modules : Registered(d) => requires[d] \cap Held(Top(t).todo) = {}
    BY <1>2 DEF StartOK
  <2>7. /\ mode' = mode /\ mode # None /\ plan' = plan /\ requires' = requires
        /\ disabled' = disabled /\ plan \in Seq(Modules)
        /\ disabled \subseteq Modules /\ failed \subseteq Modules
        /\ table \in [Modules -> 0..MaxProcesses] /\ procs \in [Processes -> ProcessState]
        /\ requires \in [Modules -> SUBSET Modules]
    BY <1>1, <1>2, GraphsOfModules DEF HostInv, TypeOK, config, StartOK
  <2>8. \A d \in Modules : Registered(d) => requires[d] \subseteq {m \in Modules : Registered(m)}
    <3> SUFFICES ASSUME NEW d \in Modules, Registered(d), NEW m \in requires[d], ~Registered(m)
                 PROVE  FALSE
      BY <2>7
    <3>1. ~Rebuilding
      BY <1>1, <1>2, <1>3, <1>5 DEF Rebuilding
    <3>2. PICK u \in Tasks : Finds(u, d, m)
      BY <3>1 DEF HostInv, Sound, ReachInv
    <3> QED BY <1>1, <1>2, <1>3, <1>5, <3>2 DEF Finds
  <2>9. /\ \A p \in Processes : procs[p] # "new"
        /\ \A p \in Processes : Live(p) => \E m \in Modules : table[m] = p
    BY <1>1, <1>5 DEF HostInv, Sound, ProcsInv, Halts, Creates
  <2>a. \A m \in Held(plan) : Registered(m) \/ m \in failed \/ m \in Held(Top(t).todo)
    <3>1. ~Rebuilding /\ Starting
      BY <1>1, <1>2, <1>3, <1>5 DEF Rebuilding, Starting
    <3>2. \A m : StartsLater(m) => m \in Held(Top(t).todo)
      BY <1>2, <1>3, <1>5 DEF StartsLater
    <3> QED BY <3>1, <3>2 DEF HostInv, Sound, PlacedInv
  <2>b. PlanInv
    BY DEF HostInv, Sound
  <2>c. TableInv
    BY DEF HostInv, Sound
  <2> HIDE DEF n, rest
  <2>d. CASE Become(t, f) /\ failed' = failed \cup {n} /\ UNCHANGED <<table, procs>>
    <3>1. Replaces(Top(t).op, f.op)
      BY <1>1, <2>3, ReplacesIs
    <3>2. /\ Busy(t)' /\ Top(t)' = f /\ Rest(t)' = {} /\ Frames(t)' = {f}
          /\ Unmoved(t) /\ Shape'
      BY <1>1, <1>3, <2>4, <2>d, <3>1, AfterBecome DEF HostInv, Sound
    <3>3. \A u \in Tasks : u # t => ~Busy(u)' /\ Frames(u)' = {}
      BY <1>5, <3>2 DEF Unmoved
    <3>4. Alone'
      BY <1>5, <3>3 DEF Alone, Managing, Tasks
    <3>5. /\ \A m : Registered(m)' <=> Registered(m)
          /\ NoneRegistered' <=> NoneRegistered
      BY <2>d DEF Registered, NoneRegistered
    <3>6. PlanInv'
      BY <2>7, <2>b, <3>5 DEF PlanInv
    <3>7. TableInv'
      BY <2>1, <2>5, <2>7, <2>c, <2>d, <3>5 DEF TableInv
    <3>8. FramesInv'
      <4>1. StartOK(f)'
        <5>1. \A m \in Held(rest) : ~Registered(m)' /\ m \notin failed' /\ m \notin disabled'
          BY <2>1, <2>5, <2>7, <2>d, <3>5
        <5>2. \A d \in Modules : Registered(d)' => requires'[d] \cap Held(rest) = {}
          BY <2>1, <2>6, <2>7, <3>5
        <5> QED BY <2>1, <2>3, <2>7, <5>1, <5>2 DEF StartOK
      <4>2. FrameInv(f)'
        BY <2>3, <4>1 DEF FrameInv
      <4> QED BY <3>2, <3>3, <4>2 DEF FramesInv
    <3>9. TopsInv'
      <4>1. TopOK(Top(t), Rest(t))'
        BY <2>3, <3>2 DEF TopOK, Callees
      <4> QED BY <3>3, <4>1 DEF TopsInv
    <3>a. ProcsInv'
      BY <2>9, <2>d DEF ProcsInv, Live
    <3>b. PlacedInv'
      <4>1. \A m \in Held(rest) : StartsLater(m)'
        BY <2>3, <3>2 DEF StartsLater
      <4> QED BY <2>1, <2>7, <2>a, <2>d, <3>5, <4>1 DEF PlacedInv
    <3>c. ReachInv'
      BY <2>7, <2>8, <3>5 DEF ReachInv
    <3> QED BY <3>2, <3>4, <3>6, <3>7, <3>8, <3>9, <3>a, <3>b, <3>c DEF Sound
  <2>e. ASSUME NEW p \in Processes, requires[n] \subseteq RunningModules, Forgotten(p),
               table' = [table EXCEPT ![n] = p], procs' = [procs EXCEPT ![p] = "new"],
               Await(t, f, New("start", n, p, "spawn", <<>>)), failed' = failed
        PROVE  Sound'
    <3>1. PICK g \in Frame : g = New("start", n, p, "spawn", <<>>)
      <4>1. p \in 0..MaxProcesses /\ n \in Modules \cup Modes \cup {None}
        BY <2>1, ProcessBound DEF Processes
      <4> QED BY <4>1, NoTodo, NewIs DEF Callees
    <3>2. g.op = "start" /\ g.m = n /\ g.p = p /\ g.at = "spawn" /\ ~Over(g)
      BY <3>1 DEF New, Over
    <3>3. FrameOK(g)
      BY <2>1, <3>2 DEF FrameOK, LoopOps
    <3>4. /\ Busy(t)' /\ Top(t)' = g /\ Rest(t)' = {f} /\ Frames(t)' = {g, f}
          /\ Unmoved(t) /\ Shape'
      <4>1. <<g.op, f.op>> \in Above /\ f.op = Top(t).op
        BY <1>1, <2>3, <3>2 DEF Above
      <4> QED BY <1>1, <1>3, <2>4, <2>e, <3>1, <3>3, <4>1, AfterAwait DEF HostInv, Sound
    <3>5. \A u \in Tasks : u # t => ~Busy(u)' /\ Frames(u)' = {}
      BY <1>5, <3>4 DEF Unmoved
    <3>6. Alone'
      BY <1>5, <3>5 DEF Alone, Managing, Tasks
    <3>7. p # 0 /\ \A m \in Modules : table'[m] = IF m = n THEN p ELSE table[m]
      BY <2>1, <2>7, <2>e, ProcessBound DEF Processes
    <3>8. \A m \in Modules : Registered(m)' <=> Registered(m) \/ m = n
      BY <3>7 DEF Registered
    <3>9. \A m \in requires[n] : m \in Modules /\ Registered(m) /\ m \notin Held(Top(t).todo)
      <4>1. \A m \in RunningModules : m \in Modules /\ Registered(m)
        BY DEF RunningModules, Running, StateOf, Registered
      <4> QED BY <2>5, <2>e, <4>1
    <3>a. ~Registered(n) /\ n \notin failed /\ n \notin disabled
      BY <2>1, <2>5
    <3>b. PlanInv'
      <4>1. \A i, j \in DOMAIN plan :
               table'[plan[j]] # 0 /\ plan[i] \in requires[plan[j]] => i < j
        <5> SUFFICES ASSUME NEW i \in DOMAIN plan, NEW j \in DOMAIN plan, table'[plan[j]] # 0,
                            plan[i] \in requires[plan[j]]
                     PROVE  i < j
          OBVIOUS
        <5>1. plan[j] \in Modules
          BY <2>7
        <5>2. CASE plan[j] = n
          <6>1. plan[i] \notin Held(Top(t).todo)
            BY <3>9, <5>2
          <6> QED BY <2>1, <5>2, <6>1
        <5>3. CASE plan[j] # n
          <6>1. Registered(plan[j])
            BY <3>7, <5>1, <5>3 DEF Registered
          <6> QED BY <2>b, <6>1 DEF PlanInv
        <5> QED BY <5>2, <5>3
      <4>2. \A m \in Modules : Registered(m)' => m \in Held(plan)
        BY <2>1, <2>b, <3>8 DEF PlanInv
      <4>3. Distinct(plan)
        BY <2>b DEF PlanInv
      <4> QED BY <2>7, <4>1, <4>2, <4>3 DEF PlanInv, Registered
    <3>c. TableInv'
      BY <2>7, <2>c, <2>e, <3>8, <3>a DEF TableInv
    <3>d. FramesInv'
      <4>1. StartOK(f)'
        <5>1. \A m \in Held(rest) : m \in Modules /\ m # n
          BY <2>1, HeldIs
        <5>2. \A m \in Held(rest) : ~Registered(m)' /\ m \notin failed' /\ m \notin disabled'
          BY <2>1, <2>5, <2>7, <2>e, <3>8, <5>1
        <5>3. \A d \in Modules : Registered(d)' => requires'[d] \cap Held(rest) = {}
          BY <2>1, <2>6, <2>7, <3>8, <3>9
        <5> QED BY <2>1, <2>3, <2>7, <5>2, <5>3 DEF StartOK
      <4>2. FrameInv(f)' /\ FrameInv(g)'
        BY <2>3, <3>2, <4>1 DEF FrameInv
      <4> QED BY <3>4, <3>5, <4>2 DEF FramesInv
    <3>e. TopsInv'
      <4>1. table'[g.m] = p /\ p # 0
        BY <2>1, <3>2, <3>7
      <4>2. \A d \in Modules : Registered(d)' => n \notin requires'[d]
        BY <2>1, <2>6, <2>7, <3>8, <3>9
      <4>3. \A r \in Rest(t)' : r.op = "startAll" => n \notin Held(r.todo)
        BY <2>1, <2>3, <3>4
      <4>4. Top(t)' = g
        BY <3>4
      <4>5. TopOK(Top(t), Rest(t))'
        BY <3>2, <4>1, <4>2, <4>3, <4>4 DEF TopOK, Registered
      <4> QED BY <3>5, <4>5 DEF TopsInv
    <3>f. ProcsInv'
      <4> SUFFICES ASSUME NEW q \in Processes
                   PROVE  /\ Live(q)' => \E m \in Modules : table'[m] = q
                          /\ procs'[q] = "new" => Creates(g, q)
        BY <3>4 DEF ProcsInv, Creates
      <4>1. CASE q = p
        BY <2>1, <3>2, <3>7, <4>1 DEF Creates
      <4>2. CASE q # p
        <5>1. procs'[q] = procs[q]
          BY <2>7, <2>e, <4>2
        <5>2. ASSUME Live(q)' PROVE \E m \in Modules : table'[m] = q
          <6>1. PICK m \in Modules : table[m] = q
            BY <2>9, <5>1, <5>2 DEF Live
          <6>2. q # 0
            BY ProcessBound DEF Processes
          <6> QED BY <3>7, <3>a, <6>1, <6>2 DEF Registered
        <5> QED BY <2>9, <5>1, <5>2
      <4> QED BY <4>1, <4>2
    <3>g. PlacedInv'
      <4>1. \A m \in Held(rest) : StartsLater(m)'
        BY <2>3, <3>4 DEF StartsLater
      <4>2. Held(plan) \subseteq Modules
        BY <2>7, HeldIs
      <4> QED BY <2>1, <2>7, <2>a, <2>e, <3>8, <4>1, <4>2 DEF PlacedInv
    <3>h. ReachInv'
      BY <2>7, <2>8, <3>8, <3>9 DEF ReachInv
    <3> QED BY <3>4, <3>6, <3>b, <3>c, <3>d, <3>e, <3>f, <3>g, <3>h DEF Sound
  <2> QED BY <1>7, <2>2, <2>d, <2>e DEF StartNext, n, rest
<1> QED BY <1>6, <1>7

\* A failure: the module is recorded, taken out of the table and its process ended.
LEMMA FailKeeps == ASSUME HostInv, NEW t \in Tasks, Fail(t) PROVE Sound'
<1>1. /\ Busy(t) /\ Top(t).op \in {"start", "health", "call"} /\ Top(t).op \in Callees
      /\ Top(t).at = "err" /\ ~Over(Top(t))
      /\ failed' = failed \cup {Top(t).m} /\ table' = [table EXCEPT ![Top(t).m] = 0]
      /\ Terminate(t, "done") /\ UNCHANGED config
  BY DEF Fail, Turn, Callees, Over
<1>2. PICK m \in Modules : m = Top(t).m
  BY <1>1, CalleeIs
<1>3. Top(t) \in Frame /\ table[m] \in {0, Top(t).p} /\ TopOK(Top(t), Rest(t))
  BY <1>1, <1>2, CalleeIs
<1>4. /\ \A p \in Processes : /\ procs'[p] # "new"
                              /\ Live(p)' => Live(p) /\ p # Top(t).p
      /\ \E g \in Frame : /\ Become(t, g)
                          /\ g.op = Top(t).op /\ g.m = Top(t).m /\ g.p = Top(t).p
                          /\ g.at \in {"exit", "yield", "done"} /\ g.next = "done"
  BY <1>1, TerminateIs
<1>5. PICK g \in Frame : /\ Become(t, g) /\ g.op = Top(t).op /\ g.m = m /\ g.p = Top(t).p
                         /\ g.at \in {"exit", "yield", "done"} /\ Over(g)
  BY <1>2, <1>4 DEF Over
<1>6. FrameOK(g)
  BY <1>1, <1>5 DEF FrameOK, LoopOps
<1>7. /\ Busy(t)' /\ Top(t)' = g /\ Rest(t)' = Rest(t) /\ Frames(t)' = {g} \cup Rest(t)
      /\ Unmoved(t) /\ Shape'
  BY <1>1, <1>5, <1>6, ReplacesIs, AfterBecome DEF HostInv, Sound
<1>8. Frames(t) = {Top(t)} \cup Rest(t)
  BY <1>1, BusyIs DEF HostInv, Sound
<1>9. Alone'
  <2>1. Managing(t)' => Managing(t)
    BY <1>5, <1>7, <1>8 DEF Managing
  <2> QED BY <1>1, <1>7, <2>1, AloneKeeps DEF HostInv, Sound
<1>a. \A u \in Tasks : u # t => ~Managing(u)
  BY <1>1, AloneIs DEF HostInv, Sound
<1>b. /\ table \in [Modules -> 0..MaxProcesses] /\ plan \in Seq(Modules)
      /\ requires \in [Modules -> SUBSET Modules]
      /\ disabled \subseteq Modules /\ failed \subseteq Modules
      /\ plan' = plan /\ mode' = mode /\ requires' = requires /\ disabled' = disabled
      /\ failed' = failed \cup {m}
  BY <1>1, <1>2, GraphsOfModules DEF HostInv, TypeOK, config
<1>c. /\ \A d \in Modules : table'[d] = IF d = m THEN 0 ELSE table[d]
      /\ \A d \in Modules : Registered(d)' <=> Registered(d) /\ d # m
  BY <1>1, <1>2, <1>b DEF Registered
<1>d. PlanInv'
  <2>1. \A i \in DOMAIN plan : plan[i] \in Modules
    BY <1>b
  <2>2. PlanInv
    BY DEF HostInv, Sound
  <2>3. \A j \in DOMAIN plan : table'[plan[j]] # 0 => table[plan[j]] # 0
    BY <1>c, <2>1
  <2>4. \A d \in Modules : Registered(d)' => d \in Held(plan)
    BY <1>c, <2>2 DEF PlanInv
  <2>5. mode = None => NoneRegistered'
    BY <1>c, <2>2 DEF PlanInv, NoneRegistered
  <2>6. /\ Distinct(plan)
        /\ \A i, j \in DOMAIN plan : table'[plan[j]] # 0 /\ plan[i] \in requires[plan[j]] => i < j
    BY <2>2, <2>3 DEF PlanInv, Registered
  <2> QED BY <1>b, <2>4, <2>5, <2>6 DEF PlanInv, Registered
<1>e. TableInv'
  <2>1. TableInv
    BY DEF HostInv, Sound
  <2> QED BY <1>b, <1>c, <2>1 DEF TableInv
<1>f. FramesInv'
  <2> SUFFICES ASSUME NEW u \in Tasks, NEW k \in Frames(u)' PROVE FrameInv(k)'
    BY DEF FramesInv
  <2>1. CASE u = t /\ k = g
    BY <1>1, <1>5, <2>1 DEF FrameInv
  <2>2. CASE ~(u = t /\ k = g)
    <3>1. k \in Frames(u) /\ (u = t => k \in Rest(t))
      BY <1>7, <1>8, <2>2 DEF Unmoved
    <3>2. FrameInv(k) /\ k \in Frame
      <4>1. Frames(u) \subseteq Frame
        BY HeldIs DEF HostInv, TypeOK, Frames
      <4> QED BY <3>1, <4>1 DEF HostInv, Sound, FramesInv
    <3>3. k.op = "stop" => StopOK(k)'
      BY <1>b, <1>c, <3>2 DEF FrameInv, StopOK
    <3>4. ASSUME k.op = "startAll" PROVE StartOK(k)'
      <4>1. u = t
        BY <1>a, <3>1, <3>4 DEF Managing, ManageOps
      <4>2. m \notin Held(k.todo)
        BY <1>1, <1>2, <1>3, <3>1, <3>4, <4>1 DEF TopOK
      <4>3. StartOK(k) /\ Held(k.todo) \subseteq Modules
        BY <3>2, <3>4, HeldIs DEF FrameInv, Frame
      <4>4. \A d \in Held(k.todo) : ~Registered(d)' /\ d \notin failed' /\ d \notin disabled'
        BY <1>b, <1>c, <4>2, <4>3 DEF StartOK
      <4> QED BY <1>b, <1>c, <4>3, <4>4 DEF StartOK
    <3>5. ASSUME k.op \in {"probe", "collect"} PROVE ServeOK(k)'
      <4>1. ServeOK(k) /\ Held(k.todo) \subseteq Modules
        BY <3>2, <3>5, HeldIs DEF FrameInv, Frame
      <4> QED BY <1>b, <1>c, <4>1 DEF ServeOK
    <3> QED BY <3>3, <3>4, <3>5 DEF FrameInv
  <2> QED BY <2>1, <2>2
<1>g. TopsInv'
  <2> SUFFICES ASSUME NEW u \in Tasks, Busy(u)' PROVE TopOK(Top(u), Rest(u))'
    BY DEF TopsInv
  <2>1. CASE u = t
    <3>1. table'[g.m] = 0 /\ g.op = Top(t).op /\ g.m = Top(t).m /\ g.at # "lookup" /\ Over(g)
          /\ g.op \in {"start", "health", "call"}
      BY <1>1, <1>2, <1>5, <1>c
    <3>2. /\ g.op = "start" => \A d \in Modules : Registered(d)' => g.m \notin requires'[d]
          /\ \A r \in Rest(t) : r.op = "startAll" => g.m \notin Held(r.todo)
      BY <1>1, <1>3, <1>b, <1>c, <3>1 DEF TopOK
    <3>3. Top(t)' = g /\ Rest(t)' = Rest(t)
      BY <1>7
    <3> QED BY <2>1, <3>1, <3>2, <3>3 DEF TopOK, Over
  <2>2. CASE u # t
    <3>1. Busy(u) /\ Top(u)' = Top(u) /\ Rest(u)' = Rest(u)
      BY <1>7, <2>2 DEF Unmoved
    <3>2. Top(u) \in Frame /\ TopOK(Top(u), Rest(u)) /\ FrameOK(Top(u)) /\ Top(u) \in Frames(u)
      BY <3>1, BusyIs DEF HostInv, Sound, TopsInv
    <3>3. PICK k \in Frame : k = Top(u)
      BY <3>2
    <3>4. k.op \notin ManageOps
      BY <1>a, <2>2, <3>2, <3>3 DEF Managing
    <3>5. k.op = "call" => k.m \in Modules
      BY <3>2, <3>3 DEF FrameOK, Callees
    <3>6. TopOK(k, Rest(u))
      BY <3>2, <3>3
    <3>7. k.op = "call" /\ k.at # "lookup" => table'[k.m] \in {0, k.p}
      BY <1>c, <3>5, <3>6 DEF TopOK
    <3>8. k.op = "call" /\ k.at = "lookup" => /\ table'[k.m] # 0 \/ k.m \in failed'
                                             /\ \A r \in Rest(u) : r.op \in {"probe", "collect"}
      BY <1>b, <1>c, <3>5, <3>6 DEF TopOK, Registered
    <3>9. Top(u)' = k /\ Rest(u)' = Rest(u)
      BY <3>1, <3>3
    <3> QED BY <3>4, <3>6, <3>7, <3>8, <3>9 DEF TopOK, ManageOps, Registered
  <2> QED BY <2>1, <2>2
<1>h. ProcsInv'
  <2> SUFFICES ASSUME NEW p \in Processes, Live(p)'
               PROVE  \/ \E d \in Modules : table'[d] = p
                      \/ \E u \in Tasks : Busy(u)' /\ Halts(Top(u)', p)
    BY <1>4 DEF ProcsInv, Halts
  <2>1. Live(p) /\ p # Top(t).p /\ p # 0
    BY <1>4, ProcessBound DEF Processes
  <2>2. CASE \E d \in Modules : table[d] = p
    BY <1>3, <1>c, <2>1, <2>2
  <2>3. CASE \E u \in Tasks : Busy(u) /\ Halts(Top(u), p)
    <3>1. PICK u \in Tasks : Busy(u) /\ Halts(Top(u), p)
      BY <2>3
    <3>2. u # t
      BY <1>1, <3>1 DEF Halts
    <3> QED BY <1>7, <3>1, <3>2 DEF Unmoved
  <2> QED BY <2>1, <2>2, <2>3 DEF HostInv, Sound, ProcsInv
<1>i. /\ Rebuilding' <=> Rebuilding
      /\ Starting' <=> Starting
      /\ \A d : StartsLater(d)' <=> StartsLater(d)
  <2>1. \A u \in Tasks : \A k : k.op \in LoopOps => (k \in Frames(u)' <=> k \in Frames(u))
    BY <1>1, <1>5, <1>7, <1>8 DEF Unmoved, LoopOps
  <2> QED BY <2>1 DEF Rebuilding, Starting, StartsLater, LoopOps
<1>j. PlacedInv'
  <2>1. PlacedInv
    BY DEF HostInv, Sound
  <2>2. Held(plan) \subseteq Modules
    BY <1>b, HeldIs
  <2>3. NoneRegistered => NoneRegistered'
    BY <1>c DEF NoneRegistered
  <2>4. \A d \in Modules : Registered(d) => Registered(d)' \/ d \in failed'
    BY <1>b, <1>c
  <2> QED BY <1>b, <1>i, <2>1, <2>2, <2>3, <2>4 DEF PlacedInv
<1>k. ReachInv'
  <2> SUFFICES ASSUME ~Rebuilding', NEW d \in Modules, Registered(d)', NEW n \in requires[d],
                      ~Registered(n)'
               PROVE  \E u \in Tasks : Finds(u, d, n)'
    BY <1>b DEF ReachInv
  <2>1. n \in Modules /\ Registered(d) /\ d # m
    BY <1>b, <1>c
  <2>2. CASE n = m
    <3>1. Top(t).op # "start"
      BY <1>2, <1>3, <2>1, <2>2 DEF TopOK
    <3>2. Busy(t)' /\ Top(t)'.op \in {"call", "health"} /\ Over(Top(t)') /\ Top(t)'.m = n
      BY <1>1, <1>5, <1>7, <2>2, <3>1
    <3> QED BY <3>2 DEF Finds, Over
  <2>3. CASE n # m
    <3>1. PICK u \in Tasks : Finds(u, d, n)
      BY <1>c, <1>i, <2>1, <2>3 DEF HostInv, Sound, ReachInv
    <3>2. CASE u = t
      <4>1. \E k \in Frames(t) : k.op = "dependents" /\ k.m = n /\ d \in Held(k.todo)
        BY <1>1, <1>2, <2>1, <3>1, <3>2 DEF Finds
      <4>2. \E k \in Frames(t)' : k.op = "dependents" /\ k.m = n /\ d \in Held(k.todo)
        BY <1>1, <1>7, <1>8, <4>1
      <4> QED BY <4>2 DEF Finds
    <3>3. CASE u # t
      BY <1>7, <3>1, <3>3 DEF Finds, Unmoved, Over
    <3> QED BY <3>2, <3>3
  <2> QED BY <2>2, <2>3
<1> QED BY <1>7, <1>9, <1>d, <1>e, <1>f, <1>g, <1>h, <1>j, <1>k DEF Sound

-----------------------------------------------------------------------------
(* The types *)

LEMMA TypeMoves ==
    ASSUME HostInv, NEW t \in Tasks, NEW s \in Seq(Frame), stack' = [stack EXCEPT ![t] = s],
           requires' = requires, disabled' \subseteq Modules, failed' \subseteq Modules,
           plan' \in Seq(Modules), mode' \in Modes \cup {None},
           table' \in [Modules -> 0..MaxProcesses], procs' \in [Processes -> ProcessState],
           lock' \in [Processes -> Tasks \cup {None}],
           \A p \in Processes : lock'[p] # None =>
              \/ lock'[p] = lock[p] /\ lock[p] # t
              \/ lock'[p] = t /\ s # <<>> /\ Head(s).p = p /\ Head(s).at = "io"
    PROVE  TypeOK'
<1>1. /\ stack' \in [Tasks -> Seq(Frame)] /\ stack'[t] = s
      /\ \A u \in Tasks : u # t => stack'[u] = stack[u]
  BY DEF HostInv, TypeOK
<1>2. ASSUME NEW p \in Processes, lock'[p] # None
      PROVE  LET u == lock'[p] IN
             stack'[u] # <<>> /\ Head(stack'[u]).p = p /\ Head(stack'[u]).at = "io"
  <2>1. CASE lock'[p] = lock[p] /\ lock[p] # t
    <3>1. PICK u \in Tasks : u = lock[p]
      BY <1>2, <2>1
    <3>2. stack[u] # <<>> /\ Head(stack[u]).p = p /\ Head(stack[u]).at = "io"
      BY <1>2, <2>1, <3>1 DEF HostInv, TypeOK
    <3> QED BY <1>1, <2>1, <3>1, <3>2
  <2>2. CASE lock'[p] = t /\ s # <<>> /\ Head(s).p = p /\ Head(s).at = "io"
    BY <1>1, <2>2
  <2> QED BY <1>2, <2>1, <2>2
<1>3. requires' \in Graphs
  BY DEF HostInv, TypeOK
<1> QED BY <1>1, <1>2, <1>3 DEF TypeOK

\* A task that does not hold a lock changes its stack.
Moves(t) ==
    /\ Busy(t) => Top(t).at # "io"
    /\ \E s \in Seq(Frame) : stack' = [stack EXCEPT ![t] = s]

LEMMA MovesTyped ==
    ASSUME HostInv, NEW t \in Tasks, Moves(t), UNCHANGED <<requires, lock>>,
           disabled' \subseteq Modules, failed' \subseteq Modules,
           plan' \in Seq(Modules), mode' \in Modes \cup {None},
           table' \in [Modules -> 0..MaxProcesses], procs' \in [Processes -> ProcessState]
    PROVE  TypeOK'
<1>1. PICK s \in Seq(Frame) : stack' = [stack EXCEPT ![t] = s]
  BY DEF Moves
<1>2. lock' \in [Processes -> Tasks \cup {None}]
  BY DEF HostInv, TypeOK
<1>3. ASSUME NEW p \in Processes, lock[p] = t, lock[p] # None PROVE FALSE
  <2>1. stack[t] # <<>> /\ Head(stack[t]).at = "io"
    BY <1>3 DEF HostInv, TypeOK
  <2> QED BY <2>1 DEF Moves, Busy, Top
<1> QED BY <1>1, <1>2, <1>3, TypeMoves

LEMMA OnlyMoves ==
    ASSUME HostInv, NEW t \in Tasks, Moves(t), UNCHANGED <<config, failed, table, procs, lock>>
    PROVE  TypeOK'
BY MovesTyped DEF HostInv, TypeOK, config

LEMMA StacksAre ==
    ASSUME HostInv, NEW t \in Tasks
    PROVE  /\ \A g \in Frame : Busy(t) /\ Become(t, g) =>
                 \E s \in Seq(Frame) : stack' = [stack EXCEPT ![t] = s] /\ s # <<>> /\ Head(s) = g
           /\ \A f, g \in Frame : Busy(t) /\ Await(t, f, g) =>
                 \E s \in Seq(Frame) : stack' = [stack EXCEPT ![t] = s]
           /\ Busy(t) /\ Return(t) => \E s \in Seq(Frame) : stack' = [stack EXCEPT ![t] = s]
           /\ Raise(t) => \E s \in Seq(Frame) : stack' = [stack EXCEPT ![t] = s]
<1>1. ASSUME Busy(t) PROVE Tail(stack[t]) \in Seq(Frame)
  BY <1>1 DEF HostInv, TypeOK, Busy
<1> DEFINE r == Tail(stack[t])
<1>2. ASSUME NEW g \in Frame, Busy(t), Become(t, g)
      PROVE  \E s \in Seq(Frame) : stack' = [stack EXCEPT ![t] = s] /\ s # <<>> /\ Head(s) = g
  <2>1. stack' = [stack EXCEPT ![t] = <<g>> \o r]
    BY <1>2 DEF Become
  <2>2. g \in Frame /\ r \in Seq(Frame)
    BY <1>1, <1>2
  <2> HIDE DEF r
  <2>3. <<g>> \o r \in Seq(Frame) /\ <<g>> \o r # <<>> /\ Head(<<g>> \o r) = g
    BY ONLY <2>2, ConsIs
  <2> QED BY <2>1, <2>3
<1>3. ASSUME NEW f \in Frame, NEW g \in Frame, Busy(t), Await(t, f, g)
      PROVE  \E s \in Seq(Frame) : stack' = [stack EXCEPT ![t] = s]
  <2>1. stack' = [stack EXCEPT ![t] = <<g, f>> \o r]
    BY <1>3 DEF Await
  <2>2. r \in Seq(Frame)
    BY <1>1, <1>3
  <2> HIDE DEF r
  <2>3. <<g, f>> \o r \in Seq(Frame)
    BY <2>2
  <2> QED BY <2>1, <2>3
<1>4. ASSUME Busy(t), Return(t) PROVE \E s \in Seq(Frame) : stack' = [stack EXCEPT ![t] = s]
  <2>1. stack' = [stack EXCEPT ![t] = r]
    BY <1>4 DEF Return
  <2> HIDE DEF r
  <2> QED BY <1>1, <1>4, <2>1 DEF r
<1>5. Raise(t) => \E s \in Seq(Frame) : stack' = [stack EXCEPT ![t] = s]
  <2> DEFINE none == <<>>
  <2>1. none \in Seq(Frame)
    OBVIOUS
  <2>2. Raise(t) => stack' = [stack EXCEPT ![t] = none]
    BY DEF Raise
  <2> HIDE DEF none
  <2> QED BY <2>1, <2>2
<1> QED BY <1>2, <1>3, <1>4, <1>5

\* Requests and the ends of them.
LEMMA AskTyped == ASSUME HostInv, NEW t \in Tasks, Ask(t) \/ Granted(t) PROVE TypeOK'
<1>1. /\ Busy(t) /\ Top(t).op \in Callees /\ Top(t).at \in {"ask", "wait"}
      /\ UNCHANGED <<config, failed, table, procs>>
  BY DEF Ask, Granted, Turn
<1>2. Top(t) \in Frame
  BY <1>1, CalleeIs
<1>3. \A at \in {"err", "wait", "io"} :
         [Top(t) EXCEPT !.at = at] \in Frame /\ [Top(t) EXCEPT !.at = at].at = at
         /\ [Top(t) EXCEPT !.at = at].p = Top(t).p
  BY <1>2 DEF Frame, WaitPoints
<1>4. CASE /\ lock' = lock
           /\ \E at \in {"err", "wait"} : Become(t, [Top(t) EXCEPT !.at = at])
  <2>1. Moves(t)
    BY <1>1, <1>3, <1>4, StacksAre DEF Moves
  <2> QED BY <1>1, <1>4, <2>1, OnlyMoves
<1>5. CASE /\ lock' = [lock EXCEPT ![Top(t).p] = t]
           /\ Become(t, [Top(t) EXCEPT !.at = "io"])
  <2>1. PICK g \in Frame : g = [Top(t) EXCEPT !.at = "io"] /\ g.at = "io" /\ g.p = Top(t).p
    BY <1>3
  <2>2. PICK s \in Seq(Frame) : stack' = [stack EXCEPT ![t] = s] /\ s # <<>> /\ Head(s) = g
    BY <1>1, <1>5, <2>1, StacksAre
  <2>3. lock' \in [Processes -> Tasks \cup {None}]
    BY <1>5 DEF HostInv, TypeOK
  <2>4. ASSUME NEW p \in Processes, lock'[p] # None
        PROVE  \/ lock'[p] = lock[p] /\ lock[p] # t
               \/ lock'[p] = t /\ s # <<>> /\ Head(s).p = p /\ Head(s).at = "io"
    <3>1. CASE p = Top(t).p
      BY <1>5, <2>1, <2>2, <3>1 DEF HostInv, TypeOK
    <3>2. CASE p # Top(t).p
      <4>1. lock'[p] = lock[p]
        BY <1>5, <3>2 DEF HostInv, TypeOK
      <4>2. lock[p] # t
        <5>1. SUFFICES ASSUME lock[p] = t PROVE Head(stack[t]).at = "io"
          BY <1>1 DEF Top
        <5> QED BY <2>4, <4>1, <5>1 DEF HostInv, TypeOK
      <4> QED BY <4>1, <4>2
    <3> QED BY <3>1, <3>2
  <2>5. /\ requires' = requires /\ disabled' \subseteq Modules /\ failed' \subseteq Modules
        /\ plan' \in Seq(Modules) /\ mode' \in Modes \cup {None}
        /\ table' \in [Modules -> 0..MaxProcesses] /\ procs' \in [Processes -> ProcessState]
    BY <1>1 DEF HostInv, TypeOK, config
  <2> QED BY <2>2, <2>3, <2>4, <2>5, TypeMoves
<1> QED BY <1>4, <1>5 DEF Ask, Granted

LEMMA AnswerTyped == ASSUME HostInv, NEW t \in Tasks, Answer(t) \/ Lose(t) PROVE TypeOK'
<1>1. /\ Busy(t) /\ Top(t).op \in Callees /\ Top(t).at = "io"
      /\ UNCHANGED <<config, failed, table>>
      /\ lock' = [lock EXCEPT ![Top(t).p] = None]
  BY DEF Answer, Lose, Turn
<1>2. Top(t) \in Frame
  BY <1>1, CalleeIs
<1>3. /\ procs' \in [Processes -> ProcessState]
      /\ \E s \in Seq(Frame) : stack' = [stack EXCEPT ![t] = s]
  <2>1. CASE Answer(t)
    <3>1. Become(t, [Top(t) EXCEPT !.at = "ok"]) /\ procs' = procs
      BY <2>1 DEF Answer
    <3>2. [Top(t) EXCEPT !.at = "ok"] \in Frame
      BY <1>2 DEF Frame
    <3> QED BY <1>1, <3>1, <3>2, StacksAre DEF HostInv, TypeOK
  <2>2. CASE Lose(t)
    <3>1. Terminate(t, "err")
      BY <2>2 DEF Lose
    <3>2. procs' \in [Processes -> ProcessState] /\ \E g \in Frame : Become(t, g)
      BY <1>1, <3>1, TerminateIs
    <3> QED BY <1>1, <3>2, StacksAre
  <2> QED BY <2>1, <2>2
<1>4. PICK s \in Seq(Frame) : stack' = [stack EXCEPT ![t] = s]
  BY <1>3
<1>5. lock' \in [Processes -> Tasks \cup {None}]
  BY <1>1 DEF HostInv, TypeOK
<1>6. ASSUME NEW p \in Processes, lock'[p] # None PROVE lock'[p] = lock[p] /\ lock[p] # t
  <2>1. p # Top(t).p /\ lock'[p] = lock[p]
    BY <1>1, <1>6 DEF HostInv, TypeOK
  <2>2. lock[p] = t => Head(stack[t]).p = p
    BY <1>6, <2>1 DEF HostInv, TypeOK
  <2> QED BY <2>1, <2>2 DEF Top
<1>7. /\ requires' = requires /\ disabled' \subseteq Modules /\ failed' \subseteq Modules
      /\ plan' \in Seq(Modules) /\ mode' \in Modes \cup {None}
      /\ table' \in [Modules -> 0..MaxProcesses]
  BY <1>1 DEF HostInv, TypeOK, config
<1> QED BY <1>3, <1>4, <1>5, <1>6, <1>7, TypeMoves

\* Coroutines that go on, call another one or return.
LEMMA CalleesTyped ==
    ASSUME HostInv, NEW t \in Tasks,
           Terminated(t) \/ Lookup(t) \/ Reject(t) \/ Unhealthy(t) \/ Failed(t) \/ Ready(t)
           \/ Accept(t)
    PROVE  TypeOK'
<1>1. /\ Busy(t) /\ Top(t).op \in Callees /\ Top(t).at # "io"
      /\ UNCHANGED <<config, failed, table, procs, lock>>
  BY DEF Terminated, Lookup, Reject, Unhealthy, Failed, Ready, Accept, Turn, Callees
<1>2. /\ Top(t) \in Frame /\ Top(t).m \in Modules /\ table[Top(t).m] \in 0..MaxProcesses
  BY <1>1, CalleeIs DEF HostInv, TypeOK
<1>3. \/ \E g \in Frame : Become(t, g)
      \/ Return(t) \/ Raise(t)
  <2>1. /\ [Top(t) EXCEPT !.at = Top(t).next] \in Frame
        /\ [Top(t) EXCEPT !.at = "err"] \in Frame
        /\ [Top(t) EXCEPT !.p = table[Top(t).m], !.at = "err"] \in Frame
        /\ [Top(t) EXCEPT !.p = table[Top(t).m], !.at = "ask"] \in Frame
    BY <1>2 DEF Frame
  <2>2. New("dependents", Top(t).m, 0, "loop", Registry) \in Frame
    <3>1. Top(t).m \in Modules \cup Modes \cup {None} /\ Registry \in Seq(Modules)
      BY <1>2, RegistryIs
    <3> QED BY <3>1, NoTodo, NewIs DEF LoopOps
  <2>3. New("health", Top(t).m, 0, "lookup", <<>>) \in Frame
    BY <1>2, NoTodo, NewIs DEF Callees
  <2>4. CASE Terminated(t)
    BY <2>1, <2>4 DEF Terminated
  <2>5. CASE Lookup(t)
    BY <2>1, <2>5 DEF Lookup
  <2>6. CASE Reject(t)
    BY <2>1, <2>6 DEF Reject
  <2>7. CASE Unhealthy(t)
    BY <2>1, <2>7 DEF Unhealthy
  <2>8. CASE Failed(t)
    BY <2>2, <2>8 DEF Failed
  <2>9. CASE Ready(t)
    BY <2>3, <2>9 DEF Ready
  <2>a. CASE Accept(t)
    BY <2>a DEF Accept
  <2> QED BY <2>4, <2>5, <2>6, <2>7, <2>8, <2>9, <2>a
<1>4. Moves(t)
  BY <1>1, <1>3, StacksAre DEF Moves
<1> QED BY <1>1, <1>4, OnlyMoves

LEMMA LoopsTyped ==
    ASSUME HostInv, NEW t \in Tasks, QuarantineNext(t) \/ ServeNext(t) \/ Replan(t)
    PROVE  TypeOK'
<1> DEFINE n == Head(Top(t).todo)
           rest == Tail(Top(t).todo)
<1>1. /\ Busy(t) /\ Top(t).op \in LoopOps /\ UNCHANGED <<config, failed, table, procs, lock>>
  BY DEF QuarantineNext, ServeNext, Replan, Turn, LoopOps
<1>2. /\ Top(t) \in Frame /\ Top(t).todo \in Seq(Modules) /\ Top(t).at # "io"
      /\ \A m \in Modules : table[m] \in 0..MaxProcesses
  BY <1>1, LoopIs
<1>3. CASE QuarantineNext(t) \/ ServeNext(t)
  <2>1. CASE Top(t).todo = <<>>
    <3>1. Return(t)
      BY <1>3, <2>1 DEF QuarantineNext, ServeNext
    <3> QED BY <1>1, <1>2, <3>1, StacksAre, OnlyMoves DEF Moves
  <2>2. CASE Top(t).todo # <<>>
    <3>1. n \in Modules /\ rest \in Seq(Modules)
      BY <1>2, <2>2, TailIs
    <3>2. [Top(t) EXCEPT !.todo = rest] \in Frame /\ [Top(t) EXCEPT !.todo = rest, !.m = n] \in Frame
      BY <1>2, <3>1 DEF Frame
    <3>3. /\ New("call", n, 0, "lookup", <<>>) \in Frame
          /\ New("call", n, table[n], "err", <<>>) \in Frame
      <4>1. n \in Modules \cup Modes \cup {None} /\ table[n] \in 0..MaxProcesses
        BY <1>2, <3>1
      <4> HIDE DEF n
      <4> QED BY <4>1, NoTodo, NewIs DEF Callees
    <3>4. \/ \E g \in Frame : Become(t, g)
          \/ \E f, g \in Frame : Await(t, f, g)
      <4>1. CASE QuarantineNext(t)
        BY <2>2, <3>2, <3>3, <4>1 DEF QuarantineNext
      <4>2. CASE ServeNext(t)
        BY <2>2, <3>2, <3>3, <4>2 DEF ServeNext
      <4> QED BY <1>3, <4>1, <4>2
    <3>5. Moves(t)
      BY <1>1, <1>2, <3>4, StacksAre DEF Moves
    <3> QED BY <1>1, <3>5, OnlyMoves
  <2> QED BY <2>1, <2>2
<1>4. CASE Replan(t)
  <2>1. CASE mode = None
    <3>1. Return(t)
      BY <1>4, <2>1 DEF Replan
    <3> QED BY <1>1, <1>2, <3>1, StacksAre, OnlyMoves DEF Moves
  <2>2. CASE mode # None
    <3>1. stack' = [stack EXCEPT ![t] = <<StopAll, Planning(mode)>> \o Tail(stack[t])]
      BY <1>4, <2>2 DEF Replan
    <3>2. StopAll \in Frame /\ Planning(mode) \in Frame
      BY <2>2, StopAllIs, PlanningIs DEF HostInv, TypeOK
    <3>3. Tail(stack[t]) \in Seq(Frame)
      BY <1>1 DEF HostInv, TypeOK, Busy
    <3> DEFINE r == Tail(stack[t])
               f == StopAll
               g == Planning(mode)
    <3>4. f \in Frame /\ g \in Frame /\ r \in Seq(Frame) /\ stack' = [stack EXCEPT ![t] = <<f, g>> \o r]
      BY <3>1, <3>2, <3>3
    <3> HIDE DEF r, f, g
    <3>5. <<f, g>> \o r \in Seq(Frame)
      BY <3>4
    <3>6. Moves(t)
      BY <1>2, <3>4, <3>5 DEF Moves
    <3> QED BY <1>1, <3>6, OnlyMoves
  <2> QED BY <2>1, <2>2
<1> QED BY <1>3, <1>4

\* Processes that are created and ended.
LEMMA ProcessesTyped ==
    ASSUME HostInv, NEW t \in Tasks, Fail(t) \/ Halt(t) \/ Spawn(t)
    PROVE  TypeOK'
<1>1. /\ Busy(t) /\ Top(t).op \in Callees /\ Top(t).at # "io"
      /\ UNCHANGED config /\ UNCHANGED lock
  BY DEF Fail, Halt, Spawn, Turn, Callees
<1>2. Top(t) \in Frame /\ Top(t).m \in Modules
  BY <1>1, CalleeIs
<1>3. CASE Fail(t) \/ Halt(t)
  <2>1. Terminate(t, "done") /\ Top(t).at \in {"ok", "err"}
    BY <1>3 DEF Fail, Halt, Turn
  <2>2. procs' \in [Processes -> ProcessState] /\ \E g \in Frame : Become(t, g)
    BY <1>1, <2>1, TerminateIs
  <2>3. Moves(t)
    BY <1>1, <2>2, StacksAre DEF Moves
  <2>4. failed' \subseteq Modules /\ table' \in [Modules -> 0..MaxProcesses]
    <3>1. failed' = failed \/ failed' = failed \cup {Top(t).m}
      BY <1>3 DEF Fail, Halt
    <3>2. table' = table \/ table' = [table EXCEPT ![Top(t).m] = 0]
      BY <1>3 DEF Fail, Halt
    <3>3. 0 \in 0..MaxProcesses
      BY NoTodo
    <3> QED BY <1>2, <3>1, <3>2, <3>3 DEF HostInv, TypeOK
  <2> QED BY <1>1, <2>2, <2>3, <2>4, MovesTyped DEF HostInv, TypeOK, config
<1>4. CASE Spawn(t)
  <2>1. /\ [Top(t) EXCEPT !.at = "ask"] \in Frame /\ [Top(t) EXCEPT !.at = "err"] \in Frame
    BY <1>2 DEF Frame
  <2>2. \E g \in Frame : Become(t, g)
    BY <1>4, <2>1 DEF Spawn
  <2>3. Moves(t)
    BY <1>1, <2>2, StacksAre DEF Moves
  <2>4. procs' \in [Processes -> ProcessState] /\ failed' = failed /\ table' = table
    BY <1>4 DEF Spawn, HostInv, TypeOK, ProcessState
  <2> QED BY <1>1, <2>3, <2>4, MovesTyped DEF HostInv, TypeOK, config
<1> QED BY <1>3, <1>4

\* Loops of a manager.
LEMMA ManagersTyped ==
    ASSUME HostInv, NEW t \in Tasks, StopNext(t) \/ StartNext(t)
    PROVE  TypeOK'
<1> DEFINE n == Head(Top(t).todo)
           rest == Tail(Top(t).todo)
<1>1. /\ Busy(t) /\ Top(t).op \in LoopOps /\ UNCHANGED config /\ UNCHANGED lock
  BY DEF StopNext, StartNext, Turn, LoopOps
<1>2. /\ Top(t) \in Frame /\ Top(t).todo \in Seq(Modules) /\ Top(t).at # "io"
  BY <1>1, LoopIs
<1>3. CASE Top(t).todo = <<>>
  <2>1. Return(t) /\ UNCHANGED <<failed, table, procs>>
    BY <1>3 DEF StopNext, StartNext
  <2> QED BY <1>1, <1>2, <2>1, StacksAre, OnlyMoves DEF Moves
<1>4. CASE Top(t).todo # <<>>
  <2>1. n \in Modules /\ rest \in Seq(Modules)
    BY <1>2, <1>4, TailIs
  <2>2. [Top(t) EXCEPT !.todo = rest] \in Frame
    BY <1>2, <2>1 DEF Frame
  <2>3. CASE StopNext(t)
    <3>1. Halting(n) \in Frame
      <4> HIDE DEF n
      <4> QED BY <2>1, HaltingIs
    <3>2. \/ \E g \in Frame : Become(t, g)
          \/ \E f, g \in Frame : Await(t, f, g)
      BY <1>4, <2>2, <2>3, <3>1 DEF StopNext
    <3>3. Moves(t)
      BY <1>1, <1>2, <3>2, StacksAre DEF Moves
    <3>4. table' = table \/ table' = [table EXCEPT ![n] = 0]
      BY <1>4, <2>3 DEF StopNext
    <3>5. table' \in [Modules -> 0..MaxProcesses] /\ failed' = failed /\ procs' = procs
      <4>1. 0 \in 0..MaxProcesses
        BY NoTodo
      <4>2. failed' = failed /\ procs' = procs
        BY <2>3 DEF StopNext
      <4> QED BY <2>1, <3>4, <4>1, <4>2 DEF HostInv, TypeOK
    <3> QED BY <1>1, <3>3, <3>5, MovesTyped DEF HostInv, TypeOK, config
  <2>4. CASE StartNext(t)
    <3>1. \/ Become(t, [Top(t) EXCEPT !.todo = rest]) /\ UNCHANGED <<table, procs>>
             /\ failed' = failed \cup {n}
          \/ /\ \E p \in Processes :
                   /\ table' = [table EXCEPT ![n] = p] /\ procs' = [procs EXCEPT ![p] = "new"]
                   /\ Await(t, [Top(t) EXCEPT !.todo = rest], New("start", n, p, "spawn", <<>>))
             /\ failed' = failed
      BY <1>4, <2>4 DEF StartNext
    <3>2. CASE Become(t, [Top(t) EXCEPT !.todo = rest]) /\ UNCHANGED <<table, procs>>
               /\ failed' = failed \cup {n}
      <4>1. Moves(t)
        BY <1>1, <1>2, <2>2, <3>2, StacksAre DEF Moves
      <4>2. failed' \subseteq Modules
        BY <2>1, <3>2 DEF HostInv, TypeOK
      <4> QED BY <1>1, <3>2, <4>1, <4>2, MovesTyped DEF HostInv, TypeOK, config
    <3>3. ASSUME NEW p \in Processes, failed' = failed,
                 table' = [table EXCEPT ![n] = p], procs' = [procs EXCEPT ![p] = "new"],
                 Await(t, [Top(t) EXCEPT !.todo = rest], New("start", n, p, "spawn", <<>>))
          PROVE  TypeOK'
      <4>1. p \in 0..MaxProcesses /\ n \in Modules \cup Modes \cup {None}
        BY <2>1, ProcessBound DEF Processes
      <4>2. New("start", n, p, "spawn", <<>>) \in Frame
        <5> HIDE DEF n
        <5> QED BY <4>1, NoTodo, NewIs DEF Callees
      <4>3. Moves(t)
        BY <1>1, <1>2, <2>2, <3>3, <4>2, StacksAre DEF Moves
      <4>4. table' \in [Modules -> 0..MaxProcesses] /\ procs' \in [Processes -> ProcessState]
        BY <2>1, <3>3, <4>1 DEF HostInv, TypeOK, ProcessState
      <4> QED BY <1>1, <3>3, <4>3, <4>4, MovesTyped DEF HostInv, TypeOK, config
    <3> QED BY <3>1, <3>2, <3>3
  <2> QED BY <2>3, <2>4
<1> QED BY <1>3, <1>4

LEMMA PlanTyped == ASSUME HostInv, NEW t \in Tasks, Plan(t) PROVE TypeOK'
<1>1. /\ Busy(t) /\ Top(t).op \in LoopOps /\ Top(t).op = "plan"
      /\ UNCHANGED <<requires, disabled, table, procs, lock>>
      /\ mode' = Top(t).m /\ failed' = {}
      /\ plan' = ActivationOrder(requires, Modules \ disabled, Top(t).m)
      /\ Become(t, New("startAll", None, 0, "loop", plan'))
  BY DEF Plan, Turn, LoopOps
<1>2. Top(t) \in Frame /\ Top(t).m \in Modes /\ Top(t).at # "io"
  BY <1>1, LoopIs
<1>3. PICK order \in Seq(Modules) : order = plan'
  BY <1>1, <1>2, PlanIs
<1>4. New("startAll", None, 0, "loop", order) \in Frame
  BY NoTodo, NewIs DEF LoopOps
<1>5. Moves(t)
  BY <1>1, <1>2, <1>3, <1>4, StacksAre DEF Moves
<1> QED BY <1>1, <1>2, <1>3, <1>5, MovesTyped DEF HostInv, TypeOK

\* Operations that begin.
LEMMA ShortStacks ==
    /\ \A f \in Frame : <<f>> \in Seq(Frame)
    /\ \A f, g \in Frame : <<f, g>> \in Seq(Frame)
OBVIOUS

LEMMA BeginsTyped ==
    ASSUME HostInv, NEW t \in Tasks,
           \/ \E md \in Modes : Activate(t, md)
           \/ Stop(t) \/ CollectHealth(t) \/ \E port \in Ports : Collect(t, port)
    PROVE  TypeOK'
<1>1. ~Busy(t) /\ UNCHANGED <<config, failed, table, procs, lock>>
  BY DEF Activate, Stop, CollectHealth, Collect, MayManage, MayCall, Idle
<1>2. StopAll \in Frame
  BY StopAllIs
<1>3. \E s \in Seq(Frame) : stack' = [stack EXCEPT ![t] = s]
  <2>1. ASSUME NEW md \in Modes, Activate(t, md)
        PROVE  \E s \in Seq(Frame) : stack' = [stack EXCEPT ![t] = s]
    <3>1. Planning(md) \in Frame /\ stack' = [stack EXCEPT ![t] = <<StopAll, Planning(md)>>]
      BY <2>1, PlanningIs DEF Activate, Begin
    <3> QED BY <1>2, <3>1, ShortStacks
  <2>2. CASE Stop(t)
    <3>1. stack' = [stack EXCEPT ![t] = <<StopAll>>]
      BY <2>2 DEF Stop, Begin
    <3> QED BY <1>2, <3>1, ShortStacks
  <2>3. ASSUME NEW op \in {"probe", "collect"}, NEW port \in [Modules -> Nat],
               stack' = [stack EXCEPT ![t] = <<New(op, None, 0, "loop", Served(port))>>]
        PROVE  \E s \in Seq(Frame) : stack' = [stack EXCEPT ![t] = s]
    <3>1. Served(port) \in Seq(Modules)
      BY ServedIs DEF HostInv, TypeOK
    <3>2. New(op, None, 0, "loop", Served(port)) \in Frame
      BY <3>1, NoTodo, NewIs DEF LoopOps
    <3> QED BY <2>3, <3>2, ShortStacks
  <2>4. CASE CollectHealth(t)
    <3> PICK port \in [Modules -> Nat] : port = [m \in Modules |-> 1]
      OBVIOUS
    <3> QED BY <2>3, <2>4 DEF CollectHealth, Begin
  <2>5. ASSUME NEW port \in Ports, Collect(t, port)
        PROVE  \E s \in Seq(Frame) : stack' = [stack EXCEPT ![t] = s]
    <3>1. port \in [Modules -> Nat]
      BY PortsOfModules
    <3> QED BY <2>3, <2>5, <3>1 DEF Collect, Begin
  <2> QED BY <2>1, <2>2, <2>4, <2>5
<1>4. Moves(t)
  BY <1>1, <1>3 DEF Moves
<1> QED BY <1>1, <1>4, OnlyMoves

LEMMA ConfigTyped ==
    ASSUME HostInv, NEW t \in Tasks, NEW m \in Modules, Disable(t, m) \/ Enable(t, m)
    PROVE  TypeOK'
<1>1. /\ ~Busy(t) /\ UNCHANGED <<requires, failed, plan, mode, procs, lock>>
  BY DEF Disable, Enable, MayManage, Idle
<1>2. PICK f \in Frame : f = New("replan", None, 0, "loop", <<>>)
  BY ReplanIs
<1>3. Halting(m) \in Frame
  BY HaltingIs
<1>4. \E s \in Seq(Frame) : stack' = [stack EXCEPT ![t] = s]
  <2>1. CASE Disable(t, m)
    <3>1. stack' = [stack EXCEPT ![t] = (IF table[m] # 0 THEN <<Halting(m)>> ELSE <<>>) \o <<f>>]
      BY <1>2, <2>1 DEF Disable, Begin
    <3>2. <<Halting(m)>> \o <<f>> \in Seq(Frame) /\ <<>> \o <<f>> \in Seq(Frame)
      <4>1. <<Halting(m)>> \in Seq(Frame) /\ <<f>> \in Seq(Frame) /\ <<>> \in Seq(Frame)
        BY <1>2, <1>3
      <4> QED BY <4>1, ConcatIs
    <3> QED BY <3>1, <3>2
  <2>2. CASE Enable(t, m)
    <3>1. stack' = [stack EXCEPT ![t] = <<f>>]
      BY <1>2, <2>2 DEF Enable, Begin
    <3> QED BY <1>2, <3>1, ShortStacks
  <2> QED BY <2>1, <2>2
<1>5. Moves(t)
  BY <1>1, <1>4 DEF Moves
<1>6. disabled' \subseteq Modules /\ table' \in [Modules -> 0..MaxProcesses]
  <2>1. 0 \in 0..MaxProcesses
    BY NoTodo
  <2> QED BY <2>1 DEF Disable, Enable, HostInv, TypeOK
<1> QED BY <1>1, <1>5, <1>6, MovesTyped DEF HostInv, TypeOK

LEMMA EndsTyped == ASSUME HostInv, NEW p \in Processes, Crash(p) \/ Exit(p) PROVE TypeOK'
<1>1. UNCHANGED <<config, failed, table, lock, stack>>
  BY DEF Crash, Exit
<1>2. procs' \in [Processes -> ProcessState]
  BY DEF Crash, Exit, HostInv, TypeOK, ProcessState
<1> QED BY <1>1, <1>2 DEF HostInv, TypeOK, config

-----------------------------------------------------------------------------
(* The theorems *)

LEMMA InitSound == Init => HostInv
<1> SUFFICES ASSUME Init PROVE HostInv
  OBVIOUS
<1> USE DEF Init
<1>1. TypeOK
  <2>1. /\ <<>> \in Seq(Modules) /\ <<>> \in Seq(Frame) /\ 0 \in 0..MaxProcesses
    BY NoTodo
  <2> QED BY <2>1 DEF TypeOK, ProcessState
<1>2. \A t \in Tasks : ~Busy(t) /\ Frames(t) = {} /\ Fits(stack[t])
  BY DEF Busy, Frames, Held, Fits
<1>3. /\ \A m \in Modules : ~Registered(m)
      /\ NoneRegistered
  BY DEF Registered, NoneRegistered
<1>4. Shape /\ Alone /\ FramesInv /\ TopsInv /\ ReachInv
  BY <1>2, <1>3 DEF Shape, Alone, Managing, FramesInv, TopsInv, ReachInv
<1>5. PlanInv /\ TableInv
  BY <1>3 DEF PlanInv, TableInv, Distinct, Held
<1>6. ProcsInv
  BY DEF ProcsInv, Live
<1>7. PlacedInv
  BY <1>2, <1>3 DEF PlacedInv, Starting
<1> QED BY <1>1, <1>4, <1>5, <1>6, <1>7 DEF HostInv, Sound

LEMMA StutterSound == ASSUME HostInv, UNCHANGED vars PROVE HostInv'
<1> USE DEF HostInv, Sound
<1>1. /\ UNCHANGED <<config, failed, table>>
      /\ stack' = stack /\ procs' = procs /\ lock' = lock /\ requires' = requires
      /\ plan' = plan /\ mode' = mode /\ disabled' = disabled
  BY DEF vars, config
<1>2. /\ \A m : Registered(m)' <=> Registered(m)
      /\ NoneRegistered' <=> NoneRegistered
      /\ PlanInv' /\ TableInv'
      /\ \A f : FrameInv(f)' <=> FrameInv(f)
  BY <1>1, SameTable
<1>3. \A t : /\ Busy(t)' <=> Busy(t)
             /\ Frames(t)' = Frames(t) /\ Top(t)' = Top(t) /\ Rest(t)' = Rest(t)
  BY <1>1 DEF Busy, Frames, Top, Rest
<1>4. TypeOK'
  BY <1>1 DEF TypeOK
<1>5. Shape' /\ Alone' /\ FramesInv'
  BY <1>1, <1>2, <1>3 DEF Shape, Fits, FrameOK, Alone, Managing, FramesInv
<1>6. TopsInv'
  <2> SUFFICES ASSUME NEW t \in Tasks, Busy(t)' PROVE TopOK(Top(t), Rest(t))'
    BY DEF TopsInv
  <2>1. PICK g : g = Top(t)
    OBVIOUS
  <2>2. TopOK(g, Rest(t)) /\ Top(t)' = g /\ Rest(t)' = Rest(t)
    BY <1>3, <2>1 DEF TopsInv
  <2> QED BY <1>1, <1>2, <2>2 DEF TopOK, Over, Registered, Live
<1>7. ProcsInv'
  BY <1>1, <1>3 DEF ProcsInv, Halts, Creates, Live
<1>8. PlacedInv'
  BY <1>1, <1>2, <1>3 DEF PlacedInv, Rebuilding, StartsLater, Starting
<1>9. ReachInv'
  <2>1. \A t \in Tasks : \A d, m : Finds(t, d, m)' <=> Finds(t, d, m)
    BY <1>3 DEF Finds, Over
  <2> QED BY <1>1, <1>2, <1>3, <2>1 DEF ReachInv, Rebuilding
<1> QED BY <1>2, <1>4, <1>5, <1>6, <1>7, <1>8, <1>9

LEMMA StepSound ==
    ASSUME Overlap = FALSE, HostInv, [Next]_vars
    PROVE  HostInv'
<1>1. ASSUME NEW t \in Tasks, Step(t) PROVE TypeOK' /\ Sound'
  <2>1. CASE Ask(t) \/ Granted(t)
    BY <2>1, AskKeeps, GrantedKeeps, AskTyped
  <2>2. CASE Answer(t) \/ Lose(t)
    BY <2>2, AnswerKeeps, LoseKeeps, AnswerTyped
  <2>3. CASE Terminated(t) \/ Lookup(t) \/ Accept(t) \/ Reject(t)
    BY <2>3, TerminatedKeeps, LookupKeeps, AcceptKeeps, RejectKeeps, CalleesTyped
  <2>4. CASE Unhealthy(t) \/ Failed(t) \/ Ready(t)
    BY <2>4, UnhealthyKeeps, FailedKeeps, ReadyKeeps, CalleesTyped
  <2>5. CASE Fail(t) \/ Halt(t) \/ Spawn(t)
    BY <2>5, FailKeeps, HaltKeeps, SpawnKeeps, ProcessesTyped
  <2>6. CASE QuarantineNext(t) \/ ServeNext(t) \/ Replan(t)
    BY <2>6, QuarantineKeeps, ServeKeeps, ReplanKeeps, LoopsTyped
  <2>7. CASE StopNext(t) \/ StartNext(t)
    BY <2>7, StopNextKeeps, StartNextKeeps, ManagersTyped
  <2>8. CASE Plan(t)
    BY <2>8, PlanKeeps, PlanTyped
  <2> QED BY <1>1, <2>1, <2>2, <2>3, <2>4, <2>5, <2>6, <2>7, <2>8 DEF Step
<1>2. ASSUME NEW p \in Processes, Crash(p) \/ Exit(p) PROVE TypeOK' /\ Sound'
  BY <1>2, EndsKeep, EndsTyped
<1>3. ASSUME NEW t \in Tasks, NEW md \in Modes, Activate(t, md) PROVE TypeOK' /\ Sound'
  BY <1>3, ActivateKeeps, BeginsTyped
<1>4. ASSUME NEW t \in Tasks, NEW m \in Modules, Disable(t, m) \/ Enable(t, m)
      PROVE  TypeOK' /\ Sound'
  BY <1>4, DisableKeeps, EnableKeeps, ConfigTyped
<1>5. ASSUME NEW t \in Tasks, Stop(t) \/ CollectHealth(t) PROVE TypeOK' /\ Sound'
  BY <1>5, StopKeeps, CollectsKeep, BeginsTyped
<1>6. ASSUME NEW t \in Tasks, NEW port \in Ports, Collect(t, port) PROVE TypeOK' /\ Sound'
  BY <1>6, CollectsKeep, BeginsTyped
<1>7. CASE UNCHANGED vars
  BY <1>7, StutterSound
<1> QED BY <1>1, <1>2, <1>3, <1>4, <1>5, <1>6, <1>7 DEF Next, HostInv

\* The inductive invariant of host.py while a manager works alone: no call runs
\* beside activate, disable, enable or stop, as everywhere the repository uses the host.
THEOREM HostInvariant == ASSUME Overlap = FALSE PROVE Spec => []HostInv
<1>1. Init => HostInv
  BY InitSound
<1>2. HostInv /\ [Next]_vars => HostInv'
  BY StepSound
<1> QED BY <1>1, <1>2, PTL DEF Spec

\* What the invariant promises.
LEMMA HostInvIsSound == HostInv => HostIsSound
<1> SUFFICES ASSUME HostInv PROVE HostIsSound
  OBVIOUS
<1> USE DEF HostInv, Sound
<1>1. NoOrphans
  <2> SUFFICES ASSUME NEW p \in Processes, procs[p] \in {"new", "up"}
               PROVE  \/ \E m \in Modules : table[m] = p
                      \/ \E t \in Tasks : \E i \in DOMAIN stack[t] : stack[t][i].p = p
    BY DEF NoOrphans
  <2>1. Live(p)
    BY ProcessBound DEF Live, Processes
  <2>2. ASSUME NEW t \in Tasks, Busy(t), Halts(Top(t), p)
        PROVE  \E i \in DOMAIN stack[t] : stack[t][i].p = p
    <3>1. stack[t] \in Seq(Frame) /\ stack[t] # <<>>
      BY <2>2 DEF TypeOK, Busy
    <3>2. 1 \in DOMAIN stack[t] /\ stack[t][1] = Top(t)
      BY <3>1 DEF Top
    <3> QED BY <2>2, <3>2 DEF Halts
  <2> QED BY <2>1, <2>2 DEF ProcsInv
<1>2. StopLeavesNothing
  <2> SUFFICES ASSUME NEW t \in Tasks, Busy(t), Top(t).op = "stop", Top(t).todo = <<>>,
                      NEW m \in Modules, Registered(m)
               PROVE  FALSE
    BY DEF StopLeavesNothing
  <2>1. StopOK(Top(t))
    BY LoopIs DEF FrameInv, LoopOps
  <2> QED BY <2>1 DEF StopOK, Held
<1>3. Quiet => \A t \in Tasks : ~Busy(t) /\ Frames(t) = {}
  BY IdleIs DEF Quiet, Idle
<1>4. QuarantineReachesDependents
  <2> SUFFICES ASSUME Quiet, NEW d \in Modules, Registered(d), NEW m \in requires[d]
               PROVE  Registered(m)
    BY DEF QuarantineReachesDependents
  <2> QED BY <1>3 DEF ReachInv, Rebuilding, Finds
<1>5. NothingLost
  <2> SUFFICES ASSUME Quiet, NEW m \in Modules, Registered(m), NEW i \in DOMAIN plan
               PROVE  Registered(plan[i]) \/ plan[i] \in failed
    BY DEF NothingLost
  <2>1. ~Rebuilding /\ ~NoneRegistered /\ ~StartsLater(plan[i])
    BY <1>3 DEF Rebuilding, NoneRegistered, StartsLater
  <2> QED BY <2>1 DEF PlacedInv, Held
<1>6. CutsAreRecorded
  <2> SUFFICES ASSUME NEW t \in Tasks, Busy(t), Top(t).at = "lookup"
               PROVE  Registered(Top(t).m) \/ Top(t).m \in failed
    BY DEF CutsAreRecorded
  <2>1. FrameOK(Top(t)) /\ TopOK(Top(t), Rest(t))
    BY BusyIs DEF TopsInv
  <2> QED BY <2>1 DEF FrameOK, TopOK, Over
<1>7. FailedIsOut /\ DisabledIsOut
  BY DEF TableInv, TypeOK, FailedIsOut, DisabledIsOut
<1> QED BY <1>1, <1>2, <1>4, <1>5, <1>6, <1>7 DEF HostIsSound

\* Every process has an owner who ends it; a failure takes out the module with its
\* dependents and nothing else, is on record, and lasts: _quarantine_module and
\* _stop_process leave nothing behind, whatever crashes or answers late.
THEOREM HostStaysSound == ASSUME Overlap = FALSE PROVE Spec => []HostIsSound
BY HostInvariant, HostInvIsSound, PTL

\* A module that stop takes out of the table has nothing in the table that requires it.
LEMMA StopsInOrder ==
    ASSUME HostInv, NEW t \in Tasks, StopNext(t), NEW m \in Modules, NEW d \in Modules,
           Registered(m), table'[m] = 0, m \in requires[d], Registered(d)
    PROVE  FALSE
<1>1. /\ Busy(t) /\ Top(t).op = "stop" /\ Top(t).op \in LoopOps
  BY DEF StopNext, Turn, LoopOps
<1>2. Top(t).todo \in Seq(Modules) /\ StopOK(Top(t))
  BY <1>1, LoopIs DEF FrameInv
<1>3. table \in [Modules -> 0..MaxProcesses] /\ plan \in Seq(Modules) /\ PlanInv
  BY DEF HostInv, Sound, TypeOK
<1>4. Top(t).todo # <<>> /\ table' = [table EXCEPT ![Head(Top(t).todo)] = 0]
  BY DEF StopNext, Registered
<1>5. m = Head(Top(t).todo)
  BY <1>3, <1>4 DEF Registered
<1>6. PICK l \in Nat : l = Len(Top(t).todo) /\ DOMAIN Top(t).todo = 1..l
  BY <1>2
<1>7. PICK k \in Nat : k = Len(plan) /\ DOMAIN plan = 1..k
  BY <1>3
<1>8. l \in 1..k /\ \A i \in 1..l : Top(t).todo[i] = plan[l + 1 - i]
  <2>1. l # 0
    BY <1>2, <1>4, <1>6
  <2> QED BY <1>2, <1>6, <1>7, <2>1 DEF StopOK
<1>9. m = plan[l]
  <2>1. m = Top(t).todo[1] /\ 1 \in 1..l /\ l + 1 - 1 = l
    BY <1>2, <1>4, <1>5, <1>6, <1>8
  <2> QED BY <1>8, <2>1
<1>a. PICK i \in 1..l : d = Top(t).todo[i]
  BY <1>2, <1>6 DEF StopOK, Held
<1>b. l + 1 - i \in 1..k /\ d = plan[l + 1 - i]
  BY <1>8, <1>a
<1>c. l < l + 1 - i
  BY <1>3, <1>7, <1>8, <1>9, <1>b DEF PlanInv
<1> QED BY <1>c

\* stop goes through the plan in reverse: a module is taken out of the table and
\* stopped only when nothing that requires it is in the table any more.
THEOREM StopFollowsTheOrder == ASSUME Overlap = FALSE PROVE Spec => DependentsStopFirst
<1>1. HostInv => \A t \in Tasks : StopNext(t) =>
         \A m, d \in Modules :
            Registered(m) /\ table'[m] = 0 /\ m \in requires[d] => ~Registered(d)
  BY StopsInOrder
<1>2. HostInv /\ [Next]_vars =>
        [\A t \in Tasks : StopNext(t) =>
           \A m, d \in Modules :
              Registered(m) /\ table'[m] = 0 /\ m \in requires[d] => ~Registered(d)]_vars
  BY <1>1
<1> QED BY HostInvariant, <1>2, PTL DEF Spec, DependentsStopFirst

-----------------------------------------------------------------------------
(* The plan in use is the planner's *)

\* The plan was made for the graph, the mode and the modules there are, unless the
\* coroutine that will make it is still on some stack.
Replans(t) == \E f \in Frames(t) : f.op \in {"plan", "replan"}
Replanning == \E t \in Tasks : Replans(t)

PlanFresh ==
    mode # None /\ ~Replanning => plan = ActivationOrder(requires, Modules \ disabled, mode)

\* A coroutine that waits for another one stays until that one returns.
LEMMA RestStays ==
    ASSUME HostInv, NEW t \in Tasks, Busy(t)
    PROVE  /\ \A g : Become(t, g) => Unmoved(t) /\ Rest(t) \subseteq Frames(t)'
           /\ \A f, g : Await(t, f, g) => Unmoved(t) /\ Rest(t) \subseteq Frames(t)'
           /\ Return(t) => Unmoved(t) /\ Rest(t) \subseteq Frames(t)'
<1> DEFINE r == Tail(stack[t])
<1>1. r \in Seq(Frame) /\ stack \in [Tasks -> Seq(Frame)]
  BY BusyIs DEF HostInv, Sound, TypeOK
<1>2. Rest(t) = Held(r)
  BY DEF Rest
<1>3. ASSUME NEW s, stack' = [stack EXCEPT ![t] = s], Held(r) \subseteq Held(s)
      PROVE  Unmoved(t) /\ Rest(t) \subseteq Frames(t)'
  <2>1. stack'[t] = s /\ \A u \in Tasks : u # t => stack'[u] = stack[u]
    BY <1>1, <1>3
  <2>2. Unmoved(t)
    BY <2>1 DEF Unmoved, Busy, Frames, Top, Rest
  <2> QED BY <1>2, <1>3, <2>1, <2>2 DEF Frames
<1>4. ASSUME NEW g, Become(t, g) PROVE Unmoved(t) /\ Rest(t) \subseteq Frames(t)'
  <2>1. stack' = [stack EXCEPT ![t] = <<g>> \o r]
    BY <1>4 DEF Become
  <2>2. r \in Seq(Frame \cup {g})
    BY <1>1
  <2> HIDE DEF r
  <2>3. Held(<<g>> \o r) = {g} \cup Held(r)
    BY <2>2, ConsIs
  <2> QED BY <1>3, <2>1, <2>3
<1>5. ASSUME NEW f, NEW g, Await(t, f, g) PROVE Unmoved(t) /\ Rest(t) \subseteq Frames(t)'
  <2>1. stack' = [stack EXCEPT ![t] = <<g, f>> \o r]
    BY <1>5 DEF Await
  <2> DEFINE S == Frame \cup {f, g}
  <2>2. r \in Seq(S) /\ f \in S /\ g \in S
    BY <1>1
  <2> HIDE DEF r, S
  <2>3. <<g, f>> \o r = <<g>> \o (<<f>> \o r)
    BY ONLY <2>2, PairIs
  <2>4. Held(<<f>> \o r) = {f} \cup Held(r) /\ <<f>> \o r \in Seq(S)
    BY ONLY <2>2, ConsIs
  <2>5. Held(<<g>> \o (<<f>> \o r)) = {g} \cup Held(<<f>> \o r)
    <3> DEFINE c == <<f>> \o r
    <3>1. c \in Seq(S) /\ g \in S
      BY <2>2, <2>4
    <3> HIDE DEF c
    <3>2. Held(<<g>> \o c) = {g} \cup Held(c)
      BY ONLY <3>1, ConsIs
    <3> QED BY <3>2 DEF c
  <2> QED BY <1>3, <2>1, <2>3, <2>4, <2>5
<1>6. ASSUME Return(t) PROVE Unmoved(t) /\ Rest(t) \subseteq Frames(t)'
  <2>1. stack' = [stack EXCEPT ![t] = r]
    BY <1>6 DEF Return
  <2> HIDE DEF r
  <2> QED BY <1>3, <2>1
<1> QED BY <1>4, <1>5, <1>6

\* A step after which the plan is still to be made, if it was before.
LEMMA FreshStays ==
    ASSUME HostInv, PlanFresh, NEW t \in Tasks, Unmoved(t), UNCHANGED config,
           Replans(t) /\ mode # None => Replans(t)'
    PROVE  PlanFresh'
<1>1. /\ requires' = requires /\ disabled' = disabled /\ plan' = plan /\ mode' = mode
  BY DEF config
<1>2. ASSUME Replanning, mode # None PROVE Replanning'
  <2>1. PICK u \in Tasks : Replans(u)
    BY <1>2 DEF Replanning
  <2>2. Replans(u)'
    BY <1>2, <2>1 DEF Unmoved, Replans
  <2> QED BY <2>2 DEF Replanning
<1> QED BY <1>1, <1>2 DEF PlanFresh

LEMMA RestKeepsFresh ==
    ASSUME HostInv, PlanFresh, NEW t \in Tasks, Busy(t), UNCHANGED config,
           Top(t).op \notin {"plan", "replan"},
           Unmoved(t), Rest(t) \subseteq Frames(t)'
    PROVE  PlanFresh'
<1>1. Frames(t) = {Top(t)} \cup Rest(t)
  BY BusyIs DEF HostInv, Sound
<1>2. Replans(t) => Replans(t)'
  BY <1>1 DEF Replans
<1> QED BY <1>2, FreshStays

\* A task whose frames make a plan again.
LEMMA ReplansFresh ==
    ASSUME NEW t \in Tasks, Replans(t)'
    PROVE  PlanFresh'
BY DEF PlanFresh, Replanning

LEMMA LookupFresh ==
    ASSUME HostInv, PlanFresh, NEW t \in Tasks, Lookup(t) PROVE PlanFresh'
<1>1. /\ Busy(t) /\ Top(t).op \in {"call", "health"} /\ Top(t).op \in Callees
      /\ Top(t).at = "lookup" /\ ~Over(Top(t)) /\ UNCHANGED config
  BY DEF Lookup, Turn, Callees, Over
<1>2. CASE Raise(t)
  <2>1. Unmoved(t)
    BY <1>2, AfterRaise DEF HostInv, Sound
  <2>2. CASE Top(t).op = "health"
    <3>1. \A f \in Rest(t) : f.op = "startAll"
      BY <1>1, <2>2, BusyIs DEF HostInv, Sound
    <3>2. ~Replans(t)
      BY <1>1, <3>1, BusyIs DEF HostInv, Sound, Replans
    <3> QED BY <1>1, <2>1, <3>2, FreshStays
  <2>3. CASE Top(t).op = "call"
    <3>1. \A f \in Rest(t) : f.op \in {"probe", "collect"}
      BY <1>1, <2>3, CalleeIs DEF TopOK
    <3>2. ~Replans(t)
      BY <1>1, <3>1, BusyIs DEF HostInv, Sound, Replans
    <3> QED BY <1>1, <2>1, <3>2, FreshStays
  <2> QED BY <1>1, <2>2, <2>3
<1>3. CASE ~Raise(t)
  <2>1. Unmoved(t) /\ Rest(t) \subseteq Frames(t)'
    BY <1>1, <1>3, RestStays DEF Lookup
  <2> QED BY <1>1, <2>1, RestKeepsFresh
<1> QED BY <1>2, <1>3

\* activate makes the plan; the end of disable and enable goes on to activate.
LEMMA PlanFreshly ==
    ASSUME HostInv, PlanFresh, NEW t \in Tasks, Plan(t) \/ Replan(t) PROVE PlanFresh'
<1>1. Busy(t) /\ Top(t).op \in {"plan", "replan"}
  BY DEF Plan, Replan, Turn
<1>2. CASE Plan(t)
  BY <1>2 DEF Plan, PlanFresh
<1>3. CASE Replan(t) /\ mode = None
  <2>1. UNCHANGED config /\ Return(t)
    BY <1>3 DEF Replan
  <2> QED BY <1>1, <1>3, <2>1, RestStays, FreshStays
<1>4. CASE Replan(t) /\ mode # None
  <2>1. Top(t).op = "replan" /\ Tail(stack[t]) = <<>>
    BY <1>4, BusyIs DEF Replan, Turn, HostInv, Sound
  <2>2. stack' = [stack EXCEPT ![t] = <<StopAll, Planning(mode)>> \o <<>>]
    BY <1>4, <2>1 DEF Replan
  <2>3. stack' = [stack EXCEPT ![t] = <<StopAll, Planning(mode)>>]
    <3>1. <<StopAll, Planning(mode)>> \o <<>> = <<StopAll, Planning(mode)>>
      OBVIOUS
    <3> QED BY <2>2, <3>1
  <2>4. stack \in [Tasks -> Seq(Frame)]
    BY DEF HostInv, TypeOK
  <2>5. stack'[t] = <<StopAll, Planning(mode)>>
    BY <2>3, <2>4
  <2>6. Planning(mode) \in Frames(t)'
    BY <2>5 DEF Frames, Held
  <2>7. Replans(t)'
    BY <2>6 DEF Replans, Planning, New
  <2> QED BY <2>7, ReplansFresh
<1> QED BY <1>2, <1>3, <1>4

\* The other coroutines leave those that wait below them alone.
LEMMA StepFresh ==
    ASSUME HostInv, PlanFresh, NEW t \in Tasks, Step(t) PROVE PlanFresh'
<1>1. CASE Ask(t) \/ Granted(t) \/ Answer(t) \/ Lose(t) \/ Terminated(t) \/ Halt(t)
  <2>1. Busy(t) /\ Top(t).op \in Callees /\ UNCHANGED config
    BY <1>1 DEF Ask, Granted, Answer, Lose, Terminated, Halt, Turn, Callees
  <2>2. \E g : Become(t, g)
    BY <1>1 DEF Ask, Granted, Answer, Lose, Terminated, Halt, Terminate
  <2>3. Unmoved(t) /\ Rest(t) \subseteq Frames(t)'
    BY <2>1, <2>2, RestStays
  <2> QED BY <2>1, <2>3, RestKeepsFresh DEF Callees
<1>2. CASE Reject(t) \/ Unhealthy(t) \/ Fail(t) \/ Spawn(t) \/ Ready(t)
  <2>1. Busy(t) /\ Top(t).op \in Callees /\ UNCHANGED config
    BY <1>2 DEF Reject, Unhealthy, Fail, Spawn, Ready, Turn, Callees
  <2>2. \E g : Become(t, g)
    BY <1>2 DEF Reject, Unhealthy, Fail, Spawn, Ready, Terminate
  <2>3. Unmoved(t) /\ Rest(t) \subseteq Frames(t)'
    BY <2>1, <2>2, RestStays
  <2> QED BY <2>1, <2>3, RestKeepsFresh DEF Callees
<1>3. CASE Accept(t) \/ Failed(t)
  <2>1. Busy(t) /\ Top(t).op \in Callees /\ UNCHANGED config
    BY <1>3 DEF Accept, Failed, Turn, Callees
  <2>2. Return(t) \/ \E g : Become(t, g)
    BY <1>3 DEF Accept, Failed
  <2>3. Unmoved(t) /\ Rest(t) \subseteq Frames(t)'
    BY <2>1, <2>2, RestStays
  <2> QED BY <2>1, <2>3, RestKeepsFresh DEF Callees
<1>4. CASE QuarantineNext(t) \/ StopNext(t) \/ StartNext(t) \/ ServeNext(t)
  <2>1. /\ Busy(t) /\ Top(t).op \in {"dependents", "stop", "startAll", "probe", "collect"}
        /\ UNCHANGED config
    BY <1>4 DEF QuarantineNext, StopNext, StartNext, ServeNext, Turn
  <2>2. Return(t) \/ (\E g : Become(t, g)) \/ (\E f, g : Await(t, f, g))
    BY <1>4 DEF QuarantineNext, StopNext, StartNext, ServeNext
  <2>3. Unmoved(t) /\ Rest(t) \subseteq Frames(t)'
    BY <2>1, <2>2, RestStays
  <2> QED BY <2>1, <2>3, RestKeepsFresh
<1> QED BY <1>1, <1>2, <1>3, <1>4, LookupFresh, PlanFreshly DEF Step

\* What managers and callers begin: nothing was on the stack of the task.
LEMMA BeginsFresh ==
    ASSUME HostInv, PlanFresh, NEW t \in Tasks, ~Busy(t), UNCHANGED config,
           NEW s, Begin(t, s)
    PROVE  PlanFresh'
<1>1. stack \in [Tasks -> Seq(Frame)] /\ stack' = [stack EXCEPT ![t] = s]
  BY DEF HostInv, TypeOK, Begin
<1>2. \A u \in Tasks : u # t => stack'[u] = stack[u]
  BY <1>1
<1>3. Unmoved(t)
  BY <1>2 DEF Unmoved, Busy, Frames, Top, Rest
<1>4. ~Replans(t)
  BY IdleIs DEF HostInv, Replans
<1> QED BY <1>3, <1>4, FreshStays

LEMMA ConfigFresh ==
    ASSUME HostInv, NEW t \in Tasks, NEW m \in Modules, Disable(t, m) \/ Enable(t, m)
    PROVE  PlanFresh'
<1> DEFINE f == New("replan", None, 0, "loop", <<>>)
<1>1. f.op = "replan"
  BY DEF New
<1> HIDE DEF f
<1>2. PICK h : /\ h = <<>> \/ h = <<Halting(m)>>
               /\ stack' = [stack EXCEPT ![t] = h \o <<f>>]
  <2>1. CASE Disable(t, m) /\ table[m] # 0
    BY <2>1 DEF Disable, Begin, f
  <2>2. CASE Disable(t, m) /\ table[m] = 0
    BY <2>2 DEF Disable, Begin, f
  <2>3. CASE Enable(t, m)
    <3>1. <<>> \o <<f>> = <<f>>
      OBVIOUS
    <3> QED BY <2>3, <3>1 DEF Enable, Begin, f
  <2> QED BY <2>1, <2>2, <2>3
<1>3. stack \in [Tasks -> Seq(Frame)]
  BY DEF HostInv, TypeOK
<1>4. stack'[t] = h \o <<f>>
  BY <1>2, <1>3
<1>5. f \in Held(h \o <<f>>)
  <2>1. \E i \in DOMAIN (h \o <<f>>) : (h \o <<f>>)[i] = f
    <3>1. CASE h = <<>>
      <4>1. h \o <<f>> = <<f>>
        BY <3>1
      <4> QED BY <4>1
    <3>2. CASE h = <<Halting(m)>>
      <4>1. \A x : 2 \in DOMAIN (<<x>> \o <<f>>) /\ (<<x>> \o <<f>>)[2] = f
        OBVIOUS
      <4> QED BY <3>2, <4>1
    <3> QED BY <1>2, <3>1, <3>2
  <2> QED BY <2>1 DEF Held
<1>6. Replans(t)'
  BY <1>1, <1>4, <1>5 DEF Replans, Frames
<1> QED BY <1>6, ReplansFresh

LEMMA NextFresh ==
    ASSUME Overlap = FALSE, HostInv, PlanFresh, [Next]_vars PROVE PlanFresh'
<1>1. ASSUME NEW p \in Processes, Crash(p) \/ Exit(p) PROVE PlanFresh'
  <2>1. UNCHANGED <<config, stack>>
    BY <1>1 DEF Crash, Exit
  <2> QED BY <2>1 DEF PlanFresh, Replanning, Replans, Frames, config
<1>2. ASSUME NEW t \in Tasks, NEW md \in Modes, Activate(t, md) PROVE PlanFresh'
  <2>1. ~Busy(t) /\ UNCHANGED config /\ \E s : Begin(t, s)
    BY <1>2, MayManageIs DEF Activate
  <2> QED BY <2>1, BeginsFresh
<1>3. ASSUME NEW t \in Tasks, Stop(t) PROVE PlanFresh'
  <2>1. ~Busy(t) /\ UNCHANGED config /\ \E s : Begin(t, s)
    BY <1>3, MayManageIs DEF Stop
  <2> QED BY <2>1, BeginsFresh
<1>4. ASSUME NEW t \in Tasks, NEW port \in Ports, CollectHealth(t) \/ Collect(t, port)
      PROVE  PlanFresh'
  <2>1. ~Busy(t) /\ UNCHANGED config /\ \E s : Begin(t, s)
    BY <1>4 DEF CollectHealth, Collect, MayCall
  <2> QED BY <2>1, BeginsFresh
<1>5. ASSUME NEW t \in Tasks, CollectHealth(t) PROVE PlanFresh'
  <2>1. ~Busy(t) /\ UNCHANGED config /\ \E s : Begin(t, s)
    BY <1>5 DEF CollectHealth, MayCall
  <2> QED BY <2>1, BeginsFresh
<1>6. ASSUME UNCHANGED vars PROVE PlanFresh'
  BY <1>6 DEF vars, config, PlanFresh, Replanning, Replans, Frames
<1> QED BY <1>1, <1>2, <1>3, <1>4, <1>5, <1>6, StepFresh, ConfigFresh DEF Next

\* Whenever no manager is at work, the modules in the plan are the largest set that
\* can run for the modes, graph and modules of that moment, and each comes after what
\* it requires: disable, enable and activate never leave an outdated plan behind.
THEOREM PlanStaysLargest == ASSUME Overlap = FALSE PROVE Spec => []PlanIsLargest
<1>1. Init => PlanFresh
  BY DEF Init, PlanFresh
<1>2. HostInv /\ PlanFresh /\ [Next]_vars => PlanFresh'
  BY NextFresh
<1>3. HostInv /\ PlanFresh => PlanIsLargest
  <2> SUFFICES ASSUME HostInv, PlanFresh, Idle(Managers), mode # None
               PROVE  /\ {plan[i] : i \in DOMAIN plan}
                            = LargestRunnable(requires, Modules \ disabled, mode)
                      /\ DependenciesFirst(requires, plan)
    BY DEF PlanIsLargest
  <2>1. ~Replanning
    <3> SUFFICES ASSUME NEW t \in Tasks, Replans(t) PROVE FALSE
      BY DEF Replanning
    <3>1. t \in Managers
      <4>1. Managing(t)
        BY DEF Replans, Managing, ManageOps
      <4> QED BY <4>1 DEF HostInv, Sound, Alone
    <3> QED BY <3>1, IdleIs DEF HostInv, Idle, Replans
  <2>2. plan = ActivationOrder(requires, Modules \ disabled, mode)
    BY <2>1 DEF PlanFresh
  <2>3. /\ requires \in [Modules -> SUBSET Modules] /\ mode \in Modes
        /\ Modules \ disabled \in SUBSET Modules
    BY GraphsOfModules DEF HostInv, TypeOK
  <2>4. PICK enabled \in SUBSET Modules : enabled = Modules \ disabled
    BY <2>3
  <2> DEFINE order == ActivationOrder(requires, enabled, mode)
  <2>5. /\ Held(order) = LargestRunnable(requires, enabled, mode)
        /\ DependenciesFirst(requires, order)
    BY <2>3, PlannerIsRight
  <2>6. plan = order
    BY <2>2, <2>4
  <2> HIDE DEF order
  <2>7. Held(plan) = LargestRunnable(requires, enabled, mode)
    BY <2>5, <2>6
  <2> QED BY <2>4, <2>5, <2>6, <2>7 DEF Held
<1> QED BY <1>1, <1>2, <1>3, HostInvariant, PTL DEF Spec

=============================================================================
