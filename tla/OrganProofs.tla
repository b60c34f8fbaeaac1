---------------------------- MODULE OrganProofs -----------------------------
(***************************************************************************)
(* Proofs about the organs.  Focus and volition, for any turns that give   *)
(* commands at once, any numbers of records and any deaths of the process: *)
(* one focus in the foreground, a whole timeline, a register left only by  *)
(* closing, counted reviews, and what no command does to the focuses.      *)
(* Affect and mode, for any inputs, settings and number of turns: what a   *)
(* turn is shown fades, ends with its cause, and leaves no block out.      *)
(***************************************************************************)
EXTENDS FocusVolition, ContextAffect, FiniteSetTheorems, WellFoundedInduction, TLAPS

-----------------------------------------------------------------------------
(* The order of recency *)

Falling(s) == \A i, j \in DOMAIN s : i < j => s[i] > s[j]

LEMMA LeastExists ==
    ASSUME NEW S \in SUBSET Nat, S # {}
    PROVE  \E x \in S : \A y \in S : x <= y
<1>1. PICK x \in S : \A y \in S : ~(<<y, x>> \in OpToRel(<, Nat))
  BY WFMin, NatLessThanWellFounded
<1>2. \A y \in S : ~(y < x)
  BY <1>1 DEF OpToRel
<1> QED BY <1>2

LEMMA PlacesFinite ==
    ASSUME NEW m \in Nat, NEW S \in SUBSET (1..m)
    PROVE  IsFiniteSet(S) /\ Cardinality(S) \in Nat /\ S \subseteq Nat
<1>1. IsFiniteSet(1..m)
  BY FS_Interval
<1>2. IsFiniteSet(S)
  BY <1>1, FS_Subset
<1> QED BY <1>2, FS_CardinalityType

\* Places of a sequence can be put in falling order.
LEMMA FallingExists ==
    ASSUME NEW m \in Nat
    PROVE  \A S \in SUBSET (1..m) : \E s \in SetToSeqs(S) : Falling(s)
<1> DEFINE Bad == {Cardinality(S) : S \in {R \in SUBSET (1..m) :
                                            ~\E s \in SetToSeqs(R) : Falling(s)}}
<1>1. SUFFICES ASSUME Bad # {} PROVE FALSE
  OBVIOUS
<1>2. \A S \in SUBSET (1..m) : IsFiniteSet(S) /\ Cardinality(S) \in Nat /\ S \subseteq Nat
  BY PlacesFinite
<1>3. Bad \in SUBSET Nat
  BY <1>2
<1>4. PICK n \in Bad : \A k \in Bad : n <= k
  BY <1>1, <1>3, LeastExists
<1>5. n \in Nat
  BY <1>3
<1>6. PICK S \in SUBSET (1..m) : n = Cardinality(S) /\ ~\E s \in SetToSeqs(S) : Falling(s)
  OBVIOUS
<1>7. CASE S = {}
  <2>1. n = 0
    BY <1>6, <1>7, FS_EmptySet
  <2>2. <<>> \in SetToSeqs(S) /\ Falling(<<>>)
    BY <1>6, <1>7, <2>1 DEF SetToSeqs, Falling
  <2> QED BY <1>6, <2>2
<1>8. CASE S # {}
  <2>1. PICK g \in S : \A y \in S : g <= y
    BY <1>8, LeastExists
  <2> DEFINE R == S \ {g}
  <2>2. Cardinality(R) = n - 1 /\ n - 1 \in Nat
    <3>1. Cardinality(R) = n - 1
      BY <1>2, <1>6, FS_RemoveElement
    <3>2. Cardinality(R) \in Nat
      BY <1>2
    <3> QED BY <3>1, <3>2
  <2>3. \E s \in SetToSeqs(R) : Falling(s)
    <3>1. Cardinality(R) \notin Bad
      BY <1>4, <1>5, <2>2
    <3> QED BY <3>1
  <2>4. PICK s \in SetToSeqs(R) : Falling(s)
    BY <2>3
  <2>5. s \in [1..(n - 1) -> R] /\ \A i, j \in 1..(n - 1) : i < j => s[i] > s[j]
    BY <2>2, <2>4 DEF SetToSeqs, Falling
  <2> DEFINE t == [i \in 1..n |-> IF i = n THEN g ELSE s[i]]
  <2>6. \A i \in 1..n : i = n \/ i \in 1..(n - 1)
    BY <1>5
  <2>7. t \in [1..n -> S]
    BY <2>5, <2>6
  <2>8. ASSUME NEW i \in 1..n, NEW j \in 1..n, i < j PROVE t[i] > t[j]
    <3>1. i \in 1..(n - 1) /\ t[i] = s[i] /\ s[i] \in R
      BY <1>5, <2>5, <2>8
    <3>2. CASE j = n
      <4>1. t[j] = g /\ g <= s[i] /\ s[i] # g /\ s[i] \in Nat /\ g \in Nat
        BY <1>2, <2>1, <3>1, <3>2
      <4> QED BY <3>1, <4>1
    <3>3. CASE j # n
      BY <2>5, <2>6, <2>8, <3>1, <3>3
    <3> QED BY <3>2, <3>3
  <2>9. \A i, j \in 1..n : i # j => t[i] # t[j]
    <3> SUFFICES ASSUME NEW i \in 1..n, NEW j \in 1..n, i # j PROVE t[i] # t[j]
      OBVIOUS
    <3>1. i < j \/ j < i
      BY <1>5
    <3>2. t[i] \in Nat /\ t[j] \in Nat
      BY <1>2, <2>7
    <3>3. t[i] > t[j] \/ t[j] > t[i]
      BY <2>8, <3>1
    <3> HIDE DEF t
    <3> QED BY <3>2, <3>3
  <2>10. t \in SetToSeqs(S) /\ Falling(t)
    <3>1. DOMAIN t = 1..n
      BY <2>7
    <3> HIDE DEF t
    <3> QED BY <1>6, <2>7, <2>8, <2>9, <3>1 DEF SetToSeqs, Falling
  <2> QED BY <1>6, <2>10
<1> QED BY <1>7, <1>8

\* LatestFirst lists every place it is given, and no other.
LEMMA LatestFirstIs ==
    ASSUME NEW m \in Nat, NEW S \in SUBSET (1..m)
    PROVE  /\ LatestFirst(S) \in Seq(S)
           /\ \A x \in S : \E i \in 1..Len(LatestFirst(S)) : LatestFirst(S)[i] = x
<1> DEFINE n == Cardinality(S)
<1>0. PICK s : s = LatestFirst(S)
  OBVIOUS
<1>1. s \in SetToSeqs(S)
  BY <1>0, FallingExists DEF LatestFirst, Falling
<1>2. IsFiniteSet(S) /\ n \in Nat
  BY PlacesFinite
<1>3. s \in [1..n -> S] /\ \A i, j \in 1..n : i # j => s[i] # s[j]
  BY <1>1 DEF SetToSeqs
<1>4. s \in Surjection(1..n, S)
  <2>1. s \in Injection(1..n, S)
    BY <1>3 DEF Injection, IsInjective
  <2>2. IsFiniteSet(1..n) /\ Cardinality(1..n) = n
    BY <1>2, FS_Interval
  <2> QED BY <1>2, <2>1, <2>2, FS_Injection
<1>5. \A x \in S : \E i \in 1..n : s[i] = x
  BY <1>4 DEF Surjection
<1>6. s \in Seq(S) /\ Len(s) = n
  BY <1>2, <1>3
<1> QED BY <1>0, <1>5, <1>6

LEMMA ConcatIs ==
    ASSUME NEW M, NEW s \in Seq(M), NEW t \in Seq(M)
    PROVE  /\ s \o t \in Seq(M) /\ Len(s \o t) = Len(s) + Len(t)
           /\ Len(s) \in Nat /\ Len(t) \in Nat
           /\ \A i \in 1..Len(s) : (s \o t)[i] = s[i]
           /\ \A i \in 1..Len(t) : (s \o t)[Len(s) + i] = t[i]
           /\ \A i \in (Len(s) + 1)..(Len(s) + Len(t)) : (s \o t)[i] = t[i - Len(s)]
OBVIOUS

LEMMA RemoveAtIs ==
    ASSUME NEW M, NEW s \in Seq(M), NEW i \in 1..Len(s)
    PROVE  /\ RemoveAt(s, i) \in Seq(M) /\ Len(RemoveAt(s, i)) = Len(s) - 1
           /\ \A j \in 1..(Len(s) - 1) : RemoveAt(s, i)[j] = s[IF j < i THEN j ELSE j + 1]
<1> DEFINE a == SubSeq(s, 1, i - 1)
           b == SubSeq(s, i + 1, Len(s))
<1>1. Len(s) \in Nat /\ i \in Nat /\ i >= 1 /\ i <= Len(s)
  OBVIOUS
<1>2. a \in Seq(M) /\ Len(a) = i - 1 /\ \A j \in 1..(i - 1) : a[j] = s[j]
  BY <1>1
<1>3. b \in Seq(M) /\ Len(b) = Len(s) - i /\ \A j \in 1..(Len(s) - i) : b[j] = s[i + j]
  BY <1>1
<1>4. RemoveAt(s, i) = a \o b
  BY DEF RemoveAt
<1> HIDE DEF a, b
<1>5. a \o b \in Seq(M) /\ Len(a \o b) = Len(s) - 1
  <2>1. a \o b \in Seq(M) /\ Len(a \o b) = Len(a) + Len(b)
    BY <1>2, <1>3, ConcatIs
  <2>2. (i - 1) + (Len(s) - i) = Len(s) - 1
    BY <1>1
  <2> QED BY <1>2, <1>3, <2>1, <2>2
<1>6. ASSUME NEW j \in 1..(Len(s) - 1), j < i PROVE (a \o b)[j] = s[j]
  BY <1>1, <1>2, <1>3, <1>6, ConcatIs
<1>7. ASSUME NEW j \in 1..(Len(s) - 1), ~(j < i) PROVE (a \o b)[j] = s[j + 1]
  <2>1. j \in (Len(a) + 1)..(Len(a) + Len(b)) /\ j - Len(a) \in 1..(Len(s) - i)
    BY <1>1, <1>2, <1>3, <1>7
  <2>2. (a \o b)[j] = b[j - Len(a)]
    BY <2>1, <1>2, <1>3, ConcatIs
  <2> QED BY <2>1, <2>2, <1>1, <1>2, <1>3
<1> QED BY <1>4, <1>5, <1>6, <1>7

-----------------------------------------------------------------------------
(* Focus records *)

FocusRow ==
    [status : Foreground \cup {"superseded", "deferred", "resolved", "impossible"},
     closed : BOOLEAN]

\* The order of recency has one place for every focus.
Orders(s, n) ==
    /\ s \in Seq(1..n) /\ Len(s) = n
    /\ \A i, j \in 1..n : s[i] = s[j] => i = j
    /\ \A f \in 1..n : \E i \in 1..n : s[i] = f

\* A focus out of the foreground is closed.
FociRows ==
    /\ foci \in Seq(FocusRow) /\ Orders(recency, Len(foci))
    /\ \A f \in FocusIds : foci[f].closed \/ foci[f].status \in Foreground

LEMMA TouchedOrders ==
    ASSUME NEW n \in Nat, Orders(recency, n), NEW f \in 1..n
    PROVE  Orders(Touched(f), n)
<1>1. /\ recency \in Seq(1..n) /\ Len(recency) = n /\ DOMAIN recency = 1..n
      /\ \A i, j \in 1..n : recency[i] = recency[j] => i = j
      /\ \A g \in 1..n : \E i \in 1..n : recency[i] = g
  BY DEF Orders
<1>2. PICK p : p = CHOOSE i \in DOMAIN recency : recency[i] = f
  OBVIOUS
<1>3. p \in 1..n /\ recency[p] = f
  BY <1>1, <1>2
<1>4. PICK r : r = RemoveAt(recency, p)
  OBVIOUS
<1>5. /\ r \in Seq(1..n) /\ Len(r) = n - 1
      /\ \A j \in 1..(n - 1) : r[j] = recency[IF j < p THEN j ELSE j + 1]
  <2>1. p \in 1..Len(recency) /\ recency \in Seq(1..n)
    BY <1>1, <1>3
  <2>2. /\ RemoveAt(recency, p) \in Seq(1..n)
        /\ Len(RemoveAt(recency, p)) = Len(recency) - 1
        /\ \A j \in 1..(Len(recency) - 1) :
              RemoveAt(recency, p)[j] = recency[IF j < p THEN j ELSE j + 1]
    BY <2>1, RemoveAtIs
  <2> QED BY <1>1, <1>4, <2>2
<1>6. PICK t : t = Touched(f)
  OBVIOUS
<1>7. t = Append(r, f)
  BY <1>2, <1>4, <1>6 DEF Touched
<1>8. /\ t \in Seq(1..n) /\ Len(t) = n /\ t[n] = f
      /\ \A j \in 1..(n - 1) : t[j] = r[j]
  BY <1>5, <1>7
<1>9. PICK at : at = [j \in 1..n |-> IF j = n THEN p ELSE IF j < p THEN j ELSE j + 1]
  OBVIOUS
<1>10. /\ \A j \in 1..n : at[j] \in 1..n
       /\ \A j \in 1..n : t[j] = recency[at[j]]
       /\ \A i, j \in 1..n : at[i] = at[j] => i = j
  <2>1. \A j \in 1..n : at[j] = IF j = n THEN p ELSE IF j < p THEN j ELSE j + 1
    BY <1>9
  <2>2. \A j \in 1..n : at[j] \in 1..n
    BY <1>3, <2>1
  <2>3. ASSUME NEW j \in 1..n PROVE t[j] = recency[at[j]]
    <3>1. CASE j = n
      BY <1>3, <1>8, <2>1, <3>1
    <3>2. CASE j # n
      <4>1. j \in 1..(n - 1) /\ at[j] = IF j < p THEN j ELSE j + 1
        BY <2>1, <3>2
      <4> QED BY <1>5, <1>8, <4>1
    <3> QED BY <3>1, <3>2
  <2>4. ASSUME NEW i \in 1..n, NEW j \in 1..n, at[i] = at[j] PROVE i = j
    BY <1>3, <2>1, <2>4
  <2> QED BY <2>2, <2>3, <2>4
<1>11. ASSUME NEW i \in 1..n, NEW j \in 1..n, t[i] = t[j] PROVE i = j
  <2>1. /\ at[i] \in 1..n /\ at[j] \in 1..n /\ recency[at[i]] = recency[at[j]]
    BY <1>10, <1>11
  <2>2. \A k, l \in 1..n : recency[k] = recency[l] => k = l
    BY <1>1
  <2>3. at[i] = at[j]
    BY <2>1, <2>2
  <2> QED BY <1>10, <2>3
<1>12. ASSUME NEW g \in 1..n PROVE \E j \in 1..n : t[j] = g
  <2>1. PICK i \in 1..n : recency[i] = g
    BY <1>1
  <2>2. PICK j : j = IF i = p THEN n ELSE IF i < p THEN i ELSE i - 1
    OBVIOUS
  <2>3. j \in 1..n /\ at[j] = i
    BY <1>3, <1>9, <2>2
  <2> QED BY <1>10, <2>1, <2>3
<1> QED BY <1>6, <1>8, <1>11, <1>12 DEF Orders

LEMMA AppendOrders ==
    ASSUME NEW n \in Nat, Orders(recency, n)
    PROVE  Orders(Append(recency, n + 1), n + 1)
<1>1. /\ recency \in Seq(1..n) /\ Len(recency) = n
      /\ \A i, j \in 1..n : recency[i] = recency[j] => i = j
      /\ \A g \in 1..n : \E i \in 1..n : recency[i] = g
  BY DEF Orders
<1>2. PICK t : t = Append(recency, n + 1)
  OBVIOUS
<1>3. /\ t \in Seq(1..(n + 1)) /\ Len(t) = n + 1 /\ t[n + 1] = n + 1
      /\ \A j \in 1..n : t[j] = recency[j] /\ t[j] \in 1..n
  <2>1. recency \in Seq(1..(n + 1)) /\ n + 1 \in 1..(n + 1)
    BY <1>1
  <2>2. \A j \in 1..n : recency[j] \in 1..n
    BY <1>1
  <2> QED BY <1>1, <1>2, <2>1, <2>2
<1>4. \A j \in 1..(n + 1) : j = n + 1 \/ j \in 1..n
  OBVIOUS
<1>5. ASSUME NEW i \in 1..(n + 1), NEW j \in 1..(n + 1), t[i] = t[j] PROVE i = j
  <2>1. n + 1 \notin 1..n
    OBVIOUS
  <2>2. CASE i \in 1..n /\ j \in 1..n
    BY <1>1, <1>3, <1>5, <2>2
  <2> QED BY <1>3, <1>4, <1>5, <2>1, <2>2
<1>6. ASSUME NEW g \in 1..(n + 1) PROVE \E i \in 1..(n + 1) : t[i] = g
  <2>0. /\ t[n + 1] = n + 1 /\ n + 1 \in 1..(n + 1) /\ \A j \in 1..n : t[j] = recency[j]
        /\ \A j \in 1..n : j \in 1..(n + 1)
    BY <1>3
  <2>1. CASE g = n + 1
    BY ONLY <2>0, <2>1
  <2>2. CASE g \in 1..n
    <3>1. PICK i \in 1..n : recency[i] = g
      BY <1>1, <2>2
    <3> QED BY ONLY <2>0, <3>1
  <2> QED BY <1>4, <2>1, <2>2
<1>7. Orders(t, n + 1)
  BY ONLY <1>3, <1>5, <1>6 DEF Orders
<1> QED BY <1>2, <1>7

\* list_active_focus_records returns the whole foreground, and get_active_focus one
\* of it.
LEMMA ActiveIs ==
    ASSUME FociRows
    PROVE  /\ ActiveFocuses \in Seq(FocusIds) /\ ToSet(ActiveFocuses) = InForeground
           /\ ActiveFocus \in 0..Len(foci)
           /\ ActiveFocus # None => ActiveFocus \in ToSet(ActiveFocuses)
<1> DEFINE n == Len(foci)
<1>1. /\ recency \in Seq(1..n) /\ Len(recency) = n /\ DOMAIN recency = 1..n /\ n \in Nat
      /\ \A g \in 1..n : \E i \in 1..n : recency[i] = g
  BY DEF FociRows, Orders
<1>2. PICK P : P = {i \in DOMAIN recency : foci[recency[i]].status \in Foreground}
  OBVIOUS
<1>3. P \in SUBSET (1..n)
  BY <1>1, <1>2
<1>4. PICK o : o = LatestFirst(P)
  OBVIOUS
<1>5. o \in Seq(P) /\ \A x \in P : \E i \in 1..Len(o) : o[i] = x
  BY <1>1, <1>3, <1>4, LatestFirstIs
<1>6. PICK a : a = ActiveFocuses
  OBVIOUS
<1>7. a = [k \in DOMAIN o |-> recency[o[k]]]
  BY <1>2, <1>4, <1>6 DEF ActiveFocuses
<1>8. /\ DOMAIN o = 1..Len(o) /\ Len(o) \in Nat /\ \A k \in 1..Len(o) : o[k] \in P
  BY <1>5
<1>9. a \in Seq(FocusIds) /\ Len(a) = Len(o) /\ \A k \in 1..Len(o) : a[k] = recency[o[k]]
  <2>0. ASSUME NEW i \in 1..n PROVE recency[i] \in 1..n
    <3>1. recency \in Seq(1..n) /\ i \in 1..Len(recency) /\ n \in Nat
      BY <1>1
    <3> HIDE DEF n
    <3> QED BY <3>1
  <2>1. \A k \in 1..Len(o) : recency[o[k]] \in 1..n
    BY <1>3, <1>8, <2>0
  <2>2. a \in [1..Len(o) -> FocusIds]
    BY <1>7, <1>8, <2>1 DEF FocusIds
  <2> QED BY <1>7, <1>8, <2>2
<1>10. ToSet(a) = InForeground
  <2>1. \A f \in InForeground : \E k \in 1..Len(o) : a[k] = f
    <3> SUFFICES ASSUME NEW f \in InForeground PROVE \E k \in 1..Len(o) : a[k] = f
      OBVIOUS
    <3>1. f \in 1..n /\ foci[f].status \in Foreground
      BY DEF InForeground, FocusIds
    <3>2. PICK i \in 1..n : recency[i] = f
      BY <1>1, <3>1
    <3>3. i \in P
      BY <1>1, <1>2, <3>1, <3>2
    <3>4. PICK k \in 1..Len(o) : o[k] = i
      BY <1>5, <3>3
    <3> QED BY <1>9, <3>2, <3>4
  <2>2. \A k \in 1..Len(o) : a[k] \in InForeground
    BY <1>2, <1>8, <1>9 DEF InForeground
  <2>3. DOMAIN a = 1..Len(o)
    BY <1>9
  <2> QED BY <2>1, <2>2, <2>3 DEF ToSet
<1>11. ActiveFocus \in 0..n /\ (ActiveFocus # None => ActiveFocus \in ToSet(a))
  <2>1. CASE a = <<>>
    BY <1>1, <1>6, <2>1 DEF ActiveFocus, None
  <2>2. CASE a # <<>>
    <3>1. ActiveFocus = a[1] /\ 1 \in DOMAIN a /\ a[1] \in FocusIds
      BY <1>6, <1>9, <2>2 DEF ActiveFocus
    <3>2. ActiveFocus \in 0..n
      BY <1>1, <3>1 DEF FocusIds
    <3>3. ActiveFocus \in ToSet(a)
      BY <3>1 DEF ToSet
    <3> QED BY <3>2, <3>3
  <2> QED BY <2>1, <2>2
<1> QED BY <1>6, <1>9, <1>10, <1>11

-----------------------------------------------------------------------------
(* Commands *)

Stages == {"idle", "close_old", "start_edge", "keep", "close", "edge", "create", "intention",
           "link"}
Deeds == {"none", "set", "shift", "update", "hold", "defer", "resolve", "impossible",
          "create", "review", "mark_impossible", "deprecate"}
Statuses == {"none", "active", "held", "superseded", "deferred", "resolved", "impossible",
             "in_review", "deprecated"}
Command ==
    [at : Stages, do : Deeds, target : Nat, read : Statuses, seen : Nat,
     left : Seq(Nat \cup Statuses), alone : BOOLEAN]

CommandTypes == command \in [Turns -> Command] /\ given \in 0..MaxOps /\ deaths \in Nat

\* A command that no other one met is the only one.
Alone(t) ==
    command[t].at # "idle" /\ command[t].alone => \A u \in Turns \ {t} : command[u].at = "idle"

CommandsOK == CommandTypes /\ \A t \in Turns : Alone(t)

\* What a step of another turn leaves of a command.
Same(u) ==
    /\ command'[u].at = command[u].at /\ command'[u].do = command[u].do
    /\ command'[u].target = command[u].target /\ command'[u].read = command[u].read
    /\ command'[u].seen = command[u].seen /\ command'[u].left = command[u].left
    /\ command[u].at # "idle" /\ command'[u].alone => command[u].alone

\* Turn t goes on with c; a step begins a command or goes on with one.
Moves(t, c) ==
    /\ command' \in [Turns -> Command] /\ c \in Command
    /\ command'[t] = c
    /\ \A u \in Turns \ {t} : Same(u)
    /\ command[t].at # "idle" =>
         /\ c.at # "idle" => c.alone = command[t].alone
         /\ \A u \in Turns \ {t} : command'[u] = command[u]
    /\ command[t].at = "idle" =>
         \A u \in Turns \ {t} : command[u].at # "idle" => ~command'[u].alone /\ ~c.alone

LEMMA MovedOn ==
    ASSUME CommandsOK, NEW t \in Turns, NEW c \in Command, command[t].at # "idle",
           command' = [command EXCEPT ![t] = c],
           c.at = "idle" \/ c.alone = command[t].alone
    PROVE  Moves(t, c)
<1>1. command \in [Turns -> Command]
  BY DEF CommandsOK, CommandTypes
<1>2. command' \in [Turns -> Command] /\ command'[t] = c
      /\ \A u \in Turns \ {t} : command'[u] = command[u]
  BY <1>1
<1>3. \A u \in Turns \ {t} : Same(u)
  BY <1>2 DEF Same
<1> QED BY <1>2, <1>3 DEF Moves

LEMMA AloneKept ==
    ASSUME CommandsOK, NEW t \in Turns, NEW c, Moves(t, c)
    PROVE  \A u \in Turns : Alone(u)'
<1> SUFFICES ASSUME NEW u \in Turns, command'[u].at # "idle", command'[u].alone,
                    NEW v \in Turns \ {u}
             PROVE  command'[v].at = "idle"
  BY DEF Alone
<1>1. CASE u = t
  <2>1. command'[u] = c /\ Same(v)
    BY <1>1 DEF Moves
  <2>2. CASE command[t].at = "idle"
    BY <1>1, <2>1, <2>2 DEF Moves, Same
  <2>3. CASE command[t].at # "idle"
    BY <1>1, <2>1, <2>3 DEF Moves, Same, CommandsOK, Alone
  <2> QED BY <2>2, <2>3
<1>2. CASE u # t
  <2>1. /\ command[u].at # "idle" /\ command[u].alone
    BY <1>2 DEF Moves, Same
  <2>2. \A w \in Turns \ {u} : command[w].at = "idle"
    BY <2>1 DEF CommandsOK, Alone
  <2>3. command[t].at = "idle"
    BY <1>2, <2>2
  <2>4. ~command'[u].alone
    BY <1>2, <2>1, <2>3 DEF Moves
  <2> QED BY <2>4
<1> QED BY <1>1, <1>2

\* The rest of what a command needs its numbers for.
LEMMA CommandsMove ==
    ASSUME CommandsOK, NEW t \in Turns, NEW c, Moves(t, c), deaths' = deaths,
           given' = given \/ (given < MaxOps /\ given' = given + 1)
    PROVE  CommandsOK'
<1>1. \A u \in Turns : Alone(u)'
  BY AloneKept
<1>2. command' \in [Turns -> Command]
  BY DEF Moves
<1>3. given' \in 0..MaxOps /\ deaths' \in Nat
  BY FocusBounds DEF CommandsOK, CommandTypes
<1> QED BY <1>1, <1>2, <1>3 DEF CommandsOK, CommandTypes

LEMMA TakenUp ==
    ASSUME CommandsOK, NEW t \in Turns, NEW cmd \in Command, Take(t, cmd), cmd.at # "idle"
    PROVE  /\ command[t].at = "idle" /\ given < MaxOps /\ given' = given + 1
           /\ \E c : /\ Moves(t, c)
                     /\ c.at = cmd.at /\ c.do = cmd.do /\ c.target = cmd.target
                     /\ c.read = cmd.read /\ c.seen = cmd.seen /\ c.left = cmd.left
                     /\ c.alone => \A u \in Turns : command[u].at = "idle"
<1>1. command \in [Turns -> Command]
  BY DEF CommandsOK, CommandTypes
<1>2. PICK c : c = [cmd EXCEPT !.alone = (Busy = {})]
  OBVIOUS
<1>3. /\ c \in Command /\ c.at = cmd.at /\ c.do = cmd.do /\ c.target = cmd.target
      /\ c.read = cmd.read /\ c.seen = cmd.seen /\ c.left = cmd.left
      /\ c.alone <=> Busy = {}
  BY <1>2 DEF Command
<1>4. /\ command[t].at = "idle" /\ given < MaxOps /\ given' = given + 1
      /\ command' = [u \in Turns |-> IF u = t THEN c
                                     ELSE [command[u] EXCEPT !.alone = command[u].at = "idle"]]
  BY <1>2 DEF Take
<1>5. command'[t] = c
  BY <1>4
<1>6. ASSUME NEW u \in Turns \ {t}
      PROVE  /\ Same(u) /\ command'[u] \in Command
             /\ command[u].at # "idle" => ~command'[u].alone
  <2>1. command'[u] = [command[u] EXCEPT !.alone = command[u].at = "idle"]
    BY <1>4
  <2>2. command[u] \in Command
    BY <1>1
  <2>3. /\ command'[u] \in Command /\ command'[u].at = command[u].at
        /\ command'[u].do = command[u].do
        /\ command'[u].target = command[u].target /\ command'[u].read = command[u].read
        /\ command'[u].seen = command[u].seen /\ command'[u].left = command[u].left
    BY <2>1, <2>2 DEF Command
  <2>4. command'[u].alone <=> command[u].at = "idle"
    BY <2>1, <2>2 DEF Command
  <2> QED BY <2>3, <2>4 DEF Same
<1>7. \A u \in Turns : command[u].at # "idle" => ~c.alone
  BY <1>3 DEF Busy
<1>8. command' \in [Turns -> Command]
  <2>1. \A u \in Turns : command'[u] \in Command
    BY <1>3, <1>5, <1>6
  <2>2. DOMAIN command' = Turns /\ command' = [u \in Turns |-> command'[u]]
    BY <1>4
  <2> QED BY <2>1, <2>2
<1>9. Moves(t, c)
  BY <1>3, <1>4, <1>5, <1>6, <1>7, <1>8 DEF Moves
<1> QED BY <1>3, <1>4, <1>7, <1>9

\* A command that goes on without a change but of its stage.
LEMMA WentOn ==
    ASSUME CommandsOK, NEW t \in Turns, NEW stage \in Stages, Goto(t, stage),
           command[t].at # "idle"
    PROVE  \E c : /\ Moves(t, c) /\ c.at = stage /\ c.do = command[t].do
                  /\ c.target = command[t].target /\ c.left = command[t].left
                  /\ c.seen = command[t].seen /\ c.read = command[t].read
<1>1. command \in [Turns -> Command]
  BY DEF CommandsOK, CommandTypes
<1>2. PICK c : c = [command[t] EXCEPT !.at = stage]
  OBVIOUS
<1>3. /\ c \in Command /\ c.at = stage /\ c.do = command[t].do
      /\ c.target = command[t].target /\ c.left = command[t].left
      /\ c.seen = command[t].seen /\ c.read = command[t].read /\ c.alone = command[t].alone
  BY <1>1, <1>2 DEF Command
<1>4. command' = [command EXCEPT ![t] = c]
  BY <1>1, <1>2 DEF Goto
<1> QED BY <1>3, <1>4, MovedOn

LEMMA IdleIs ==
    /\ Idle \in Command /\ Idle.at = "idle" /\ Idle.do = "none" /\ Idle.target = 0
    /\ Idle.seen = 0 /\ Idle.left = <<>> /\ Idle.read = "none" /\ Idle.alone
<1>1. /\ Idle.at = "idle" /\ Idle.do = "none" /\ Idle.target = 0
      /\ Idle.seen = 0 /\ Idle.left = <<>> /\ Idle.read = "none" /\ Idle.alone = TRUE
  BY DEF Idle, None
<1>2. /\ <<>> \in Seq(Nat \cup Statuses) /\ "idle" \in Stages /\ "none" \in Deeds
      /\ "none" \in Statuses
  BY DEF Stages, Deeds, Statuses
<1>3. Idle \in Command
  BY <1>2 DEF Idle, None, Command
<1> QED BY <1>1, <1>3

LEMMA Ended ==
    ASSUME CommandsOK, NEW t \in Turns, Finish(t), command[t].at # "idle"
    PROVE  Moves(t, Idle)
<1>1. command' = [command EXCEPT ![t] = Idle]
  BY DEF Finish
<1> QED BY <1>1, IdleIs, MovedOn

-----------------------------------------------------------------------------
(* What focus commands keep *)

Starts == {"started", "shifted_to"}

\* A closed focus in the foreground was revived.
RevivedExcused ==
    \A f \in FocusIds : foci[f].closed /\ foci[f].status \in Foreground => f \in excused

\* Transitions lead between focuses, from one that is closed when they shift, and no
\* focus is started twice.
EdgesOK ==
    /\ \A e \in edges : e.from \in 0..Len(foci) /\ e.to \in 0..Len(foci)
    /\ \A e \in edges : e.relation = "shifted_to" =>
          e.from \in FocusIds /\ e.from # e.to /\ foci[e.from].closed
    /\ \A e, d \in edges : e.to = d.to /\ e.relation \in Starts /\ d.relation \in Starts => e = d

\* What a set holds: every focus that is not closed is among those it still closes, or
\* is excused; when no other command met it, so is the whole foreground.
Setting(t) ==
    command[t].at = "close_old" =>
       /\ command[t].do \in SetActions /\ command[t].left \in Seq(FocusIds)
       /\ command[t].target \in 0..Len(foci)
       /\ \/ command[t].target = 0 \/ foci[command[t].target].closed
          \/ command[t].target \in ToSet(command[t].left)
       /\ \A f \in FocusIds :
            foci[f].closed \/ f \in ToSet(command[t].left) \/ f \in excused
       /\ command[t].alone => InForeground \subseteq ToSet(command[t].left)

\* A focus that is set and has no start yet; what it was shifted from is older.
Starting(t) ==
    command[t].at = "start_edge" =>
       /\ command[t].do \in SetActions /\ command[t].seen \in FocusIds
       /\ StartsOf(command[t].seen) = {}
       /\ \/ command[t].target = 0
          \/ /\ command[t].target \in FocusIds /\ command[t].target # command[t].seen
             /\ foci[command[t].target].closed
       /\ \A u \in Turns : command[u].at = "start_edge" /\ command[u].seen = command[t].seen
                           => u = t

\* A focus read as out of the foreground was closed.
Changing(t) ==
    /\ command[t].at \in {"keep", "close", "edge"} => command[t].target \in FocusIds
    /\ command[t].at = "keep" => command[t].do \in KeepActions
    /\ command[t].at = "close" =>
          /\ command[t].do \in DOMAIN FocusEnd
          /\ command[t].read \notin Foreground => foci[command[t].target].closed
    /\ command[t].at = "edge" => command[t].do \in KeepActions \cup DOMAIN FocusEnd

\* Of the focuses that are not closed all are excused but one.
Unexcused ==
    \A f, g \in FocusIds \ excused : ~foci[f].closed /\ ~foci[g].closed => f = g

Started ==
    deaths = 0 => \A f \in FocusIds :
        StartsOf(f) # {} \/ \E t \in Turns : command[t].at = "start_edge" /\ command[t].seen = f

FociInv ==
    /\ FociRows /\ RevivedExcused /\ EdgesOK /\ Unexcused /\ Started
    /\ \A t \in Turns : Setting(t) /\ Starting(t) /\ Changing(t)

\* Closed focuses stay closed, and focuses are added.
Grows == /\ Len(foci) \in Nat /\ Len(foci') \in Nat /\ Len(foci) <= Len(foci')
         /\ \A f \in FocusIds : foci[f].closed => foci'[f].closed

LEMMA OthersKeep ==
    ASSUME FociInv, CommandsOK, NEW t \in Turns, NEW c, Moves(t, c), FociRows', Grows,
           excused \subseteq excused',
           \A f \in (1..Len(foci')) \ FocusIds :
              f \in excused' \/ \A u \in Turns \ {t} : ~OfSet(u),
           foci' = foci \/ command[t].at # "idle",
           \A e \in edges' : \/ e \in edges \/ e.relation \notin Starts
                             \/ command[t].at = "start_edge" /\ e.to = command[t].seen,
           c.at = "start_edge" => c.seen \notin FocusIds,
           NEW u \in Turns \ {t}
    PROVE  Setting(u)' /\ Starting(u)' /\ Changing(u)'
<1>1. /\ Setting(u) /\ Starting(u) /\ Changing(u) /\ Same(u)
      /\ \A f \in FocusIds : f \in 1..Len(foci')
      /\ 0..Len(foci) \subseteq 0..Len(foci') /\ FocusIds \subseteq FocusIds'
  BY DEF FociInv, Moves, Grows, FocusIds
<1>2. Setting(u)'
  <2> SUFFICES ASSUME command'[u].at = "close_old" PROVE Setting(u)'
    BY DEF Setting
  <2>1. /\ command[u].at = "close_old" /\ command[u].at # "idle"
        /\ command[u].do \in SetActions /\ command[u].left \in Seq(FocusIds)
        /\ command[u].target \in 0..Len(foci)
    BY <1>1 DEF Same, Setting
  <2>2. OfSet(u)
    BY <2>1 DEF OfSet
  <2>3. command'[u].left \in Seq(FocusIds')
    <3>1. PICK A, B : A = FocusIds /\ B = FocusIds'
      OBVIOUS
    <3>2. A \subseteq B /\ command'[u].left \in Seq(A)
      BY <1>1, <2>1, <3>1 DEF Same
    <3> QED BY <3>1, <3>2
  <2>4. \/ command'[u].target = 0 \/ foci'[command'[u].target].closed
        \/ command'[u].target \in ToSet(command'[u].left)
    BY <1>1, <2>1 DEF Same, Setting, Grows, FocusIds
  <2>5. \A f \in FocusIds' :
           foci'[f].closed \/ f \in ToSet(command'[u].left) \/ f \in excused'
    BY <1>1, <2>1, <2>2 DEF Same, Setting, Grows, FocusIds
  <2>6. command'[u].alone => InForeground' \subseteq ToSet(command'[u].left)
    <3> SUFFICES ASSUME command'[u].alone PROVE InForeground' \subseteq ToSet(command'[u].left)
      OBVIOUS
    <3>1. command[u].alone
      BY <1>1, <2>1 DEF Same
    <3>2. command[t].at = "idle"
      BY <2>1, <3>1 DEF CommandsOK, Alone
    <3>3. InForeground' = InForeground
      BY <3>2 DEF InForeground, FocusIds
    <3> QED BY <1>1, <2>1, <3>1, <3>3 DEF Same, Setting
  <2> QED BY <1>1, <2>1, <2>3, <2>4, <2>5, <2>6 DEF Same, Setting
<1>3. Starting(u)'
  <2> SUFFICES ASSUME command'[u].at = "start_edge" PROVE Starting(u)'
    BY DEF Starting
  <2>1. /\ command[u].at = "start_edge" /\ command'[u].seen = command[u].seen
        /\ command'[u].target = command[u].target /\ command'[u].do = command[u].do
        /\ command[u].do \in SetActions /\ command[u].seen \in FocusIds
        /\ StartsOf(command[u].seen) = {}
        /\ \A v \in Turns : command[v].at = "start_edge" /\ command[v].seen = command[u].seen
                            => v = u
    BY <1>1 DEF Same, Starting
  <2>2. StartsOf(command[u].seen)' = {}
    <3> SUFFICES ASSUME NEW e \in edges', e.to = command'[u].seen, e.relation \in Starts
                 PROVE  FALSE
      BY DEF StartsOf, Starts
    <3>1. e \notin edges
      BY <2>1 DEF StartsOf, Starts
    <3>2. command[t].at = "start_edge" /\ e.to = command[t].seen
      BY <3>1
    <3> QED BY <2>1, <3>2
  <2>3. \/ command'[u].target = 0
        \/ /\ command'[u].target \in FocusIds' /\ command'[u].target # command'[u].seen
           /\ foci'[command'[u].target].closed
    BY <1>1, <2>1 DEF Starting, Grows
  <2>4. ASSUME NEW v \in Turns, command'[v].at = "start_edge",
               command'[v].seen = command'[u].seen
        PROVE  v = u
    <3>1. CASE v = t
      BY <2>1, <2>4, <3>1 DEF Moves
    <3>2. CASE v # t
      BY <2>1, <2>4, <3>2 DEF Moves, Same
    <3> QED BY <3>1, <3>2
  <2> QED BY <1>1, <2>1, <2>2, <2>3, <2>4 DEF Starting
<1>4. Changing(u)'
  BY <1>1 DEF Same, Changing, Grows
<1> QED BY <1>2, <1>3, <1>4

LEMMA StartedKept ==
    ASSUME FociInv, NEW t \in Turns, NEW c, Moves(t, c), deaths' = deaths, edges' = edges,
           Len(foci') = Len(foci), command[t].at # "start_edge"
    PROVE  Started'
<1> SUFFICES ASSUME deaths' = 0, NEW f \in FocusIds', StartsOf(f)' = {}
             PROVE  \E u \in Turns : command'[u].at = "start_edge" /\ command'[u].seen = f
  BY DEF Started
<1>1. f \in FocusIds /\ StartsOf(f) = {} /\ deaths = 0
  BY DEF FocusIds, StartsOf
<1>2. PICK u \in Turns : command[u].at = "start_edge" /\ command[u].seen = f
  BY <1>1 DEF FociInv, Started
<1> QED BY <1>2 DEF Moves, Same

\* A step that changes focuses in place, or none.
LEMMA Rewritten ==
    ASSUME FociInv, CommandsOK, NEW t \in Turns, NEW c, Moves(t, c), FociRows', Grows,
           Len(foci') = Len(foci), excused \subseteq excused', edges' = edges, deaths' = deaths,
           foci' = foci \/ command[t].at # "idle",
           command[t].at # "start_edge", c.at # "start_edge",
           RevivedExcused', Setting(t)', Changing(t)'
    PROVE  FociInv'
<1>1. \A u \in Turns \ {t} : Setting(u)' /\ Starting(u)' /\ Changing(u)'
  BY OthersKeep DEF FocusIds
<1>2. Starting(t)'
  BY DEF Starting, Moves
<1>3. Started'
  BY StartedKept
<1>4. Unexcused'
  BY DEF FociInv, Unexcused, Grows, FocusIds
<1>5. EdgesOK'
  BY DEF FociInv, EdgesOK, Grows, FocusIds
<1> QED BY <1>1, <1>2, <1>3, <1>4, <1>5 DEF FociInv

\* A step that changes no focus.
LEMMA QuietKeeps ==
    ASSUME FociInv, CommandsOK, NEW t \in Turns, NEW c, Moves(t, c),
           UNCHANGED focusVars, deaths' = deaths,
           command[t].at # "start_edge", c.at # "start_edge",
           Setting(t)', Changing(t)'
    PROVE  FociInv'
<1>1. foci' = foci /\ recency' = recency /\ edges' = edges /\ excused' = excused
  BY DEF focusVars
<1>2. FociRows' /\ RevivedExcused'
  BY <1>1 DEF FociInv, FociRows, RevivedExcused, FocusIds, Orders
<1>3. Grows
  BY <1>1 DEF FociInv, FociRows, Grows
<1> QED BY <1>1, <1>2, <1>3, Rewritten

\* A step of a focus command: no intention is written, and none is set out to be.
FocusMoves(t) ==
    /\ Len(foci) <= Len(foci') /\ (given' = given \/ given' = given + 1)
    /\ \E c : Moves(t, c) /\ c.at \notin {"create", "intention", "link"}

LEMMA BeginSetKeeps ==
    ASSUME FociInv, CommandsOK, NEW t \in Turns, NEW do \in SetActions, BeginSet(t, do)
    PROVE  FociInv' /\ CommandsOK' /\ FocusMoves(t)
<1> DEFINE cmd == [Idle EXCEPT !.at = "close_old", !.do = do, !.left = Replaced,
                               !.target = ActiveFocus]
<1>1. /\ ActiveFocuses \in Seq(FocusIds) /\ ToSet(ActiveFocuses) = InForeground
      /\ ActiveFocus \in 0..Len(foci) /\ Len(foci) \in Nat
      /\ ActiveFocus # None => ActiveFocus \in ToSet(ActiveFocuses)
  BY ActiveIs DEF FociInv, FociRows
<1>2. /\ cmd.at = "close_old" /\ cmd.do = do /\ cmd.left = ActiveFocuses
      /\ cmd.target = ActiveFocus /\ cmd \in Command
  <2>1. ActiveFocuses \in Seq(Nat \cup Statuses)
    <3>1. PICK A, B : A = FocusIds /\ B = Nat \cup Statuses
      OBVIOUS
    <3>2. A \subseteq B /\ ActiveFocuses \in Seq(A)
      BY <1>1, <3>1 DEF FocusIds
    <3>3. ActiveFocuses \in Seq(B)
      BY <3>2
    <3> QED BY <3>1, <3>3
  <2>2. "close_old" \in Stages /\ do \in Deeds
    BY DEF Stages, Deeds, SetActions
  <2>3. ActiveFocus \in Nat
    BY <1>1
  <2> QED BY <2>1, <2>2, <2>3, IdleIs DEF Command, Replaced
<1>3. Take(t, cmd) /\ UNCHANGED focusVars /\ deaths' = deaths
  BY DEF BeginSet, focusVars
<1> HIDE DEF cmd
<1>4. /\ command[t].at = "idle" /\ given < MaxOps /\ given' = given + 1
      /\ \E c : /\ Moves(t, c)
                /\ c.at = cmd.at /\ c.do = cmd.do /\ c.target = cmd.target
                /\ c.read = cmd.read /\ c.seen = cmd.seen /\ c.left = cmd.left
                /\ c.alone => \A u \in Turns : command[u].at = "idle"
  BY <1>2, <1>3, TakenUp
<1>5. PICK c : /\ Moves(t, c) /\ c.at = "close_old" /\ c.do = do /\ c.target = ActiveFocus
               /\ c.left = ActiveFocuses
  BY <1>2, <1>4
<1>6. CommandsOK'
  BY <1>3, <1>4, <1>5, CommandsMove
<1>7. command'[t] = c /\ foci' = foci /\ excused' = excused
  BY <1>3, <1>5 DEF Moves, focusVars
<1>8. \A f \in FocusIds : foci[f].closed \/ f \in ToSet(ActiveFocuses)
  BY <1>1 DEF FociInv, FociRows, InForeground
<1>9. Setting(t)'
  BY <1>1, <1>5, <1>7, <1>8 DEF Setting, FocusIds, None, InForeground
<1>10. Changing(t)'
  BY <1>5, <1>7 DEF Changing
<1>11. FocusMoves(t)
  BY <1>1, <1>4, <1>5, <1>7 DEF FocusMoves
<1> QED BY <1>11, <1>3, <1>4, <1>5, <1>6, <1>9, <1>10, QuietKeeps

LEMMA BeginFocusKeeps ==
    ASSUME FociInv, CommandsOK, NEW t \in Turns, NEW do \in KeepActions \cup DOMAIN FocusEnd,
           NEW id \in 0..Len(foci), BeginFocus(t, do, id)
    PROVE  FociInv' /\ CommandsOK' /\ FocusMoves(t)
<1> DEFINE f == TargetFocus(id)
           cmd == [Idle EXCEPT !.do = do, !.target = f,
                               !.at = IF do \in KeepActions THEN "keep" ELSE "close",
                               !.read = foci[f].status]
<1>1. /\ ToSet(ActiveFocuses) = InForeground /\ Len(foci) \in Nat
      /\ ActiveFocus # None => ActiveFocus \in ToSet(ActiveFocuses)
  BY ActiveIs DEF FociInv, FociRows
<1>2. f \in FocusIds
  <2>1. f # None
    BY DEF BeginFocus
  <2>2. CASE id = None
    BY <1>1, <2>1, <2>2 DEF TargetFocus, InForeground
  <2>3. CASE id # None
    BY <1>1, <2>3 DEF TargetFocus, FocusIds, None
  <2> QED BY <2>2, <2>3
<1> HIDE DEF f
<1>3. /\ foci[f] \in FocusRow /\ foci[f].status \in Statuses
      /\ foci[f].closed \/ foci[f].status \in Foreground
  <2>1. foci \in Seq(FocusRow) /\ f \in 1..Len(foci)
    BY <1>2 DEF FociInv, FociRows, FocusIds
  <2>2. foci[f] \in FocusRow
    BY <2>1
  <2>3. foci[f].status \in Statuses
    BY <2>2 DEF FocusRow, Statuses, Foreground
  <2> QED BY <1>2, <2>2, <2>3 DEF FociInv, FociRows
<1>4. Take(t, cmd) /\ UNCHANGED focusVars /\ deaths' = deaths
  BY DEF BeginFocus, focusVars, f
<1>5. /\ cmd.at = IF do \in KeepActions THEN "keep" ELSE "close"
      /\ cmd.do = do /\ cmd.target = f /\ cmd.read = foci[f].status /\ cmd \in Command
  <2>1. /\ (IF do \in KeepActions THEN "keep" ELSE "close") \in Stages /\ do \in Deeds
        /\ f \in Nat
    BY <1>2 DEF Stages, Deeds, KeepActions, FocusEnd, FocusIds
  <2> QED BY <1>3, <2>1, IdleIs DEF Command
<1> HIDE DEF cmd
<1>6. /\ command[t].at = "idle" /\ given < MaxOps /\ given' = given + 1
      /\ \E c : /\ Moves(t, c)
                /\ c.at = cmd.at /\ c.do = cmd.do /\ c.target = cmd.target
                /\ c.read = cmd.read /\ c.seen = cmd.seen /\ c.left = cmd.left
                /\ c.alone => \A u \in Turns : command[u].at = "idle"
  BY <1>4, <1>5, TakenUp
<1>7. cmd.at # "start_edge" /\ cmd.at # "close_old" /\ cmd.at # "edge"
      /\ (cmd.at = "keep" => do \in KeepActions) /\ (cmd.at = "close" => do \in DOMAIN FocusEnd)
  BY <1>5
<1>8. PICK c : /\ Moves(t, c) /\ c.at = cmd.at /\ c.do = do /\ c.target = f
               /\ c.read = foci[f].status
  BY <1>5, <1>6
<1>9. CommandsOK'
  BY <1>4, <1>6, <1>8, CommandsMove
<1>10. command'[t] = c /\ foci' = foci
  BY <1>4, <1>8 DEF Moves, focusVars
<1>11. Setting(t)'
  BY <1>7, <1>8, <1>10 DEF Setting
<1>12. Changing(t)'
  BY <1>2, <1>3, <1>7, <1>8, <1>10 DEF Changing, FocusIds
<1>13. FocusMoves(t)
  BY <1>1, <1>5, <1>6, <1>8, <1>10 DEF FocusMoves
<1> QED BY <1>13, <1>4, <1>6, <1>7, <1>8, <1>9, <1>11, <1>12, QuietKeeps

\* What writing status and closed to a focus does to the rows.
LEMMA RowWritten ==
    ASSUME FociRows, NEW f \in FocusIds, NEW row \in FocusRow,
           row.closed \/ row.status \in Foreground, foci[f].closed => row.closed,
           foci' = [foci EXCEPT ![f] = row], recency' = Touched(f)
    PROVE  /\ FociRows' /\ Grows /\ Len(foci') = Len(foci) /\ foci'[f] = row
           /\ \A g \in FocusIds \ {f} : foci'[g] = foci[g]
<1>1. foci \in Seq(FocusRow) /\ Len(foci) \in Nat /\ f \in 1..Len(foci)
  BY DEF FociRows, FocusIds
<1>2. /\ foci' \in Seq(FocusRow) /\ Len(foci') = Len(foci) /\ foci'[f] = row
      /\ \A g \in 1..Len(foci) : g # f => foci'[g] = foci[g]
  BY <1>1
<1>3. Orders(recency', Len(foci'))
  BY <1>1, <1>2, TouchedOrders DEF FociRows
<1>4. \A g \in FocusIds' : foci'[g].closed \/ foci'[g].status \in Foreground
  BY <1>2 DEF FociRows, FocusIds
<1>5. Grows
  BY <1>1, <1>2 DEF Grows, FocusIds
<1> QED BY <1>2, <1>3, <1>4, <1>5 DEF FociRows, FocusIds

\* What a command holds at the stage it has reached.
LEMMA CommandIs ==
    ASSUME CommandsOK, NEW t \in Turns
    PROVE  /\ command[t] \in Command /\ command \in [Turns -> Command]
           /\ command[t].alone \in BOOLEAN
           /\ command[t].at # "idle" /\ command[t].alone =>
                \A u \in Turns \ {t} : command[u].at = "idle"
BY DEF CommandsOK, CommandTypes, Alone, Command

LEMMA RowIs ==
    ASSUME FociRows, NEW f \in FocusIds
    PROVE  /\ foci[f] \in FocusRow /\ f \in 1..Len(foci) /\ foci \in Seq(FocusRow)
           /\ foci[f].closed \in BOOLEAN /\ f \in Nat /\ Len(foci) \in Nat
           /\ foci[f].closed \/ foci[f].status \in Foreground
<1>1. foci \in Seq(FocusRow) /\ f \in 1..Len(foci)
  BY DEF FociRows, FocusIds
<1>2. foci[f] \in FocusRow /\ Len(foci) \in Nat
  BY <1>1
<1>3. foci[f].closed \in BOOLEAN
  BY <1>2 DEF FocusRow
<1> QED BY <1>1, <1>2, <1>3 DEF FociRows

\* A focus that is closed with a status out of the foreground.
LEMMA ClosedRow ==
    ASSUME FociRows, NEW f \in FocusIds, NEW status, foci' = Closed(f, status),
           recency' = Touched(f),
           \/ status \in {"superseded", "deferred", "resolved", "impossible"}
           \/ status = foci[f].status
    PROVE  /\ FociRows' /\ Grows /\ Len(foci') = Len(foci)
           /\ foci'[f].closed /\ foci'[f].status = status
           /\ \A g \in FocusIds \ {f} : foci'[g] = foci[g]
<1>1. PICK row : row = [foci[f] EXCEPT !.status = status, !.closed = TRUE]
  OBVIOUS
<1>2. row \in FocusRow /\ row.status = status /\ row.closed = TRUE
  BY <1>1, RowIs DEF FocusRow
<1>3. foci' = [foci EXCEPT ![f] = row]
  BY <1>1, RowIs DEF Closed
<1> QED BY <1>2, <1>3, RowWritten

LEMMA CloseOldKeeps ==
    ASSUME FociInv, CommandsOK, NEW t \in Turns, CloseOld(t)
    PROVE  FociInv' /\ CommandsOK' /\ FocusMoves(t)
<1> DEFINE left == command[t].left
<1>1. PICK f : f = Head(left)
  OBVIOUS
<1>2. /\ command[t].at = "close_old" /\ left # <<>> /\ Setting(t) /\ Changing(t) /\ FociRows
      /\ foci' = Closed(f, "superseded") /\ recency' = Touched(f)
      /\ command' = [command EXCEPT ![t].left = Tail(@)]
      /\ edges' = edges /\ given' = given /\ deaths' = deaths /\ excused' = excused
  BY <1>1 DEF CloseOld, FociInv
<1>3. left \in Seq(FocusIds) /\ f \in FocusIds /\ ToSet(left) = ToSet(Tail(left)) \cup {f}
      /\ Tail(left) \in Seq(FocusIds)
  <2>1. PICK A, l : A = FocusIds /\ l = left
    OBVIOUS
  <2>2. l \in Seq(A) /\ l # <<>>
    BY <1>2, <2>1 DEF Setting
  <2>3. /\ Head(l) = l[1] /\ l[1] \in A /\ Tail(l) \in Seq(A) /\ Len(Tail(l)) = Len(l) - 1
        /\ Len(l) \in Nat /\ Len(l) >= 1 /\ \A i \in 1..(Len(l) - 1) : Tail(l)[i] = l[i + 1]
    BY <2>2
  <2>4. ASSUME NEW x \in ToSet(l) PROVE x \in ToSet(Tail(l)) \cup {l[1]}
    <3>1. PICK i \in 1..Len(l) : l[i] = x
      BY <2>2 DEF ToSet
    <3>2. CASE i = 1
      BY <3>1, <3>2
    <3>3. CASE i # 1
      <4>1. i - 1 \in 1..(Len(l) - 1) /\ (i - 1) + 1 = i
        BY <2>3, <3>3
      <4>2. Tail(l)[i - 1] = x /\ i - 1 \in DOMAIN Tail(l)
        BY <2>3, <3>1, <4>1
      <4> QED BY <4>2 DEF ToSet
    <3> QED BY <3>2, <3>3
  <2>5. \A x \in ToSet(Tail(l)) \cup {l[1]} : x \in ToSet(l)
    BY <2>2, <2>3 DEF ToSet
  <2> QED BY <1>1, <2>1, <2>2, <2>3, <2>4, <2>5
<1>4. PICK c : c = [command[t] EXCEPT !.left = Tail(left)]
  OBVIOUS
<1>5. /\ c \in Command /\ c.at = "close_old" /\ c.do = command[t].do /\ c.left = Tail(left)
      /\ c.target = command[t].target /\ c.alone = command[t].alone
      /\ command' = [command EXCEPT ![t] = c]
  <2>1. PICK A, B, l : A = FocusIds /\ B = Nat \cup Statuses /\ l = Tail(left)
    OBVIOUS
  <2>2. A \subseteq B /\ l \in Seq(A)
    BY <1>3, <2>1 DEF FocusIds
  <2>3. l \in Seq(B)
    BY <2>2
  <2>4. Tail(left) \in Seq(Nat \cup Statuses)
    BY <2>1, <2>3
  <2> HIDE DEF left
  <2>5. /\ c \in Command /\ c.at = "close_old" /\ c.do = command[t].do /\ c.left = Tail(left)
        /\ c.target = command[t].target /\ c.alone = command[t].alone
    BY <1>2, <1>4, <2>4, CommandIs DEF Command
  <2> QED BY <1>2, <1>4, <2>5, CommandIs DEF left
<1>6. Moves(t, c) /\ command'[t] = c
  BY <1>2, <1>5, MovedOn DEF Moves
<1>7. CommandsOK'
  BY <1>2, <1>6, CommandsMove
<1>8. /\ FociRows' /\ Grows /\ Len(foci') = Len(foci)
      /\ foci'[f].closed /\ foci'[f].status = "superseded"
      /\ \A g \in FocusIds \ {f} : foci'[g] = foci[g]
  BY <1>2, <1>3, ClosedRow
<1>9. FocusIds' = FocusIds
  BY <1>8 DEF FocusIds
<1>10. RevivedExcused'
  BY <1>2, <1>8, <1>9 DEF FociInv, RevivedExcused, Foreground
<1> HIDE DEF left
<1>11. Setting(t)'
  <2>1. /\ command[t].do \in SetActions /\ command[t].target \in 0..Len(foci)
        /\ \/ command[t].target = 0 \/ foci[command[t].target].closed
           \/ command[t].target \in ToSet(left)
        /\ \A g \in FocusIds : foci[g].closed \/ g \in ToSet(left) \/ g \in excused
        /\ command[t].alone => InForeground \subseteq ToSet(left)
    BY <1>2 DEF Setting, left
  <2>2. \A g \in FocusIds : foci'[g].closed \/ g \in ToSet(Tail(left)) \/ g \in excused'
    BY <1>2, <1>3, <1>8, <2>1
  <2>3. \/ c.target = 0 \/ foci'[c.target].closed
        \/ c.target \in ToSet(Tail(left))
    BY <1>3, <1>5, <1>8, <2>1 DEF FocusIds
  <2>4. c.alone => InForeground' \subseteq ToSet(Tail(left))
    <3> SUFFICES ASSUME c.alone, NEW g \in InForeground' PROVE g \in ToSet(Tail(left))
      OBVIOUS
    <3>1. g \in FocusIds /\ foci'[g].status \in Foreground
      BY <1>9 DEF InForeground
    <3>2. g # f
      BY <1>8, <3>1 DEF Foreground
    <3>3. g \in InForeground
      BY <1>8, <3>1, <3>2 DEF InForeground
    <3> QED BY <1>3, <1>5, <2>1, <3>2, <3>3
  <2> QED BY <1>3, <1>5, <1>6, <1>8, <1>9, <2>1, <2>2, <2>3, <2>4 DEF Setting
<1>12. Changing(t)'
  BY <1>5, <1>6 DEF Changing
<1>13. FocusMoves(t)
  BY <1>2, <1>5, <1>6, <1>8 DEF FocusMoves, Grows
<1> QED BY <1>13, <1>2, <1>5, <1>6, <1>7, <1>8, <1>10, <1>11, <1>12, Rewritten

LEMMA KeepKeeps ==
    ASSUME FociInv, CommandsOK, NEW t \in Turns, Keep(t)
    PROVE  FociInv' /\ CommandsOK' /\ FocusMoves(t)
<1>1. PICK f, status :
         /\ f = command[t].target
         /\ status = IF command[t].do = "hold"
                     THEN Column(foci[f].status, command[t].read, "held") ELSE foci[f].status
  OBVIOUS
<1>2. /\ command[t].at = "keep" /\ Changing(t) /\ FociRows
      /\ foci' = [foci EXCEPT ![f].status = status] /\ recency' = Touched(f)
      /\ excused' = IF foci[f].closed /\ status \in Foreground THEN excused \cup {f} ELSE excused
      /\ Goto(t, "edge")
      /\ edges' = edges /\ given' = given /\ deaths' = deaths
  BY <1>1 DEF Keep, FociInv
<1>3. f \in FocusIds /\ command[t].do \in KeepActions
  BY <1>1, <1>2 DEF Changing
<1>4. status = foci[f].status \/ status = "held"
  BY <1>1 DEF Column
<1>5. PICK row : row = [foci[f] EXCEPT !.status = status]
  OBVIOUS
<1>6. /\ row \in FocusRow /\ row.status = status /\ row.closed = foci[f].closed
      /\ foci' = [foci EXCEPT ![f] = row]
  BY <1>2, <1>3, <1>4, <1>5, RowIs DEF FocusRow, Foreground
<1>7. row.closed \/ row.status \in Foreground
  BY <1>2, <1>3, <1>4, <1>6, RowIs DEF Foreground
<1>8. /\ FociRows' /\ Grows /\ Len(foci') = Len(foci) /\ foci'[f] = row
      /\ \A g \in FocusIds \ {f} : foci'[g] = foci[g]
  BY <1>2, <1>3, <1>6, <1>7, RowWritten
<1>9. RevivedExcused'
  BY <1>2, <1>3, <1>6, <1>8 DEF FociInv, RevivedExcused, FocusIds
<1>10. PICK c : /\ Moves(t, c) /\ c.at = "edge" /\ c.do = command[t].do
                /\ c.target = command[t].target
  BY <1>2, WentOn DEF Stages
<1>11. command'[t] = c
  BY <1>10 DEF Moves
<1>12. CommandsOK'
  BY <1>2, <1>10, CommandsMove
<1>13. Setting(t)' /\ Changing(t)'
  BY <1>1, <1>3, <1>8, <1>10, <1>11 DEF Setting, Changing, FocusIds
<1>14. FocusMoves(t)
  BY <1>2, <1>8, <1>10 DEF FocusMoves, Grows
<1> QED BY <1>14, <1>2, <1>8, <1>9, <1>10, <1>12, <1>13, Rewritten

LEMMA CloseKeeps ==
    ASSUME FociInv, CommandsOK, NEW t \in Turns, Close(t)
    PROVE  FociInv' /\ CommandsOK' /\ FocusMoves(t)
<1>1. PICK f, end, status :
         /\ f = command[t].target /\ end = FocusEnd[command[t].do]
         /\ status = Column(foci[f].status, command[t].read, end)
  OBVIOUS
<1>2. /\ command[t].at = "close" /\ Changing(t) /\ FociRows
      /\ foci' = Closed(f, status) /\ recency' = Touched(f)
      /\ Goto(t, "edge")
      /\ edges' = edges /\ given' = given /\ deaths' = deaths /\ excused' = excused
  BY <1>1 DEF Close, FociInv
<1>3. /\ f \in FocusIds /\ command[t].do \in DOMAIN FocusEnd
      /\ command[t].read \notin Foreground => foci[f].closed
  BY <1>1, <1>2 DEF Changing
<1>4. end \in {"deferred", "resolved", "impossible"}
  BY <1>1, <1>3 DEF FocusEnd
<1>5. status = end \/ (status = foci[f].status /\ foci[f].closed)
  BY <1>1, <1>3, <1>4 DEF Column, Foreground
<1>6. /\ FociRows' /\ Grows /\ Len(foci') = Len(foci)
      /\ foci'[f].closed /\ foci'[f].status = status
      /\ \A g \in FocusIds \ {f} : foci'[g] = foci[g]
  BY <1>2, <1>3, <1>4, <1>5, ClosedRow
<1>7. RevivedExcused'
  BY <1>2, <1>3, <1>4, <1>5, <1>6 DEF FociInv, RevivedExcused, FocusIds, Foreground
<1>8. PICK c : /\ Moves(t, c) /\ c.at = "edge" /\ c.do = command[t].do
               /\ c.target = command[t].target
  BY <1>2, WentOn DEF Stages
<1>9. command'[t] = c
  BY <1>8 DEF Moves
<1>10. CommandsOK'
  BY <1>2, <1>8, CommandsMove
<1>11. Setting(t)' /\ Changing(t)'
  BY <1>1, <1>3, <1>6, <1>8, <1>9 DEF Setting, Changing, FocusIds
<1>12. FocusMoves(t)
  BY <1>2, <1>6, <1>8 DEF FocusMoves, Grows
<1> QED BY <1>12, <1>2, <1>6, <1>7, <1>8, <1>10, <1>11, Rewritten

LEMMA CreateKeeps ==
    ASSUME FociInv, CommandsOK, NEW t \in Turns, Create(t)
    PROVE  FociInv' /\ CommandsOK' /\ FocusMoves(t)
<1>1. PICK n, row : n = Len(foci) + 1 /\ row = [status |-> "active", closed |-> FALSE]
  OBVIOUS
<1>2. /\ command[t].at = "close_old" /\ command[t].left = <<>> /\ Setting(t) /\ FociRows
      /\ foci' = Append(foci, row) /\ recency' = Append(recency, n)
      /\ excused' = IF \E u \in Turns \ {t} : OfSet(u) THEN excused \cup {n} ELSE excused
      /\ command' = [command EXCEPT ![t].at = "start_edge", ![t].seen = n]
      /\ edges' = edges /\ given' = given /\ deaths' = deaths
  BY <1>1 DEF Create, FociInv
<1>3. /\ foci \in Seq(FocusRow) /\ Len(foci) \in Nat /\ row \in FocusRow
      /\ row.closed = FALSE /\ row.status = "active"
  BY <1>1, <1>2 DEF FociRows, FocusRow, Foreground
<1>4. /\ foci' \in Seq(FocusRow) /\ Len(foci') = n /\ foci'[n] = row /\ n \in Nat
      /\ \A f \in FocusIds : foci'[f] = foci[f] /\ f # n /\ f \in 1..n
      /\ \A f \in 1..n : f = n \/ f \in FocusIds
      /\ n \notin FocusIds /\ FocusIds' = 1..n
  BY <1>1, <1>2, <1>3 DEF FocusIds
<1>5. FociRows' /\ Grows
  <2>1. Orders(recency', n)
    BY <1>1, <1>2, <1>3, AppendOrders DEF FociRows
  <2>2. \A f \in 1..n : foci'[f].closed \/ foci'[f].status \in Foreground
    BY <1>2, <1>3, <1>4 DEF FociRows, Foreground
  <2>3. Len(foci) <= n
    BY <1>1, <1>3
  <2> QED BY <1>3, <1>4, <2>1, <2>2, <2>3 DEF FociRows, Grows
<1>6. PICK c : c = [command[t] EXCEPT !.at = "start_edge", !.seen = n]
  OBVIOUS
<1>7. /\ c \in Command /\ c.at = "start_edge" /\ c.do = command[t].do /\ c.seen = n
      /\ c.target = command[t].target /\ c.alone = command[t].alone
  BY <1>4, <1>6, CommandIs DEF Command, Stages
<1>8. command' = [command EXCEPT ![t] = c]
  BY <1>2, <1>6, CommandIs
<1>9. Moves(t, c) /\ command'[t] = c
  BY <1>2, <1>7, <1>8, MovedOn DEF Moves
<1>10. CommandsOK'
  BY <1>2, <1>9, CommandsMove
<1>11. ToSet(command[t].left) = {}
  BY <1>2 DEF ToSet
<1>12. \A f \in FocusIds : foci[f].closed \/ f \in excused
  BY <1>2, <1>11 DEF Setting
<1>13. \A u \in Turns \ {t} : Setting(u)' /\ Starting(u)' /\ Changing(u)'
  <2>1. \A f \in (1..Len(foci')) \ FocusIds :
           f \in excused' \/ \A u \in Turns \ {t} : ~OfSet(u)
    BY <1>2, <1>4
  <2>2. excused \subseteq excused' /\ command[t].at # "idle"
    BY <1>2
  <2>3. c.at = "start_edge" => c.seen \notin FocusIds
    BY <1>4, <1>7
  <2> QED BY <1>2, <1>5, <1>9, <2>1, <2>2, <2>3, OthersKeep
<1>14. StartsOf(n)' = {}
  BY <1>1, <1>2, <1>3 DEF FociInv, EdgesOK, StartsOf
<1>15. Starting(t)'
  <2>1. /\ c.target = 0 \/ (c.target \in FocusIds /\ foci[c.target].closed)
        /\ c.do \in SetActions
    BY <1>2, <1>3, <1>7, <1>11 DEF Setting, FocusIds
  <2>2. \A u \in Turns : command'[u].at = "start_edge" /\ command'[u].seen = n => u = t
    <3> SUFFICES ASSUME NEW u \in Turns \ {t}, command'[u].at = "start_edge"
                 PROVE  command'[u].seen # n
      OBVIOUS
    <3>1. Starting(u) /\ command[u].at = "start_edge" /\ command'[u].seen = command[u].seen
      BY <1>9 DEF FociInv, Moves, Same
    <3> QED BY <1>4, <3>1 DEF Starting
  <2>3. StartsOf(command[t].seen)' = {}
    BY <1>7, <1>9, <1>14 DEF StartsOf
  <2>4. c.target = 0 \/ (c.target \in FocusIds' /\ c.target # n /\ foci'[c.target].closed)
    BY <1>4, <2>1
  <2>5. n \in FocusIds'
    BY <1>1, <1>3, <1>4
  <2> QED BY <1>7, <1>9, <2>1, <2>2, <2>3, <2>4, <2>5 DEF Starting
<1>16. Setting(t)' /\ Changing(t)'
  BY <1>7, <1>9 DEF Setting, Changing
<1>17. RevivedExcused'
  BY <1>2, <1>3, <1>4 DEF FociInv, RevivedExcused
<1>18. EdgesOK'
  <2>1. 0..Len(foci) \subseteq 0..n
    BY <1>1, <1>3
  <2> QED BY <1>2, <1>4, <2>1 DEF FociInv, EdgesOK
<1>19. Unexcused'
  <2> SUFFICES ASSUME NEW f \in 1..n, f \notin excused', ~foci'[f].closed PROVE f = n
    BY <1>4 DEF Unexcused
  <2> QED BY <1>2, <1>4, <1>12
<1>20. Started'
  <2> SUFFICES ASSUME deaths = 0, NEW f \in 1..n, StartsOf(f)' = {}
               PROVE  \E u \in Turns : command'[u].at = "start_edge" /\ command'[u].seen = f
    BY <1>2, <1>4 DEF Started
  <2>1. CASE f = n
    BY <1>7, <1>9, <2>1
  <2>2. CASE f # n
    <3>1. f \in FocusIds /\ StartsOf(f) = {}
      BY <1>2, <1>4, <2>2 DEF StartsOf
    <3>2. PICK u \in Turns : command[u].at = "start_edge" /\ command[u].seen = f
      BY <3>1 DEF FociInv, Started
    <3>3. u # t
      BY <1>2, <3>2
    <3> QED BY <1>9, <3>2, <3>3 DEF Moves, Same
  <2> QED BY <2>1, <2>2
<1>21. FocusMoves(t)
  BY <1>2, <1>5, <1>7, <1>9 DEF FocusMoves, Grows
<1> QED BY <1>21, <1>5, <1>10, <1>13, <1>15, <1>16, <1>17, <1>18, <1>19, <1>20 DEF FociInv

\* A transition is added.
LEMMA Linked ==
    ASSUME FociInv, CommandsOK, NEW t \in Turns, Finish(t), command[t].at # "idle",
           NEW e, edges' = edges \cup {e}, e.from \in 0..Len(foci), e.to \in 0..Len(foci),
           foci' = foci, recency' = recency, excused' = excused, deaths' = deaths,
           given' = given,
           e.relation = "shifted_to" =>
              e.from \in FocusIds /\ e.from # e.to /\ foci[e.from].closed,
           \/ e.relation \notin Starts /\ command[t].at # "start_edge"
           \/ command[t].at = "start_edge" /\ e.to = command[t].seen /\ e.relation \in Starts
    PROVE  FociInv' /\ CommandsOK' /\ FocusMoves(t)
<1>1. Moves(t, Idle) /\ Idle.at = "idle"
  BY Ended, IdleIs
<1>2. CommandsOK'
  BY <1>1, CommandsMove
<1>3. FociRows' /\ Grows /\ FocusIds' = FocusIds
  BY DEF FociInv, FociRows, FocusIds, Orders, Grows
<1>4. \A u \in Turns \ {t} : Setting(u)' /\ Starting(u)' /\ Changing(u)'
  <2>1. \A d \in edges' : \/ d \in edges \/ d.relation \notin Starts
                          \/ command[t].at = "start_edge" /\ d.to = command[t].seen
    OBVIOUS
  <2>2. \A f \in (1..Len(foci')) \ FocusIds :
           f \in excused' \/ \A u \in Turns \ {t} : ~OfSet(u)
    BY DEF FocusIds
  <2> QED BY <1>1, <1>3, <2>1, <2>2, OthersKeep
<1>5. Setting(t)' /\ Starting(t)' /\ Changing(t)'
  BY <1>1 DEF Moves, Setting, Starting, Changing
<1>6. RevivedExcused' /\ Unexcused'
  BY <1>3 DEF FociInv, RevivedExcused, Unexcused
<1>7. EdgesOK'
  <2>1. \A d \in edges : e.to = d.to /\ e.relation \in Starts /\ d.relation \in Starts => FALSE
    BY DEF FociInv, Starting, StartsOf, Starts
  <2>2. \A d, g \in edges' : d.to = g.to /\ d.relation \in Starts /\ g.relation \in Starts
                             => d = g
    BY <2>1 DEF FociInv, EdgesOK
  <2> QED BY <1>3, <2>2 DEF FociInv, EdgesOK
<1>8. Started'
  <2> SUFFICES ASSUME deaths = 0, NEW f \in FocusIds, StartsOf(f)' = {}
               PROVE  \E u \in Turns : command'[u].at = "start_edge" /\ command'[u].seen = f
    BY <1>3 DEF Started
  <2>1. StartsOf(f) = {}
    BY DEF StartsOf
  <2>2. PICK u \in Turns : command[u].at = "start_edge" /\ command[u].seen = f
    BY <2>1 DEF FociInv, Started
  <2>3. u # t
    <3> SUFFICES ASSUME u = t PROVE FALSE
      OBVIOUS
    <3>1. e \in edges' /\ e.to = f /\ e.relation \in Starts
      BY <2>2
    <3> QED BY <3>1 DEF StartsOf, Starts
  <2> QED BY <1>1, <2>2, <2>3 DEF Moves, Same
<1>9. FocusMoves(t)
  BY <1>1, <1>3 DEF FocusMoves, Grows
<1> QED BY <1>9, <1>2, <1>3, <1>4, <1>5, <1>6, <1>7, <1>8 DEF FociInv

LEMMA StartEdgeKeeps ==
    ASSUME FociInv, CommandsOK, NEW t \in Turns, StartEdge(t)
    PROVE  FociInv' /\ CommandsOK' /\ FocusMoves(t)
<1>1. PICK e : e = [from |-> command[t].target, to |-> command[t].seen,
                    relation |-> IF command[t].target = None THEN "started" ELSE "shifted_to"]
  OBVIOUS
<1>2. /\ command[t].at = "start_edge" /\ Starting(t) /\ edges' = edges \cup {e} /\ Finish(t)
      /\ foci' = foci /\ recency' = recency /\ excused' = excused /\ deaths' = deaths
      /\ given' = given
  BY <1>1 DEF StartEdge, FociInv
<1>3. /\ e.from = command[t].target /\ e.to = command[t].seen
      /\ e.relation = IF command[t].target = 0 THEN "started" ELSE "shifted_to"
  BY <1>1 DEF None
<1>4. /\ command[t].seen \in FocusIds
      /\ \/ command[t].target = 0
         \/ /\ command[t].target \in FocusIds /\ command[t].target # command[t].seen
            /\ foci[command[t].target].closed
  BY <1>2 DEF Starting
<1>5. Len(foci) \in Nat
  BY DEF FociInv, FociRows
<1>6. e.from \in 0..Len(foci) /\ e.to \in 0..Len(foci) /\ e.relation \in Starts
  BY <1>3, <1>4, <1>5 DEF FocusIds, Starts
<1>7. e.relation = "shifted_to" => e.from \in FocusIds /\ e.from # e.to /\ foci[e.from].closed
  BY <1>3, <1>4
<1> QED BY <1>2, <1>3, <1>6, <1>7, Linked

LEMMA EdgeKeeps ==
    ASSUME FociInv, CommandsOK, NEW t \in Turns, Edge(t)
    PROVE  FociInv' /\ CommandsOK' /\ FocusMoves(t)
<1> DEFINE do == command[t].do
           keeps == do \in KeepActions
<1>1. PICK e : e = [from |-> command[t].target,
                    to |-> IF keeps THEN command[t].target ELSE None,
                    relation |-> IF do = "hold" THEN "held"
                                 ELSE IF keeps THEN "updated" ELSE EdgeOfClose[do]]
  OBVIOUS
<1>2. /\ command[t].at = "edge" /\ Changing(t) /\ edges' = edges \cup {e} /\ Finish(t)
      /\ foci' = foci /\ recency' = recency /\ excused' = excused /\ deaths' = deaths
      /\ given' = given
  BY <1>1 DEF Edge, FociInv
<1>3. command[t].target \in FocusIds /\ do \in KeepActions \cup DOMAIN FocusEnd
  BY <1>2 DEF Changing
<1>4. Len(foci) \in Nat
  BY DEF FociInv, FociRows
<1>5. e.from \in 0..Len(foci) /\ e.to \in 0..Len(foci)
  BY <1>1, <1>3, <1>4 DEF FocusIds, None
<1>6. e.relation \notin Starts
  BY <1>1, <1>3 DEF Starts, KeepActions, FocusEnd, EdgeOfClose
<1> QED BY <1>2, <1>5, <1>6, Linked DEF Starts

LEMMA CrashKeeps ==
    ASSUME FociInv, CommandsOK, OrgansCrash
    PROVE  FociInv' /\ CommandsOK'
<1>1. /\ deaths' = deaths + 1 /\ command' = [t \in Turns |-> Idle]
      /\ foci' = foci /\ recency' = recency /\ edges' = edges /\ excused' = excused
      /\ given' = given
  BY DEF OrgansCrash
<1>2. \A t \in Turns : command'[t].at = "idle"
  BY <1>1, IdleIs
<1>3. CommandsOK'
  BY <1>1, <1>2, IdleIs DEF CommandsOK, CommandTypes, Alone
<1>4. deaths' # 0
  BY <1>1 DEF CommandsOK, CommandTypes
<1>5. \A t \in Turns : Setting(t)' /\ Starting(t)' /\ Changing(t)'
  BY <1>2 DEF Setting, Starting, Changing
<1>6. Started'
  BY <1>4 DEF Started
<1> QED BY <1>1, <1>3, <1>5, <1>6
        DEF FociInv, FociRows, Orders, RevivedExcused, EdgesOK, Unexcused, FocusIds

-----------------------------------------------------------------------------
(* What volition commands keep *)

IntentionRow ==
    [status : Open \cup {"resolved", "impossible", "deprecated"}, closed : BOOLEAN,
     reviews : Nat, links : 0..1, focus : Nat]
Count == [all : Nat, calm : Nat]
IntentionDeeds == {"update", "review", "defer"} \cup DOMAIN IntentionEnd

\* The reviews of an intention that are under way.
Reviewing(i) ==
    {t \in Turns : /\ command[t].at = "intention" /\ command[t].do = "review"
                   /\ command[t].target = i}

\* The reviews counted lie between the calm ones and all; those answered and those
\* under way are of commands that were given.
IntentionOK(i) ==
    /\ intentions[i].status \notin Open => intentions[i].closed
    /\ intentions[i].focus <= Len(foci)
    /\ reviewed[i].calm <= intentions[i].reviews /\ intentions[i].reviews <= reviewed[i].all
    /\ IsFiniteSet(Reviewing(i)) /\ reviewed[i].all + Cardinality(Reviewing(i)) <= given

IntentionTypes ==
    /\ intentions \in Seq(IntentionRow) /\ reviewed \in Seq(Count)
    /\ Len(reviewed) = Len(intentions) /\ Len(foci) \in Nat

\* What a command read of the count is not above the reviews answered since nor below
\* the calm ones, and is still the count when no other command met it.
Intending(t) ==
    /\ command[t].at = "create" => command[t].target <= Len(foci)
    /\ command[t].at = "link" => command[t].target \in 1..Len(intentions)
    /\ command[t].at = "intention" =>
         /\ command[t].target \in 1..Len(intentions) /\ command[t].do \in IntentionDeeds
         /\ Len(command[t].left) = 1 /\ command[t].left[1] \in Asked(command[t].do)
         /\ command[t].seen <= reviewed[command[t].target].all
         /\ reviewed[command[t].target].calm <= command[t].seen
         /\ command[t].alone => command[t].seen = intentions[command[t].target].reviews

IntentionsInv ==
    /\ IntentionTypes
    /\ \A i \in 1..Len(intentions) : IntentionOK(i)
    /\ \A t \in Turns : Intending(t)

LEMMA RowsAre ==
    ASSUME IntentionTypes, NEW i \in 1..Len(intentions)
    PROVE  /\ intentions[i] \in IntentionRow /\ reviewed[i] \in Count
           /\ intentions[i].reviews \in Nat /\ intentions[i].focus \in Nat
           /\ reviewed[i].all \in Nat /\ reviewed[i].calm \in Nat
           /\ i \in 1..Len(reviewed) /\ i \in Nat
<1>1. intentions[i] \in IntentionRow /\ reviewed[i] \in Count
  BY DEF IntentionTypes
<1>2. intentions[i].reviews \in Nat /\ intentions[i].focus \in Nat
  BY <1>1 DEF IntentionRow
<1>3. reviewed[i].all \in Nat /\ reviewed[i].calm \in Nat
  BY <1>1 DEF Count
<1>4. i \in 1..Len(reviewed) /\ i \in Nat
  BY DEF IntentionTypes
<1> QED BY <1>1, <1>2, <1>3, <1>4

\* Who reviews an intention after turn t went on with c.
LEMMA ReviewersMove ==
    ASSUME NEW t \in Turns, NEW c, Moves(t, c), NEW i, IsFiniteSet(Reviewing(i))
    PROVE  /\ IsFiniteSet(Reviewing(i)')
           /\ Cardinality(Reviewing(i)) \in Nat /\ Cardinality(Reviewing(i)') \in Nat
           /\ Cardinality(Reviewing(i)') <= Cardinality(Reviewing(i)) + 1
           /\ c.at # "intention" \/ c.do # "review" =>
                Cardinality(Reviewing(i)') <= Cardinality(Reviewing(i))
           /\ c.at # "intention" /\ t \in Reviewing(i) =>
                Cardinality(Reviewing(i)') + 1 <= Cardinality(Reviewing(i))
<1> DEFINE R == Reviewing(i)
           S == R \ {t}
<1>1. \A u \in Turns \ {t} : u \in Reviewing(i)' <=> u \in R
  BY DEF Reviewing, Moves, Same
<1>2. R \subseteq Turns /\ Reviewing(i)' \subseteq Turns
  BY DEF Reviewing
<1>3. t \in Reviewing(i)' => c.at = "intention" /\ c.do = "review"
  BY DEF Reviewing, Moves
<1>4. Reviewing(i)' = S \/ Reviewing(i)' = S \cup {t}
  BY <1>1, <1>2
<1> HIDE DEF R
<1>5. /\ IsFiniteSet(S) /\ Cardinality(S) \in Nat /\ Cardinality(R) \in Nat
      /\ Cardinality(S) = IF t \in R THEN Cardinality(R) - 1 ELSE Cardinality(R)
  <2>1. IsFiniteSet(R)
    BY DEF R
  <2> QED BY <2>1, FS_RemoveElement, FS_CardinalityType
<1>6. /\ IsFiniteSet(S \cup {t}) /\ Cardinality(S \cup {t}) = Cardinality(S) + 1
  <2>1. t \notin S
    OBVIOUS
  <2> QED BY <1>5, <2>1, FS_AddElement
<1>7. CASE Reviewing(i)' = S
  BY <1>5, <1>7 DEF R
<1>8. CASE Reviewing(i)' = S \cup {t}
  <2>1. t \in Reviewing(i)'
    BY <1>8
  <2> QED BY <1>3, <1>5, <1>6, <1>8, <2>1 DEF R
<1> QED BY <1>4, <1>7, <1>8

LEMMA IntendingOthers ==
    ASSUME IntentionsInv, CommandsOK, NEW t \in Turns, NEW c, Moves(t, c), IntentionTypes',
           Len(foci) <= Len(foci'), Len(intentions) <= Len(intentions'),
           \A i \in 1..Len(intentions) :
              /\ reviewed[i].all <= reviewed'[i].all
              /\ reviewed'[i].calm = reviewed[i].calm \/ command[t].alone,
           command[t].at # "idle" \/ (intentions' = intentions /\ reviewed' = reviewed),
           NEW u \in Turns \ {t}
    PROVE  Intending(u)'
<1>1. Same(u) /\ Intending(u) /\ command[u] \in Command /\ command[t] \in Command
  BY CommandIs DEF IntentionsInv, Moves
<1>2. /\ Len(foci) \in Nat /\ Len(foci') \in Nat /\ Len(intentions) \in Nat
      /\ Len(intentions') \in Nat
  BY DEF IntentionsInv, IntentionTypes
<1>3. command'[u].at = "create" => command'[u].target <= Len(foci')
  <2>1. command[u].target \in Nat
    BY <1>1 DEF Command
  <2> QED BY <1>1, <1>2, <2>1 DEF Same, Intending
<1>4. command'[u].at = "link" => command'[u].target \in 1..Len(intentions')
  BY <1>1, <1>2 DEF Same, Intending
<1>5. ASSUME command'[u].at = "intention"
      PROVE  /\ command'[u].target \in 1..Len(intentions') /\ command'[u].do \in IntentionDeeds
             /\ Len(command'[u].left) = 1 /\ command'[u].left[1] \in Asked(command'[u].do)
             /\ command'[u].seen <= reviewed'[command'[u].target].all
             /\ reviewed'[command'[u].target].calm <= command'[u].seen
             /\ command'[u].alone => command'[u].seen = intentions'[command'[u].target].reviews
  <2>1. PICK i : i = command[u].target
    OBVIOUS
  <2>2. /\ command[u].at = "intention" /\ i \in 1..Len(intentions)
        /\ command'[u].target = i /\ command'[u].seen = command[u].seen
        /\ command[u].do \in IntentionDeeds
        /\ Len(command[u].left) = 1 /\ command[u].left[1] \in Asked(command[u].do)
        /\ command[u].seen <= reviewed[i].all /\ reviewed[i].calm <= command[u].seen
        /\ command[u].alone => command[u].seen = intentions[i].reviews
    BY <1>1, <1>5, <2>1 DEF Same, Intending
  <2>3. command[u].seen \in Nat /\ reviewed[i].all \in Nat /\ i \in 1..Len(intentions')
    BY <1>1, <1>2, <2>2, RowsAre DEF Command, IntentionsInv
  <2>4. reviewed'[i].all \in Nat
    <3>1. reviewed' \in Seq(Count) /\ i \in 1..Len(reviewed')
      BY <2>3 DEF IntentionTypes
    <3>2. reviewed'[i] \in Count
      BY <3>1
    <3> QED BY <3>2 DEF Count
  <2>5. reviewed'[i].calm = reviewed[i].calm
    <3>1. CASE command[t].alone /\ command[t].at # "idle"
      BY <2>2, <3>1 DEF CommandsOK, Alone
    <3>2. CASE command[t].at = "idle"
      BY <3>2
    <3> QED BY <2>2, <3>1, <3>2
  <2>6. command'[u].alone => intentions' = intentions
    BY <1>1, <2>2 DEF Same, CommandsOK, Alone
  <2>7. command'[u].alone => command'[u].seen = intentions'[i].reviews
    BY <1>1, <2>2, <2>6 DEF Same
  <2> QED BY <1>1, <2>2, <2>3, <2>4, <2>5, <2>7 DEF Same
<1> QED BY <1>3, <1>4, <1>5 DEF Intending

\* A step that writes no intention; a review is begun only by a command that is given.
LEMMA IntentionsQuiet ==
    ASSUME IntentionsInv, CommandsOK, NEW t \in Turns, NEW c, Moves(t, c),
           intentions' = intentions, reviewed' = reviewed,
           Len(foci') \in Nat, Len(foci) <= Len(foci'),
           \/ given' = given /\ (c.at # "intention" \/ c.do # "review")
           \/ given' = given + 1,
           Intending(t)'
    PROVE  IntentionsInv'
<1>1. IntentionTypes'
  BY DEF IntentionsInv, IntentionTypes
<1>2. Len(foci) \in Nat /\ given \in Nat
  BY DEF IntentionsInv, IntentionTypes, CommandsOK, CommandTypes
<1>3. ASSUME NEW i \in 1..Len(intentions) PROVE IntentionOK(i)'
  <2>1. IntentionOK(i) /\ reviewed[i].all \in Nat /\ intentions[i].focus \in Nat
    BY RowsAre DEF IntentionsInv
  <2>2. /\ IsFiniteSet(Reviewing(i)')
        /\ Cardinality(Reviewing(i)) \in Nat /\ Cardinality(Reviewing(i)') \in Nat
        /\ Cardinality(Reviewing(i)') <= Cardinality(Reviewing(i)) + 1
        /\ c.at # "intention" \/ c.do # "review" =>
             Cardinality(Reviewing(i)') <= Cardinality(Reviewing(i))
    BY <2>1, ReviewersMove DEF IntentionOK
  <2>3. reviewed[i].all + Cardinality(Reviewing(i)) <= given
    BY <2>1 DEF IntentionOK
  <2>4. reviewed[i].all + Cardinality(Reviewing(i)') <= given'
    <3>1. PICK x \in Nat : x = Cardinality(Reviewing(i))
      BY <2>2
    <3>2. PICK y \in Nat : y = Cardinality(Reviewing(i)')
      BY <2>2
    <3>3. PICK a \in Nat : a = reviewed[i].all
      BY <2>1
    <3>4. /\ y <= x + 1 /\ a + x <= given
          /\ c.at # "intention" \/ c.do # "review" => y <= x
      BY <2>2, <2>3, <3>1, <3>2, <3>3
    <3>5. a + y <= given'
      <4>1. CASE given' = given /\ (c.at # "intention" \/ c.do # "review")
        BY <1>2, <3>4, <4>1
      <4>2. CASE given' = given + 1
        BY <1>2, <3>4, <4>2
      <4> QED BY <4>1, <4>2
    <3> QED BY <3>2, <3>3, <3>5
  <2>5. intentions[i].focus <= Len(foci')
    BY <1>2, <2>1 DEF IntentionOK
  <2> QED BY <2>1, <2>2, <2>4, <2>5 DEF IntentionOK
<1>4. ASSUME NEW u \in Turns \ {t} PROVE Intending(u)'
  <2>1. Len(intentions) <= Len(intentions')
    BY DEF IntentionsInv, IntentionTypes
  <2>2. \A i \in 1..Len(intentions) :
           /\ reviewed[i].all <= reviewed'[i].all
           /\ reviewed'[i].calm = reviewed[i].calm \/ command[t].alone
    BY RowsAre DEF IntentionsInv
  <2> QED BY <1>1, <2>1, <2>2, IntendingOthers
<1> QED BY <1>1, <1>3, <1>4 DEF IntentionsInv

\* The focuses are left by a command of volition.
LEMMA VolitionQuiet ==
    ASSUME FociInv, CommandsOK, NEW t \in Turns, NEW c, Moves(t, c),
           UNCHANGED focusVars, deaths' = deaths,
           given' = given \/ (given < MaxOps /\ given' = given + 1),
           command[t].at # "start_edge", c.at \in {"idle", "create", "intention", "link"}
    PROVE  FociInv' /\ CommandsOK'
<1>1. Setting(t)' /\ Changing(t)'
  BY DEF Moves, Setting, Changing
<1>2. CommandsOK'
  BY CommandsMove
<1> QED BY <1>1, <1>2, QuietKeeps

\* No step of a focus command changes what the intentions are.
LEMMA FocusLeavesIntentions ==
    ASSUME IntentionsInv, FociInv', CommandsOK, NEW t \in Turns, FocusMoves(t),
           intentions' = intentions, reviewed' = reviewed
    PROVE  IntentionsInv'
<1>1. PICK c : Moves(t, c) /\ c.at \notin {"create", "intention", "link"}
  BY DEF FocusMoves
<1>2. Intending(t)'
  BY <1>1 DEF Moves, Intending
<1>3. Len(foci') \in Nat /\ Len(foci) <= Len(foci')
  BY DEF FocusMoves, FociInv, FociRows
<1> QED BY <1>1, <1>2, <1>3, IntentionsQuiet DEF FocusMoves

\* Every invariant of the organs.
OrgansInv == FociInv /\ CommandsOK /\ IntentionsInv

LEMMA FocusStepKeeps ==
    ASSUME OrgansInv, NEW t \in Turns, FocusStep(t)
    PROVE  OrgansInv'
<1>1. FociInv /\ CommandsOK /\ IntentionsInv
  BY DEF OrgansInv
<1>2. CASE \E do \in SetActions : BeginSet(t, do)
  BY <1>1, <1>2, BeginSetKeeps, FocusLeavesIntentions DEF OrgansInv, BeginSet
<1>3. CASE CloseOld(t)
  BY <1>1, <1>3, CloseOldKeeps, FocusLeavesIntentions DEF OrgansInv, CloseOld
<1>4. CASE Create(t)
  BY <1>1, <1>4, CreateKeeps, FocusLeavesIntentions DEF OrgansInv, Create
<1>5. CASE StartEdge(t)
  BY <1>1, <1>5, StartEdgeKeeps, FocusLeavesIntentions DEF OrgansInv, StartEdge
<1>6. CASE \E do \in KeepActions \cup DOMAIN FocusEnd, id \in 0..Len(foci) :
              BeginFocus(t, do, id)
  BY <1>1, <1>6, BeginFocusKeeps, FocusLeavesIntentions DEF OrgansInv, BeginFocus
<1>7. CASE Keep(t)
  BY <1>1, <1>7, KeepKeeps, FocusLeavesIntentions DEF OrgansInv, Keep
<1>8. CASE Close(t)
  BY <1>1, <1>8, CloseKeeps, FocusLeavesIntentions DEF OrgansInv, Close
<1>9. CASE Edge(t)
  BY <1>1, <1>9, EdgeKeeps, FocusLeavesIntentions DEF OrgansInv, Edge
<1> QED BY <1>2, <1>3, <1>4, <1>5, <1>6, <1>7, <1>8, <1>9 DEF FocusStep

-----------------------------------------------------------------------------
(* Volition steps *)

\* A suggestion, or a step of something else: the rows and the commands stay.
LEMMA StillKeeps ==
    ASSUME OrgansInv, UNCHANGED <<foci, recency, edges, intentions, command, deaths, excused,
                                  reviewed>>,
           given' = given \/ (given < MaxOps /\ given' = given + 1)
    PROVE  OrgansInv'
<1>1. FociInv /\ CommandsOK /\ IntentionsInv
  BY DEF OrgansInv
<1>2. /\ foci' = foci /\ recency' = recency /\ edges' = edges /\ intentions' = intentions
      /\ command' = command /\ deaths' = deaths /\ excused' = excused /\ reviewed' = reviewed
  OBVIOUS
<1>3. given \in Nat /\ given' \in 0..MaxOps /\ given <= given'
  BY <1>1, FocusBounds DEF CommandsOK, CommandTypes
<1>4. CommandsOK'
  BY <1>1, <1>2, <1>3 DEF CommandsOK, CommandTypes, Alone
<1>5. FociInv'
  <2>1. FociRows' /\ RevivedExcused' /\ EdgesOK' /\ Unexcused'
    BY <1>1, <1>2 DEF FociInv, FociRows, Orders, RevivedExcused, EdgesOK, Unexcused, FocusIds
  <2>2. Started'
    BY <1>1, <1>2 DEF FociInv, Started, FocusIds, StartsOf
  <2>3. ASSUME NEW t \in Turns PROVE Setting(t)' /\ Starting(t)' /\ Changing(t)'
    BY <1>1, <1>2
       DEF FociInv, Setting, Starting, Changing, FocusIds, StartsOf, InForeground
  <2> QED BY <2>1, <2>2, <2>3 DEF FociInv
<1>6. IntentionsInv'
  <2>1. IntentionTypes' /\ \A t \in Turns : Intending(t)'
    BY <1>1, <1>2 DEF IntentionsInv, IntentionTypes, Intending
  <2>2. ASSUME NEW i \in 1..Len(intentions) PROVE IntentionOK(i)'
    <3>1. IntentionOK(i) /\ reviewed[i].all \in Nat /\ Reviewing(i)' = Reviewing(i)
      BY <1>1, <1>2, RowsAre DEF IntentionsInv, Reviewing
    <3>2. Cardinality(Reviewing(i)) \in Nat
      BY <3>1, FS_CardinalityType DEF IntentionOK
    <3>3. reviewed[i].all + Cardinality(Reviewing(i)) <= given'
      BY <1>3, <3>1, <3>2 DEF IntentionOK
    <3> QED BY <1>2, <3>1, <3>3 DEF IntentionOK
  <2> QED BY <1>2, <2>1, <2>2 DEF IntentionsInv
<1> QED BY <1>4, <1>5, <1>6 DEF OrgansInv

LEMMA BeginCreateKeeps ==
    ASSUME OrgansInv, NEW t \in Turns, BeginCreateIntention(t)
    PROVE  OrgansInv'
<1>1. FociInv /\ CommandsOK /\ IntentionsInv
  BY DEF OrgansInv
<1>2. PICK cmd : cmd = [Idle EXCEPT !.at = "create", !.do = "create", !.target = ActiveFocus]
  OBVIOUS
<1>3. ActiveFocus \in 0..Len(foci) /\ Len(foci) \in Nat
  BY <1>1, ActiveIs DEF FociInv, FociRows
<1>4. cmd \in Command /\ cmd.at = "create" /\ cmd.target = ActiveFocus
  <2>1. "create" \in Stages /\ "create" \in Deeds /\ ActiveFocus \in Nat
    BY <1>3 DEF Stages, Deeds
  <2> QED BY <1>2, <2>1, IdleIs DEF Command
<1>5. /\ Take(t, cmd) /\ UNCHANGED focusVars /\ deaths' = deaths
      /\ foci' = foci /\ intentions' = intentions /\ reviewed' = reviewed
  BY <1>2 DEF BeginCreateIntention, focusVars
<1>6. /\ command[t].at = "idle" /\ given < MaxOps /\ given' = given + 1
      /\ \E c : Moves(t, c) /\ c.at = cmd.at /\ c.target = cmd.target
  BY <1>1, <1>4, <1>5, TakenUp
<1>7. PICK c : Moves(t, c) /\ c.at = "create" /\ c.target = ActiveFocus
  BY <1>4, <1>6
<1>8. FociInv' /\ CommandsOK'
  BY <1>1, <1>5, <1>6, <1>7, VolitionQuiet
<1>9. Intending(t)'
  BY <1>3, <1>5, <1>7 DEF Moves, Intending
<1>10. IntentionsInv'
  BY <1>1, <1>3, <1>5, <1>6, <1>7, <1>9, IntentionsQuiet
<1> QED BY <1>8, <1>10 DEF OrgansInv

LEMMA BeginIntentionKeeps ==
    ASSUME OrgansInv, NEW t \in Turns, NEW do \in IntentionDeeds,
           NEW i \in 1..Len(intentions), NEW status, BeginIntention(t, do, i, status)
    PROVE  OrgansInv'
<1>1. FociInv /\ CommandsOK /\ IntentionsInv
  BY DEF OrgansInv
<1>2. PICK cmd : cmd = [Idle EXCEPT !.at = "intention", !.do = do, !.target = i,
                                    !.read = intentions[i].status,
                                    !.seen = intentions[i].reviews, !.left = <<status>>]
  OBVIOUS
<1>3. /\ intentions[i] \in IntentionRow /\ intentions[i].reviews \in Nat
      /\ reviewed[i].all \in Nat /\ reviewed[i].calm \in Nat /\ i \in Nat
      /\ reviewed[i].calm <= intentions[i].reviews /\ intentions[i].reviews <= reviewed[i].all
  BY <1>1, RowsAre DEF IntentionsInv, IntentionOK
<1>4. intentions[i].status \in Statuses
  BY <1>3 DEF IntentionRow, Statuses, Open
<1>5. status \in Asked(do)
  BY DEF BeginIntention
<1>6. status \in Statuses
  <2>1. CASE do \in {"update", "review", "defer"}
    BY <1>5, <2>1 DEF Asked, Open, Statuses
  <2>2. CASE do \in DOMAIN IntentionEnd
    BY <1>5, <2>2 DEF Asked, IntentionEnd, Statuses
  <2> QED BY <2>1, <2>2 DEF IntentionDeeds
<1>7. /\ cmd \in Command /\ cmd.at = "intention" /\ cmd.do = do /\ cmd.target = i
      /\ cmd.seen = intentions[i].reviews /\ cmd.left = <<status>>
  <2>1. "intention" \in Stages /\ do \in Deeds
    BY DEF Stages, Deeds, IntentionDeeds, IntentionEnd
  <2>2. <<status>> \in Seq(Nat \cup Statuses)
    BY <1>6
  <2> QED BY <1>2, <1>3, <1>4, <2>1, <2>2, IdleIs DEF Command
<1>8. /\ Take(t, cmd) /\ UNCHANGED focusVars /\ deaths' = deaths
      /\ foci' = foci /\ intentions' = intentions /\ reviewed' = reviewed
  BY <1>2 DEF BeginIntention, focusVars
<1>9. /\ command[t].at = "idle" /\ given < MaxOps /\ given' = given + 1
      /\ \E c : /\ Moves(t, c) /\ c.at = cmd.at /\ c.do = cmd.do /\ c.target = cmd.target
                /\ c.seen = cmd.seen /\ c.left = cmd.left
  BY <1>1, <1>7, <1>8, TakenUp
<1>10. PICK c : /\ Moves(t, c) /\ c.at = "intention" /\ c.do = do /\ c.target = i
                /\ c.seen = intentions[i].reviews /\ c.left = <<status>>
  BY <1>7, <1>9
<1>11. FociInv' /\ CommandsOK'
  BY <1>1, <1>8, <1>9, <1>10, VolitionQuiet
<1>12. Intending(t)'
  <2>1. command'[t] = c /\ Len(<<status>>) = 1 /\ <<status>>[1] = status
    BY <1>10 DEF Moves
  <2> QED BY <1>3, <1>5, <1>8, <1>10, <2>1 DEF Intending
<1>13. Len(foci) \in Nat
  BY <1>1 DEF IntentionsInv, IntentionTypes
<1>14. IntentionsInv'
  BY <1>1, <1>8, <1>9, <1>10, <1>12, <1>13, IntentionsQuiet
<1> QED BY <1>11, <1>14 DEF OrgansInv

LEMMA CreateIntentionKeeps ==
    ASSUME OrgansInv, NEW t \in Turns, CreateIntention(t)
    PROVE  OrgansInv'
<1>1. FociInv /\ CommandsOK /\ IntentionsInv
  BY DEF OrgansInv
<1>2. PICK n, row, count :
         /\ n = Len(intentions) + 1
         /\ row = [status |-> "active", closed |-> FALSE, reviews |-> 0, links |-> 0,
                   focus |-> command[t].target]
         /\ count = [all |-> 0, calm |-> 0]
  OBVIOUS
<1>3. /\ command[t].at = "create" /\ intentions' = Append(intentions, row)
      /\ reviewed' = Append(reviewed, count)
      /\ command' = [command EXCEPT ![t].at = "link", ![t].target = n]
      /\ UNCHANGED focusVars /\ foci' = foci /\ given' = given /\ deaths' = deaths
  BY <1>2 DEF CreateIntention, focusVars
<1>4. /\ intentions \in Seq(IntentionRow) /\ reviewed \in Seq(Count)
      /\ Len(reviewed) = Len(intentions) /\ Len(intentions) \in Nat /\ n \in Nat
      /\ Len(foci) \in Nat /\ given \in Nat
  BY <1>1, <1>2 DEF IntentionsInv, IntentionTypes, CommandsOK, CommandTypes
<1>5. command[t].target \in Nat /\ command[t].target <= Len(foci)
  BY <1>1, <1>3, CommandIs DEF IntentionsInv, Intending, Command
<1>6. /\ row \in IntentionRow /\ row.status = "active" /\ row.focus = command[t].target
      /\ row.reviews = 0 /\ count \in Count /\ count.all = 0 /\ count.calm = 0
  BY <1>2, <1>5 DEF IntentionRow, Count, Open
<1>7. PICK c : c = [command[t] EXCEPT !.at = "link", !.target = n]
  OBVIOUS
<1>8. c \in Command /\ c.at = "link" /\ c.target = n /\ c.alone = command[t].alone
  BY <1>1, <1>4, <1>7, CommandIs DEF Command, Stages
<1>9. command' = [command EXCEPT ![t] = c]
  BY <1>1, <1>3, <1>7, CommandIs
<1>10. Moves(t, c) /\ command'[t] = c
  BY <1>1, <1>3, <1>8, <1>9, MovedOn DEF Moves
<1>11. FociInv' /\ CommandsOK'
  BY <1>1, <1>3, <1>8, <1>10, VolitionQuiet
<1>12. /\ intentions' \in Seq(IntentionRow) /\ reviewed' \in Seq(Count)
       /\ Len(intentions') = n /\ Len(reviewed') = n
       /\ intentions'[n] = row /\ reviewed'[n] = count
       /\ \A i \in 1..Len(intentions) :
             i # n /\ intentions'[i] = intentions[i] /\ reviewed'[i] = reviewed[i]
       /\ \A i \in 1..n : i = n \/ i \in 1..Len(intentions)
  BY <1>2, <1>3, <1>4, <1>6
<1>13. IntentionTypes'
  BY <1>3, <1>4, <1>12 DEF IntentionTypes
<1>14. ASSUME NEW i \in 1..Len(intentions) PROVE IntentionOK(i)'
  <2>1. /\ IntentionOK(i) /\ reviewed[i].all \in Nat
    BY <1>1, RowsAre DEF IntentionsInv
  <2>2. /\ IsFiniteSet(Reviewing(i)')
        /\ Cardinality(Reviewing(i)) \in Nat /\ Cardinality(Reviewing(i)') \in Nat
        /\ Cardinality(Reviewing(i)') <= Cardinality(Reviewing(i))
    BY <1>8, <1>10, <2>1, ReviewersMove DEF IntentionOK
  <2>3. reviewed[i].all + Cardinality(Reviewing(i)) <= given
    BY <2>1 DEF IntentionOK
  <2>4. reviewed[i].all + Cardinality(Reviewing(i)') <= given
    BY <1>4, <2>1, <2>2, <2>3
  <2> QED BY <1>3, <1>12, <2>1, <2>2, <2>4 DEF IntentionOK
<1>15. IntentionOK(n)'
  <2>1. Reviewing(n)' = {}
    <3> SUFFICES ASSUME NEW u \in Turns, command'[u].at = "intention", command'[u].target = n
                 PROVE  FALSE
      BY DEF Reviewing
    <3>1. u # t
      BY <1>8, <1>10
    <3>2. command[u].at = "intention" /\ command[u].target = n
      BY <1>10, <3>1 DEF Moves, Same
    <3>3. n \in 1..Len(intentions)
      BY <1>1, <3>2 DEF IntentionsInv, Intending
    <3> QED BY <1>2, <1>4, <3>3
  <2>2. IsFiniteSet({}) /\ Cardinality({}) = 0
    BY FS_EmptySet
  <2>3. reviewed'[n].all + Cardinality(Reviewing(n)') <= given'
    BY <1>3, <1>4, <1>6, <1>12, <2>1, <2>2
  <2> QED BY <1>3, <1>5, <1>6, <1>12, <2>1, <2>2, <2>3 DEF IntentionOK, Open
<1>16. ASSUME NEW u \in Turns \ {t} PROVE Intending(u)'
  <2>1. \A i \in 1..Len(intentions) :
           /\ reviewed[i].all <= reviewed'[i].all
           /\ reviewed'[i].calm = reviewed[i].calm \/ command[t].alone
    BY <1>1, <1>12, RowsAre DEF IntentionsInv
  <2>2. command[t].at # "idle" /\ Len(intentions) <= Len(intentions') /\ Len(foci) <= Len(foci')
    BY <1>2, <1>3, <1>4, <1>12
  <2> QED BY <1>1, <1>10, <1>13, <2>1, <2>2, IntendingOthers
<1>17. Intending(t)'
  BY <1>4, <1>2, <1>8, <1>10, <1>12 DEF Intending
<1>18. IntentionsInv'
  BY <1>12, <1>13, <1>14, <1>15, <1>16, <1>17 DEF IntentionsInv
<1> QED BY <1>11, <1>18 DEF OrgansInv

\* What turn t writes to the row of intention i, and the reviews it has answered with it.
Writes(t, c, i, row, count) ==
    /\ i \in 1..Len(intentions)
    /\ row \in IntentionRow /\ row.focus = intentions[i].focus
    /\ row.status \notin Open => row.closed
    /\ intentions' = [intentions EXCEPT ![i] = row]
    /\ count \in Count /\ Len(reviewed') = Len(reviewed) /\ reviewed' \in Seq(Count)
    /\ reviewed'[i] = count
    /\ \A j \in 1..Len(intentions) : j # i => reviewed'[j] = reviewed[j]
    /\ count.calm <= row.reviews /\ row.reviews <= count.all
    /\ count.calm = reviewed[i].calm \/ command[t].alone
    /\ \/ count.all = reviewed[i].all
       \/ count.all = reviewed[i].all + 1 /\ t \in Reviewing(i)
    /\ foci' = foci /\ given' = given
    /\ command[t].at # "idle" /\ i = command[t].target
    /\ c.at = "idle" \/ (c.at = "link" /\ c.target = i)

\* A command writes the row of an intention, and counts a review it has answered.
LEMMA IntentionWritten ==
    ASSUME IntentionsInv, CommandsOK, NEW t \in Turns, NEW c, Moves(t, c),
           NEW i, NEW row, NEW count, Writes(t, c, i, row, count)
    PROVE  IntentionsInv'
<1>0. /\ i \in 1..Len(intentions)
      /\ row \in IntentionRow /\ row.focus = intentions[i].focus
      /\ row.status \notin Open => row.closed
      /\ intentions' = [intentions EXCEPT ![i] = row]
      /\ count \in Count /\ Len(reviewed') = Len(reviewed) /\ reviewed' \in Seq(Count)
      /\ reviewed'[i] = count
      /\ \A j \in 1..Len(intentions) : j # i => reviewed'[j] = reviewed[j]
      /\ count.calm <= row.reviews /\ row.reviews <= count.all
      /\ count.calm = reviewed[i].calm \/ command[t].alone
      /\ \/ count.all = reviewed[i].all
         \/ count.all = reviewed[i].all + 1 /\ t \in Reviewing(i)
      /\ foci' = foci /\ given' = given
      /\ command[t].at # "idle" /\ i = command[t].target
      /\ c.at = "idle" \/ (c.at = "link" /\ c.target = i)
  BY DEF Writes
<1>1. /\ intentions \in Seq(IntentionRow) /\ Len(reviewed) = Len(intentions)
      /\ Len(intentions) \in Nat /\ Len(foci) \in Nat /\ given \in Nat
      /\ \A j \in 1..Len(intentions) : IntentionOK(j) /\ reviewed[j].all \in Nat
      /\ count.all \in Nat
  <2>1. IntentionTypes /\ CommandTypes /\ \A j \in 1..Len(intentions) : IntentionOK(j)
    BY DEF IntentionsInv, CommandsOK
  <2>2. \A j \in 1..Len(intentions) : reviewed[j].all \in Nat
    BY <2>1, RowsAre
  <2>3. /\ intentions \in Seq(IntentionRow) /\ Len(reviewed) = Len(intentions)
        /\ Len(intentions) \in Nat /\ Len(foci) \in Nat
    BY <2>1 DEF IntentionTypes
  <2>4. given \in Nat /\ count.all \in Nat
    BY <1>0, <2>1 DEF CommandTypes, Count
  <2> QED BY <2>1, <2>2, <2>3, <2>4
<1>2. /\ intentions' \in Seq(IntentionRow) /\ Len(intentions') = Len(intentions)
      /\ intentions'[i] = row
      /\ \A j \in 1..Len(intentions) : j # i => intentions'[j] = intentions[j]
  BY <1>0, <1>1
<1>3. IntentionTypes'
  BY <1>0, <1>1, <1>2 DEF IntentionTypes
<1>4. ASSUME NEW j \in 1..Len(intentions) PROVE IntentionOK(j)'
  <2>1. /\ IsFiniteSet(Reviewing(j)')
        /\ Cardinality(Reviewing(j)) \in Nat /\ Cardinality(Reviewing(j)') \in Nat
        /\ Cardinality(Reviewing(j)') <= Cardinality(Reviewing(j))
        /\ t \in Reviewing(j) => Cardinality(Reviewing(j)') + 1 <= Cardinality(Reviewing(j))
    BY <1>0, <1>1, ReviewersMove DEF IntentionOK
  <2>2. reviewed[j].all + Cardinality(Reviewing(j)) <= given
    BY <1>0, <1>1 DEF IntentionOK
  <2>3. reviewed'[j].all + Cardinality(Reviewing(j)') <= given
    <3>1. PICK x, y, a, b : /\ x = Cardinality(Reviewing(j)) /\ y = Cardinality(Reviewing(j)')
                            /\ a = reviewed[j].all /\ b = reviewed'[j].all
      OBVIOUS
    <3>2. b = a \/ (b = a + 1 /\ t \in Reviewing(j))
      BY <1>0, <3>1
    <3>3. /\ x \in Nat /\ y \in Nat /\ a \in Nat /\ a + x <= given /\ y <= x
          /\ t \in Reviewing(j) => y + 1 <= x
      BY <1>0, <1>1, <2>1, <2>2, <3>1
    <3>4. b + y <= given
      BY <1>0, <1>1, <3>2, <3>3
    <3> QED BY <3>1, <3>4
  <2>4. CASE j = i
    BY <1>0, <1>1, <1>2, <2>1, <2>3, <2>4 DEF IntentionOK
  <2>5. CASE j # i
    BY <1>0, <1>1, <1>2, <2>1, <2>3, <2>5 DEF IntentionOK
  <2> QED BY <2>4, <2>5
<1>5. ASSUME NEW u \in Turns \ {t} PROVE Intending(u)'
  <2>1. \A j \in 1..Len(intentions) :
           /\ reviewed[j].all <= reviewed'[j].all
           /\ reviewed'[j].calm = reviewed[j].calm \/ command[t].alone
    BY <1>0, <1>1
  <2>2. Len(intentions) <= Len(intentions') /\ Len(foci) <= Len(foci')
    BY <1>0, <1>1, <1>2
  <2> QED BY <1>0, <1>3, <2>1, <2>2, IntendingOthers
<1>6. Intending(t)'
  BY <1>0, <1>2 DEF Intending, Moves
<1> QED BY <1>0, <1>2, <1>3, <1>4, <1>5, <1>6 DEF IntentionsInv

\* What a command that changes an intention holds.
LEMMA IntendedIs ==
    ASSUME OrgansInv, NEW t \in Turns, command[t].at = "intention"
    PROVE  \E i, do, asked :
             /\ i = command[t].target /\ do = command[t].do /\ asked = command[t].left[1]
             /\ i \in 1..Len(intentions) /\ do \in IntentionDeeds /\ asked \in Asked(do)
             /\ StatusOf(t, i) = intentions[i].status \/ (asked # "none" /\ StatusOf(t, i) = asked)
             /\ command[t].seen \in Nat /\ command[t].seen <= reviewed[i].all
             /\ reviewed[i].calm <= command[t].seen
             /\ intentions[i] \in IntentionRow /\ reviewed[i] \in Count
             /\ intentions[i].reviews \in Nat
             /\ reviewed[i].all \in Nat /\ reviewed[i].calm \in Nat
             /\ intentions[i].status \notin Open => intentions[i].closed
             /\ reviewed[i].calm <= intentions[i].reviews
             /\ intentions[i].reviews <= reviewed[i].all
<1>1. PICK i, do, asked :
         i = command[t].target /\ do = command[t].do /\ asked = command[t].left[1]
  OBVIOUS
<1>2. /\ i \in 1..Len(intentions) /\ do \in IntentionDeeds /\ asked \in Asked(do)
      /\ command[t].seen <= reviewed[i].all /\ reviewed[i].calm <= command[t].seen
  BY <1>1 DEF OrgansInv, IntentionsInv, Intending
<1>3. StatusOf(t, i) = intentions[i].status \/ (asked # "none" /\ StatusOf(t, i) = asked)
  BY <1>1 DEF StatusOf, Column
<1>4. command[t].seen \in Nat
  BY CommandIs DEF OrgansInv, Command
<1>5. /\ intentions[i] \in IntentionRow /\ reviewed[i] \in Count
      /\ intentions[i].reviews \in Nat
      /\ reviewed[i].all \in Nat /\ reviewed[i].calm \in Nat
  BY <1>2, RowsAre DEF OrgansInv, IntentionsInv
<1>6. /\ intentions[i].status \notin Open => intentions[i].closed
      /\ reviewed[i].calm <= intentions[i].reviews
      /\ intentions[i].reviews <= reviewed[i].all
  BY <1>2 DEF OrgansInv, IntentionsInv, IntentionOK
<1> QED BY <1>1, <1>2, <1>3, <1>4, <1>5, <1>6

LEMMA WriteIntentionKeeps ==
    ASSUME OrgansInv, NEW t \in Turns, WriteIntention(t)
    PROVE  OrgansInv'
<1>1. FociInv /\ CommandsOK /\ IntentionsInv
  BY DEF OrgansInv
<1>2. command[t].at = "intention"
  BY DEF WriteIntention
<1>3. PICK i, do, asked :
         /\ i = command[t].target /\ do = command[t].do /\ asked = command[t].left[1]
         /\ i \in 1..Len(intentions) /\ do \in IntentionDeeds /\ asked \in Asked(do)
         /\ StatusOf(t, i) = intentions[i].status \/ (asked # "none" /\ StatusOf(t, i) = asked)
         /\ command[t].seen \in Nat /\ command[t].seen <= reviewed[i].all
         /\ reviewed[i].calm <= command[t].seen
         /\ intentions[i] \in IntentionRow /\ reviewed[i] \in Count
         /\ intentions[i].reviews \in Nat
         /\ reviewed[i].all \in Nat /\ reviewed[i].calm \in Nat
         /\ intentions[i].status \notin Open => intentions[i].closed
         /\ reviewed[i].calm <= intentions[i].reviews
         /\ intentions[i].reviews <= reviewed[i].all
  BY <1>2, IntendedIs
<1>4. PICK status, seen, reviews, row :
         /\ status = StatusOf(t, i) /\ seen = command[t].seen
         /\ reviews = IF do = "review" THEN seen + 1 ELSE intentions[i].reviews
         /\ row = [intentions[i] EXCEPT !.status = status, !.reviews = reviews]
  OBVIOUS
<1>5. /\ intentions' = [intentions EXCEPT ![i].status = status,
                          ![i].reviews = IF do = "review" THEN seen + 1 ELSE @]
      /\ reviewed' = IF do = "review" THEN Reviewed(t, i) ELSE reviewed
      /\ do \notin DOMAIN IntentionEnd
      /\ IF do = "defer" THEN Finish(t) ELSE Goto(t, "link")
      /\ UNCHANGED focusVars /\ foci' = foci /\ given' = given /\ deaths' = deaths
  BY <1>3, <1>4 DEF WriteIntention, focusVars
<1>6. status = intentions[i].status \/ status \in Open
  <2>1. do \in {"update", "review", "defer"}
    BY <1>3, <1>5 DEF IntentionDeeds
  <2>2. asked # "none" => asked \in Open
    BY <1>3, <2>1 DEF Asked, Open
  <2> QED BY <1>3, <1>4, <2>2
<1>7. /\ row \in IntentionRow /\ row.status = status /\ row.reviews = reviews
      /\ row.closed = intentions[i].closed /\ row.focus = intentions[i].focus
      /\ reviews \in Nat
  <2>1. reviews \in Nat
    BY <1>3, <1>4
  <2>2. status \in Open \cup {"resolved", "impossible", "deprecated"}
    BY <1>3, <1>6 DEF IntentionRow
  <2> QED BY <1>3, <1>4, <2>1, <2>2 DEF IntentionRow
<1>8. /\ intentions \in Seq(IntentionRow) /\ reviewed \in Seq(Count)
      /\ Len(reviewed) = Len(intentions) /\ Len(intentions) \in Nat
  BY <1>1 DEF IntentionsInv, IntentionTypes
<1>9. intentions' = [intentions EXCEPT ![i] = row]
  BY <1>3, <1>4, <1>5, <1>8
<1>10. row.status \notin Open => row.closed
  BY <1>3, <1>6, <1>7
<1>11. PICK c : Moves(t, c) /\ (c.at = "idle" \/ (c.at = "link" /\ c.target = i))
  <2>1. CASE do = "defer"
    BY <1>1, <1>2, <1>5, <2>1, Ended, IdleIs
  <2>2. CASE do # "defer"
    <3>1. /\ CommandsOK /\ Goto(t, "link") /\ command[t].at # "idle" /\ "link" \in Stages
          /\ command[t].target = i
      BY <1>1, <1>2, <1>3, <1>5, <2>2 DEF Stages
    <3>2. \E c : Moves(t, c) /\ c.at = "link" /\ c.target = command[t].target
      BY <3>1, WentOn
    <3> QED BY <3>1, <3>2
  <2> QED BY <2>1, <2>2
<1>12. FociInv' /\ CommandsOK'
  BY <1>1, <1>2, <1>5, <1>11, VolitionQuiet
<1>13. PICK count :
         count = IF do = "review"
                 THEN [reviewed[i] EXCEPT !.all = @ + 1,
                                          !.calm = IF command[t].alone THEN @ + 1 ELSE @]
                 ELSE reviewed[i]
  OBVIOUS
<1>14. /\ count \in Count
       /\ count.all = IF do = "review" THEN reviewed[i].all + 1 ELSE reviewed[i].all
       /\ count.calm = IF do = "review" /\ command[t].alone THEN reviewed[i].calm + 1
                       ELSE reviewed[i].calm
  <2>1. CASE do # "review"
    BY <1>3, <1>13, <2>1
  <2>2. CASE do = "review"
    <3>1. PICK calm : calm = IF command[t].alone THEN reviewed[i].calm + 1 ELSE reviewed[i].calm
      OBVIOUS
    <3>2. calm \in Nat /\ reviewed[i].all + 1 \in Nat
      BY <1>3, <3>1
    <3>3. count = [reviewed[i] EXCEPT !.all = reviewed[i].all + 1, !.calm = calm]
      BY <1>3, <1>13, <2>2, <3>1 DEF Count
    <3>4. count \in Count /\ count.all = reviewed[i].all + 1 /\ count.calm = calm
      BY <1>3, <3>2, <3>3 DEF Count
    <3> QED BY <2>2, <3>1, <3>4
  <2> QED BY <2>1, <2>2
<1>15. reviewed' = [reviewed EXCEPT ![i] = count]
  <2>1. CASE do # "review"
    BY <1>3, <1>5, <1>8, <1>13, <2>1
  <2>2. CASE do = "review"
    BY <1>3, <1>5, <1>8, <1>13, <2>2 DEF Reviewed, Count
  <2> QED BY <2>1, <2>2
<1>16. /\ reviewed' \in Seq(Count) /\ Len(reviewed') = Len(reviewed) /\ reviewed'[i] = count
       /\ \A j \in 1..Len(intentions) : j # i => reviewed'[j] = reviewed[j]
  <2>1. reviewed \in Seq(Count) /\ i \in 1..Len(reviewed) /\ count \in Count
    BY <1>3, <1>8, <1>14
  <2>2. /\ reviewed' \in Seq(Count) /\ Len(reviewed') = Len(reviewed) /\ reviewed'[i] = count
        /\ \A j \in 1..Len(reviewed) : j # i => reviewed'[j] = reviewed[j]
    BY ONLY <1>15, <2>1
  <2> QED BY <1>8, <2>2
<1>17. /\ count.calm <= row.reviews /\ row.reviews <= count.all
       /\ count.calm = reviewed[i].calm \/ command[t].alone
  <2>1. PICK a, k, v : a = reviewed[i].all /\ k = reviewed[i].calm /\ v = intentions[i].reviews
    OBVIOUS
  <2>2. /\ a \in Nat /\ k \in Nat /\ v \in Nat /\ seen \in Nat
        /\ k <= seen /\ seen <= a /\ k <= v /\ v <= a
    BY <1>3, <1>4, <2>1
  <2>3. /\ row.reviews = IF do = "review" THEN seen + 1 ELSE v
        /\ count.all = IF do = "review" THEN a + 1 ELSE a
        /\ count.calm = IF do = "review" /\ command[t].alone THEN k + 1 ELSE k
    BY <1>4, <1>7, <1>14, <2>1
  <2> QED BY ONLY <2>1, <2>2, <2>3
<1>18. \/ count.all = reviewed[i].all
       \/ count.all = reviewed[i].all + 1 /\ t \in Reviewing(i)
  BY <1>2, <1>3, <1>14 DEF Reviewing
<1>19. IntentionsInv'
  <2>1. /\ command[t].at # "idle" /\ Moves(t, c)
        /\ c.at = "idle" \/ (c.at = "link" /\ c.target = i)
        /\ i = command[t].target /\ i \in 1..Len(intentions)
        /\ row \in IntentionRow /\ row.focus = intentions[i].focus
        /\ count \in Count /\ foci' = foci /\ given' = given
    BY <1>2, <1>3, <1>5, <1>7, <1>11, <1>14
  <2>2. Writes(t, c, i, row, count)
    BY <1>9, <1>10, <1>16, <1>17, <1>18, <2>1 DEF Writes
  <2> QED BY <1>1, <2>1, <2>2, IntentionWritten
<1> QED BY <1>12, <1>19 DEF OrgansInv

\* A row is written, and no review counted.
LEMMA UncountedKeeps ==
    ASSUME OrgansInv, NEW t \in Turns, command[t].at \in {"intention", "link"},
           NEW i, i = command[t].target, i \in 1..Len(intentions),
           NEW row \in IntentionRow, row.focus = intentions[i].focus,
           row.reviews = intentions[i].reviews, row.status \notin Open => row.closed,
           intentions' = [intentions EXCEPT ![i] = row], Finish(t),
           foci' = foci, recency' = recency, edges' = edges, given' = given,
           deaths' = deaths, excused' = excused, reviewed' = reviewed
    PROVE  OrgansInv'
<1>1. FociInv /\ CommandsOK /\ IntentionsInv
  BY DEF OrgansInv
<1>2. Moves(t, Idle) /\ Idle.at = "idle"
  BY <1>1, Ended, IdleIs
<1>3. UNCHANGED focusVars /\ foci' = foci /\ given' = given /\ deaths' = deaths
      /\ reviewed' = reviewed
  BY DEF focusVars
<1>4. FociInv' /\ CommandsOK'
  BY <1>1, <1>2, <1>3, VolitionQuiet
<1>5. PICK count : count = reviewed[i]
  OBVIOUS
<1>6. /\ count \in Count /\ count.calm <= row.reviews /\ row.reviews <= count.all
      /\ reviewed' \in Seq(Count)
  BY <1>1, <1>3, <1>5, RowsAre DEF IntentionsInv, IntentionOK, IntentionTypes
<1>7. Writes(t, Idle, i, row, count)
  <2>1. Len(reviewed') = Len(reviewed) /\ command[t].at # "idle" /\ reviewed'[i] = count
    BY <1>3, <1>5
  <2> QED BY <1>2, <1>3, <1>5, <1>6, <2>1 DEF Writes
<1>8. IntentionsInv'
  BY <1>1, <1>2, <1>7, IntentionWritten
<1> QED BY <1>4, <1>8 DEF OrgansInv

LEMMA CloseIntentionKeeps ==
    ASSUME OrgansInv, NEW t \in Turns, CloseIntention(t)
    PROVE  OrgansInv'
<1>1. command[t].at = "intention"
  BY DEF CloseIntention
<1>2. PICK i, do, asked :
         /\ i = command[t].target /\ do = command[t].do /\ asked = command[t].left[1]
         /\ i \in 1..Len(intentions) /\ do \in IntentionDeeds /\ asked \in Asked(do)
         /\ StatusOf(t, i) = intentions[i].status \/ (asked # "none" /\ StatusOf(t, i) = asked)
         /\ intentions[i] \in IntentionRow
  BY <1>1, IntendedIs
<1>3. PICK status, row :
         /\ status = StatusOf(t, i)
         /\ row = [intentions[i] EXCEPT !.status = status, !.closed = TRUE]
  OBVIOUS
<1>4. /\ intentions' = [intentions EXCEPT ![i].status = status, ![i].closed = TRUE]
      /\ do \in DOMAIN IntentionEnd /\ Finish(t)
      /\ foci' = foci /\ recency' = recency /\ edges' = edges /\ given' = given
      /\ deaths' = deaths /\ excused' = excused /\ reviewed' = reviewed
  BY <1>2, <1>3 DEF CloseIntention
<1>5. asked \in {"resolved", "impossible", "deprecated"}
  BY <1>2, <1>4 DEF Asked, IntentionEnd
<1>6. status \in Open \cup {"resolved", "impossible", "deprecated"}
  BY <1>2, <1>3, <1>5 DEF IntentionRow
<1>7. /\ row \in IntentionRow /\ row.closed = TRUE /\ row.focus = intentions[i].focus
      /\ row.reviews = intentions[i].reviews
  BY <1>2, <1>3, <1>6 DEF IntentionRow
<1>8. intentions' = [intentions EXCEPT ![i] = row]
  <2>1. intentions \in Seq(IntentionRow)
    BY DEF OrgansInv, IntentionsInv, IntentionTypes
  <2> QED BY <1>2, <1>3, <1>4, <2>1
<1>9. /\ command[t].at \in {"intention", "link"} /\ i = command[t].target
      /\ i \in 1..Len(intentions) /\ row \in IntentionRow /\ Finish(t)
      /\ row.focus = intentions[i].focus /\ row.reviews = intentions[i].reviews
      /\ row.status \notin Open => row.closed
      /\ foci' = foci /\ recency' = recency /\ edges' = edges /\ given' = given
      /\ deaths' = deaths /\ excused' = excused /\ reviewed' = reviewed
  BY <1>1, <1>2, <1>4, <1>7
<1> QED BY ONLY OrgansInv, t \in Turns, <1>8, <1>9, UncountedKeeps

LEMMA LinkIntentionKeeps ==
    ASSUME OrgansInv, NEW t \in Turns, LinkIntention(t)
    PROVE  OrgansInv'
<1>1. PICK i, n : /\ i = command[t].target /\ n \in 0..1
                  /\ intentions' = [intentions EXCEPT ![i].links = IF @ = 0 THEN n ELSE @]
  BY DEF LinkIntention
<1>2. /\ command[t].at = "link" /\ Finish(t)
      /\ foci' = foci /\ recency' = recency /\ edges' = edges /\ given' = given
      /\ deaths' = deaths /\ excused' = excused /\ reviewed' = reviewed
  BY DEF LinkIntention
<1>3. i \in 1..Len(intentions) /\ IntentionTypes /\ IntentionOK(i)
  BY <1>1, <1>2 DEF OrgansInv, IntentionsInv, Intending
<1>4. intentions[i] \in IntentionRow /\ intentions \in Seq(IntentionRow)
  BY <1>3, RowsAre DEF IntentionTypes
<1>5. PICK links, row : /\ links = IF intentions[i].links = 0 THEN n ELSE intentions[i].links
                        /\ row = [intentions[i] EXCEPT !.links = links]
  OBVIOUS
<1>6. /\ row \in IntentionRow /\ row.closed = intentions[i].closed
      /\ row.status = intentions[i].status
      /\ row.focus = intentions[i].focus /\ row.reviews = intentions[i].reviews
  <2>1. links \in 0..1
    BY <1>1, <1>4, <1>5 DEF IntentionRow
  <2> QED BY <1>4, <1>5, <2>1 DEF IntentionRow
<1>7. intentions' = [intentions EXCEPT ![i] = row]
  BY <1>1, <1>3, <1>4, <1>5
<1>8. row.status \notin Open => row.closed
  BY <1>3, <1>6 DEF IntentionOK
<1>9. /\ command[t].at \in {"intention", "link"} /\ i = command[t].target
      /\ i \in 1..Len(intentions) /\ row \in IntentionRow /\ Finish(t)
      /\ row.focus = intentions[i].focus /\ row.reviews = intentions[i].reviews
      /\ foci' = foci /\ recency' = recency /\ edges' = edges /\ given' = given
      /\ deaths' = deaths /\ excused' = excused /\ reviewed' = reviewed
  BY <1>1, <1>2, <1>3, <1>6
<1> QED BY ONLY OrgansInv, t \in Turns, <1>7, <1>8, <1>9, UncountedKeeps

LEMMA VolitionStepKeeps ==
    ASSUME OrgansInv, NEW t \in Turns, VolitionStep(t)
    PROVE  OrgansInv'
<1>1. CASE BeginCreateIntention(t)
  BY <1>1, BeginCreateKeeps
<1>2. CASE CreateIntention(t)
  BY <1>2, CreateIntentionKeeps
<1>3. ASSUME NEW do \in {"update", "review", "defer"} \cup DOMAIN IntentionEnd,
             NEW i \in 1..Len(intentions), NEW status, BeginIntention(t, do, i, status)
      PROVE  OrgansInv'
  <2>1. do \in IntentionDeeds
    BY DEF IntentionDeeds
  <2> QED BY <1>3, <2>1, BeginIntentionKeeps
<1>4. CASE Promote(t)
  BY <1>4, StillKeeps DEF Promote
<1>5. CASE WriteIntention(t)
  BY <1>5, WriteIntentionKeeps
<1>6. CASE CloseIntention(t)
  BY <1>6, CloseIntentionKeeps
<1>7. CASE LinkIntention(t)
  BY <1>7, LinkIntentionKeeps
<1> QED BY <1>1, <1>2, <1>3, <1>4, <1>5, <1>6, <1>7 DEF VolitionStep

LEMMA OrgansCrashKeeps ==
    ASSUME OrgansInv, OrgansCrash
    PROVE  OrgansInv'
<1>1. FociInv /\ CommandsOK /\ IntentionsInv
  BY DEF OrgansInv
<1>2. FociInv' /\ CommandsOK'
  BY <1>1, CrashKeeps
<1>3. /\ command' = [t \in Turns |-> Idle] /\ foci' = foci /\ intentions' = intentions
      /\ reviewed' = reviewed /\ given' = given
  BY DEF OrgansCrash
<1>4. \A t \in Turns : command'[t].at = "idle"
  BY <1>3, IdleIs
<1>5. IntentionTypes' /\ \A t \in Turns : Intending(t)'
  BY <1>1, <1>3, <1>4 DEF IntentionsInv, IntentionTypes, Intending
<1>6. ASSUME NEW i \in 1..Len(intentions) PROVE IntentionOK(i)'
  <2>1. Reviewing(i)' = {}
    BY <1>4 DEF Reviewing
  <2>2. IsFiniteSet({}) /\ Cardinality({}) = 0
    BY FS_EmptySet
  <2>3. /\ IntentionOK(i) /\ reviewed[i].all \in Nat /\ given \in Nat
        /\ Cardinality(Reviewing(i)) \in Nat
    BY <1>1, RowsAre, FS_CardinalityType
       DEF IntentionsInv, IntentionOK, CommandsOK, CommandTypes
  <2>4. reviewed[i].all + 0 <= given
    BY <2>3 DEF IntentionOK
  <2> QED BY <1>3, <2>1, <2>2, <2>3, <2>4 DEF IntentionOK
<1>7. IntentionsInv'
  BY <1>3, <1>5, <1>6 DEF IntentionsInv
<1> QED BY <1>2, <1>7 DEF OrgansInv

LEMMA OrgansStart == FocusVolitionInit => OrgansInv
<1> SUFFICES ASSUME FocusVolitionInit PROVE OrgansInv
  OBVIOUS
<1>1. /\ foci = <<>> /\ recency = <<>> /\ edges = {} /\ intentions = <<>>
      /\ command = [t \in Turns |-> Idle]
      /\ given = 0 /\ deaths = 0 /\ excused = {} /\ reviewed = <<>>
  BY DEF FocusVolitionInit
<1>2. \A t \in Turns : command[t] = Idle /\ command[t].at = "idle"
  BY <1>1, IdleIs
<1>3. CommandsOK
  BY <1>1, <1>2, IdleIs, FocusBounds DEF CommandsOK, CommandTypes, Alone
<1>4. FocusIds = {} /\ Len(foci) = 0
  BY <1>1 DEF FocusIds
<1>5. FociRows
  BY <1>1, <1>4 DEF FociRows, Orders
<1>6. RevivedExcused /\ EdgesOK /\ Unexcused /\ Started
  BY <1>1, <1>4 DEF RevivedExcused, EdgesOK, Unexcused, Started
<1>7. \A t \in Turns : Setting(t) /\ Starting(t) /\ Changing(t)
  BY <1>2 DEF Setting, Starting, Changing
<1>8. IntentionsInv
  <2>1. Len(intentions) = 0 /\ 1..Len(intentions) = {}
    BY <1>1
  <2>2. IntentionTypes
    BY <1>1 DEF IntentionTypes
  <2>3. \A t \in Turns : Intending(t)
    BY <1>2 DEF Intending
  <2> QED BY <2>1, <2>2, <2>3 DEF IntentionsInv
<1> QED BY <1>3, <1>5, <1>6, <1>7, <1>8 DEF OrgansInv, FociInv

LEMMA OrgansStep == OrgansInv /\ [FocusVolitionNext]_organVars => OrgansInv'
<1> SUFFICES ASSUME OrgansInv, [FocusVolitionNext]_organVars PROVE OrgansInv'
  OBVIOUS
<1>1. ASSUME NEW t \in Turns, FocusStep(t) \/ VolitionStep(t) PROVE OrgansInv'
  BY <1>1, FocusStepKeeps, VolitionStepKeeps
<1>2. CASE OrgansCrash
  BY <1>2, OrgansCrashKeeps
<1>3. CASE UNCHANGED organVars
  BY <1>3, StillKeeps DEF organVars
<1> QED BY <1>1, <1>2, <1>3 DEF FocusVolitionNext

\* Whatever the turns do at once, and wherever the process dies: a set that is under
\* way holds every focus it has yet to close, the transitions lead from closed focuses
\* and start each focus once, and a review count lies between the calm reviews and all
\* that were answered (mind/focus.py, mind/volition.py).
THEOREM OrgansInvariant == FocusVolitionSpec => []OrgansInv
<1> QED BY OrgansStart, OrgansStep, PTL DEF FocusVolitionSpec

-----------------------------------------------------------------------------
(* What the invariant says of the rows *)

LEMMA OneOrNone ==
    ASSUME NEW S, \A x, y \in S : x = y
    PROVE  IsFiniteSet(S) /\ Cardinality(S) <= 1
<1>1. CASE S = {}
  BY <1>1, FS_EmptySet
<1>2. ASSUME NEW x \in S PROVE IsFiniteSet(S) /\ Cardinality(S) <= 1
  <2>1. S = {x}
    OBVIOUS
  <2>2. IsFiniteSet({x}) /\ Cardinality({x}) = 1
    BY FS_Singleton
  <2> QED BY <2>1, <2>2
<1> QED BY <1>1, <1>2

LEMMA TypesHold ==
    ASSUME OrgansInv
    PROVE  OrgansTypeOK
<1>1. /\ FociRows /\ EdgesOK /\ IntentionsInv /\ IntentionTypes /\ given \in 0..MaxOps
  BY DEF OrgansInv, FociInv, IntentionsInv, CommandsOK, CommandTypes
<1>2. Len(foci) \in Nat /\ foci \in Seq(FocusRow) /\ Orders(recency, Len(foci))
  BY <1>1 DEF FociRows
<1>3. \A f \in FocusIds : foci[f] \in
         [status : Foreground \cup {"superseded", "deferred", "resolved", "impossible"},
          closed : BOOLEAN]
  BY <1>1, RowIs DEF FocusRow
<1>4. Len(recency) = Len(foci) /\ ToSet(recency) = FocusIds
  <2>1. /\ recency \in Seq(1..Len(foci)) /\ Len(recency) = Len(foci)
        /\ \A g \in 1..Len(foci) : \E i \in 1..Len(foci) : recency[i] = g
    BY <1>2 DEF Orders
  <2>2. PICK n : n = Len(foci)
    OBVIOUS
  <2>3. /\ recency \in Seq(1..n) /\ Len(recency) = n /\ DOMAIN recency = 1..n
        /\ \A g \in 1..n : \E i \in 1..n : recency[i] = g
    BY <2>1, <2>2
  <2>4. \A i \in 1..n : recency[i] \in 1..n
    <3> DEFINE S == 1..n
    <3>1. recency \in Seq(S) /\ 1..Len(recency) = S
      BY <2>3
    <3> HIDE DEF S
    <3>2. \A i \in S : recency[i] \in S
      BY ONLY <3>1
    <3> QED BY <3>2 DEF S
  <2>5. ToSet(recency) = 1..n
    BY <2>3, <2>4 DEF ToSet
  <2> QED BY <2>2, <2>3, <2>5 DEF FocusIds
<1>5. \A e \in edges : e.from \in FocusIds \cup {None} /\ e.to \in FocusIds \cup {None}
  BY <1>1, <1>2 DEF EdgesOK, FocusIds, None
<1>6. ASSUME NEW i \in 1..Len(intentions)
      PROVE  intentions[i] \in
               [status : Open \cup {"resolved", "impossible", "deprecated"}, closed : BOOLEAN,
                reviews : 0..MaxOps, links : 0..1, focus : FocusIds \cup {None}]
  <2>1. /\ intentions[i] \in IntentionRow /\ IntentionOK(i)
        /\ intentions[i].reviews \in Nat /\ intentions[i].focus \in Nat
        /\ reviewed[i].all \in Nat
    BY <1>1, RowsAre DEF IntentionsInv
  <2>2. Cardinality(Reviewing(i)) \in Nat
    BY <2>1, FS_CardinalityType DEF IntentionOK
  <2>3. intentions[i].reviews \in 0..MaxOps
    BY <1>1, <2>1, <2>2, FocusBounds DEF IntentionOK
  <2>4. intentions[i].focus \in FocusIds \cup {None}
    BY <1>2, <2>1 DEF IntentionOK, FocusIds, None
  <2> QED BY <2>1, <2>3, <2>4 DEF IntentionRow
<1> QED BY <1>1, <1>3, <1>4, <1>5, <1>6 DEF OrgansTypeOK, IntentionTypes

LEMMA RowsAgree ==
    ASSUME OrgansInv
    PROVE  OrgansAgree
<1>1. OneForegroundFocus
  <2>1. ASSUME NEW f \in InForeground \ excused PROVE f \in FocusIds \ excused /\ ~foci[f].closed
    BY DEF OrgansInv, FociInv, RevivedExcused, InForeground
  <2>2. \A f, g \in InForeground \ excused : f = g
    BY <2>1 DEF OrgansInv, FociInv, Unexcused
  <2> QED BY <2>2, OneOrNone DEF OneForegroundFocus
<1>2. TimelineWhole
  <2>1. ASSUME NEW f \in FocusIds PROVE Cardinality(StartsOf(f)) <= 1
    <3>1. \A e, d \in StartsOf(f) : e = d
      BY DEF OrgansInv, FociInv, EdgesOK, StartsOf, Starts
    <3> QED BY <3>1, OneOrNone
  <2> QED BY <2>1 DEF OrgansInv, FociInv, Started, EdgesOK, TimelineWhole
<1>3. RegisterLeftByClosing /\ ReviewsCounted
  BY DEF OrgansInv, IntentionsInv, IntentionOK, RegisterLeftByClosing, ReviewsCounted
<1> QED BY <1>1, <1>2, <1>3, TypesHold DEF OrgansAgree

\* The rows of the organs agree with one another, for any number of turns that give
\* commands at once and any deaths of the process: one foreground focus but for those a
\* hold revived or two sets made, one start in the timeline for every focus, a register
\* left only by closing, and reviews counted but for overlapping ones
\* (mind/focus.py, mind/volition.py, storage/repository/organs.py).
THEOREM OrgansAgreeAlways == FocusVolitionSpec => []OrgansAgree
<1> QED BY OrgansInvariant, RowsAgree, PTL

-----------------------------------------------------------------------------
(* What no command does *)

\* A set that no other command met leaves its own focus alone in the foreground.
LEMMA CalmCreate ==
    ASSUME OrgansInv, NEW t \in Turns, Create(t), command[t].alone
    PROVE  {f \in 1..Len(foci') : foci'[f].status \in Foreground} = {Len(foci')}
<1>1. /\ command[t].at = "close_old" /\ command[t].left = <<>> /\ Setting(t) /\ FociRows
      /\ foci' = Append(foci, [status |-> "active", closed |-> FALSE])
  BY DEF Create, OrgansInv, FociInv
<1>2. InForeground = {}
  <2>1. ToSet(command[t].left) = {}
    BY <1>1 DEF ToSet
  <2> QED BY <1>1, <2>1 DEF Setting
<1>3. foci \in Seq(FocusRow) /\ Len(foci) \in Nat
  BY <1>1 DEF FociRows
<1>4. PICK row : row = [status |-> "active", closed |-> FALSE]
  OBVIOUS
<1>5. row \in FocusRow /\ row.status \in Foreground
  BY <1>4 DEF FocusRow, Foreground
<1>6. /\ Len(foci') = Len(foci) + 1 /\ foci'[Len(foci) + 1] = row
      /\ \A f \in 1..Len(foci) : foci'[f] = foci[f]
  BY <1>1, <1>3, <1>4, <1>5
<1>7. \A f \in 1..Len(foci) : foci[f].status \notin Foreground
  BY <1>2 DEF InForeground, FocusIds
<1>8. \A f \in 1..(Len(foci) + 1) : f \in 1..Len(foci) \/ f = Len(foci) + 1
  BY <1>3
<1> QED BY <1>3, <1>5, <1>6, <1>7, <1>8

\* Only the creation of a focus takes a set to its transition.
LEMMA OnlyCreateStarts ==
    ASSUME OrgansInv, [FocusVolitionNext]_organVars, NEW t \in Turns,
           command[t].at = "close_old", command[t].left = <<>>, command'[t].at = "start_edge"
    PROVE  Create(t)
<1>1. command \in [Turns -> Command]
  BY DEF OrgansInv, CommandsOK, CommandTypes
<1>2. ASSUME NEW u \in Turns, FocusStep(u) \/ VolitionStep(u), ~Create(t) PROVE FALSE
  <2>1. CASE \E cmd : Take(u, cmd)
    BY <1>1, <2>1 DEF Take, Command
  <2>2. CASE u = t
    BY <1>2, <2>1, <2>2
       DEF FocusStep, VolitionStep, BeginSet, CloseOld, StartEdge, BeginFocus, Keep, Close,
           Edge, BeginCreateIntention, CreateIntention, BeginIntention, Promote,
           WriteIntention, CloseIntention, LinkIntention
  <2>3. CASE u # t /\ ~(\E cmd : Take(u, cmd))
    <3>1. command'[t] = command[t]
      BY <1>1, <1>2, <2>3
         DEF FocusStep, VolitionStep, BeginSet, CloseOld, Create, StartEdge, BeginFocus, Keep,
             Close, Edge, BeginCreateIntention, CreateIntention, BeginIntention, Promote,
             WriteIntention, CloseIntention, LinkIntention, Goto, Finish
    <3> QED BY <3>1
  <2> QED BY <2>1, <2>2, <2>3
<1>3. ~OrgansCrash
  BY IdleIs DEF OrgansCrash
<1>4. ~UNCHANGED organVars
  BY DEF organVars
<1> QED BY <1>2, <1>3, <1>4 DEF FocusVolitionNext

\* What a step does to a focus that is closed and out of the foreground.
LEMMA Revives ==
    ASSUME OrgansInv, [FocusVolitionNext]_organVars, NEW f \in FocusIds,
           foci[f].closed, f \notin InForeground, foci'[f].status \in Foreground
    PROVE  \E t \in Turns : command[t].do = "hold" /\ command[t].target = f
<1>1. foci[f].status \notin Foreground /\ FociRows /\ foci' # foci
  BY DEF InForeground, OrgansInv, FociInv
<1>2. foci \in Seq(FocusRow) /\ f \in 1..Len(foci) /\ Len(foci) \in Nat
  BY <1>1, RowIs
<1>3. ASSUME NEW t \in Turns, CloseOld(t) PROVE FALSE
  <2>1. PICK g : foci' = Closed(g, "superseded")
    BY <1>3 DEF CloseOld
  <2>2. foci'[f].status = "superseded" \/ foci'[f].status = foci[f].status
    BY <1>2, <2>1 DEF Closed
  <2> QED BY <1>1, <2>2 DEF Foreground
<1>4. ASSUME NEW t \in Turns, Create(t) PROVE FALSE
  BY <1>1, <1>2, <1>4 DEF Create, FocusRow
<1>5. ASSUME NEW t \in Turns, Close(t) PROVE FALSE
  <2>1. Changing(t) /\ command[t].at = "close"
    BY <1>5 DEF OrgansInv, FociInv, Close
  <2>2. FocusEnd[command[t].do] \notin Foreground
    BY <2>1 DEF Changing, FocusEnd, Foreground
  <2> QED BY <1>1, <1>2, <1>5, <2>2 DEF Close, Closed, Column
<1>6. ASSUME NEW t \in Turns, Keep(t)
      PROVE  command[t].do = "hold" /\ command[t].target = f
  BY <1>1, <1>2, <1>6 DEF Keep
<1>7. \E t \in Turns : CloseOld(t) \/ Create(t) \/ Close(t) \/ Keep(t)
  BY <1>1 DEF FocusVolitionNext, organVars, OrgansCrash, FocusStep, VolitionStep, BeginSet,
       StartEdge, BeginFocus, Edge, BeginCreateIntention, CreateIntention, BeginIntention,
       Promote, WriteIntention, CloseIntention, LinkIntention
<1> QED BY <1>3, <1>4, <1>5, <1>6, <1>7

\* A calm set leaves one focus in the foreground whatever it found there, and a closed
\* focus returns to it only by a hold, for any number of turns (mind/focus.py:303).
THEOREM FocusStepsAlways == FocusVolitionSpec => FocusSteps
<1>1. ASSUME OrgansInv, [FocusVolitionNext]_organVars
      PROVE  \A t \in Turns :
                command[t].at = "close_old" /\ command[t].left = <<>> /\ command[t].alone
                  /\ command'[t].at = "start_edge"
                => {f \in 1..Len(foci') : foci'[f].status \in Foreground} = {Len(foci')}
  BY <1>1, OnlyCreateStarts, CalmCreate
<1>2. ASSUME OrgansInv, [FocusVolitionNext]_organVars
      PROVE  \A f \in FocusIds :
                foci[f].closed /\ f \notin InForeground /\ foci'[f].status \in Foreground
                => \E t \in Turns : command[t].do = "hold" /\ command[t].target = f
  BY <1>2, Revives
<1>3. FocusVolitionSpec => CalmSetHeals
  BY <1>1, OrgansInvariant, PTL DEF FocusVolitionSpec, CalmSetHeals
<1>4. FocusVolitionSpec => OnlyHoldRevives
  BY <1>2, OrgansInvariant, PTL DEF FocusVolitionSpec, OnlyHoldRevives
<1> QED BY <1>3, <1>4 DEF FocusSteps

-----------------------------------------------------------------------------
(* The posture of a turn *)

\* What was stored and what the last turn was shown.
StoredOK ==
    /\ preferred \in Resumable \cup {"unset"}
    /\ latest = NoState \/ latest \in [emotion : EmotionSet, intensity : Threshold..1000]
    /\ age \in 0..3

\* States in a row that only the one before caused are weaker each time.
EchoFades ==
    /\ echo \in 0..2
    /\ echo = 1 => latest.intensity <= 550
    /\ echo = 2 => latest.intensity <= 303

PostureInv ==
    /\ StoredOK /\ EchoFades
    /\ SilenceFades /\ HourForgets /\ ResolutionCalms /\ HumanTurnWhole

LEMMA EmotionsAre ==
    /\ Len(Emotions) = 7 /\ DOMAIN Emotions = 1..7
    /\ \A i \in 1..7 : Emotions[i] \in EmotionSet
    /\ \A e \in EmotionSet : \E i \in 1..7 : Emotions[i] = e
    /\ CuedEmotions \subseteq EmotionSet
    /\ EmotionSet = CuedEmotions \cup {"relief"}
    /\ "none" \notin EmotionSet
<1>1. /\ Len(Emotions) = 7 /\ DOMAIN Emotions = 1..7
      /\ Emotions[1] = "curiosity" /\ Emotions[2] = "tenderness" /\ Emotions[3] = "frustration"
      /\ Emotions[4] = "caution" /\ Emotions[5] = "relief" /\ Emotions[6] = "enthusiasm"
      /\ Emotions[7] = "sadness"
  BY DEF Emotions
<1>2. EmotionSet = {Emotions[i] : i \in 1..7}
  BY <1>1 DEF EmotionSet, ToSet
<1>3. \A i \in 1..7 : i \in {1, 2, 3, 4, 5, 6, 7}
  OBVIOUS
<1>4. EmotionSet = {"curiosity", "tenderness", "frustration", "caution", "relief",
                    "enthusiasm", "sadness"}
  <2>1. \A e \in EmotionSet : e \in {"curiosity", "tenderness", "frustration", "caution",
                                     "relief", "enthusiasm", "sadness"}
    BY <1>1, <1>2, <1>3
  <2>2. {1, 2, 3, 4, 5, 6, 7} \subseteq 1..7
    OBVIOUS
  <2>3. \A i \in {1, 2, 3, 4, 5, 6, 7} : Emotions[i] \in EmotionSet
    BY <1>2, <2>2
  <2> QED BY <1>1, <2>1, <2>3
<1>5. \A i \in 1..7 : Emotions[i] \in EmotionSet
  BY <1>2
<1>6. \A e \in EmotionSet : \E i \in 1..7 : Emotions[i] = e
  BY <1>2
<1> QED BY <1>1, <1>4, <1>5, <1>6 DEF CuedEmotions

\* The rounding of a carry.
LEMMA RoundedIs ==
    ASSUME NEW n \in Nat, NEW x \in Rounded(n, 10000)
    PROVE  /\ x \in Nat /\ 10000 * x <= n + 5000
           /\ n = 0 => x = 0
<1>1. CASE 2 * (n % 10000) = 10000
  <2>1. x = n \div 10000 \/ x = n \div 10000 + 1
    BY <1>1 DEF Rounded
  <2> QED BY <1>1, <2>1
<1>2. CASE 2 * (n % 10000) # 10000
  <2>1. x = (2 * n + 10000) \div 20000
    BY <1>2 DEF Rounded
  <2> QED BY <2>1
<1> QED BY <1>1, <1>2

\* A carry is at most 55 percent of what was, nothing after an hour, and next to
\* nothing of a frustration that was resolved.
LEMMA CarriesAre ==
    ASSUME NEW input, input.resolved \in BOOLEAN, NEW previous, previous.intensity \in 0..1000,
           NEW a \in 0..3, NEW carry \in Carries(input, previous, a)
    PROVE  /\ carry \in 0..1000 /\ 100 * carry <= 55 * previous.intensity + 50
           /\ a = 3 \/ previous.intensity = 0 => carry = 0
           /\ previous.emotion = "frustration" /\ input.resolved => carry < Threshold
<1> PICK i \in 0..1000 : i = previous.intensity
  OBVIOUS
<1> DEFINE resolved == previous.emotion = "frustration" /\ input.resolved
           kept == IF resolved THEN 15 ELSE 100
           n == i * Decay(a) * kept
<1>1. carry \in Rounded(n, 10000)
  BY DEF Carries
<1>2. /\ Decay(a) \in {0, 15, 35, 55} /\ (a = 3 => Decay(a) = 0)
  BY DEF Decay
<1>3. kept \in {15, 100} /\ (resolved => kept = 15)
  OBVIOUS
<1> HIDE DEF kept
<1>4. /\ n \in Nat /\ n <= 5500 * i
      /\ a = 3 \/ i = 0 => n = 0
      /\ kept = 15 => n <= 825 * i
  <2> PICK d \in {0, 15, 35, 55} : d = Decay(a)
    BY <1>2
  <2> PICK k \in {15, 100} : k = kept
    BY <1>3
  <2> DEFINE m == i * d
  <2>1. n = m * k
    OBVIOUS
  <2>2. a = 3 => d = 0
    BY <1>2
  <2> HIDE DEF n
  <2>3. m \in Nat /\ m <= 55 * i /\ (d = 0 => m = 0)
    <3>1. CASE d = 0
      <4>1. m = i * 0
        BY ONLY <3>1
      <4> HIDE DEF m
      <4> QED BY ONLY <3>1, <4>1, i \in 0..1000
    <3>2. CASE d = 15
      <4>1. m = i * 15
        BY ONLY <3>2
      <4> HIDE DEF m
      <4> QED BY ONLY <3>2, <4>1, i \in 0..1000
    <3>3. CASE d = 35
      <4>1. m = i * 35
        BY ONLY <3>3
      <4> HIDE DEF m
      <4> QED BY ONLY <3>3, <4>1, i \in 0..1000
    <3>4. CASE d = 55
      <4>1. m = i * 55
        BY ONLY <3>4
      <4> HIDE DEF m
      <4> QED BY ONLY <3>4, <4>1, i \in 0..1000
    <3> HIDE DEF m
    <3> QED BY ONLY <3>1, <3>2, <3>3, <3>4, d \in {0, 15, 35, 55}
  <2> HIDE DEF m
  <2>4. n \in Nat /\ n <= 100 * m /\ (m = 0 => n = 0) /\ (k = 15 => n <= 15 * m)
    <3>1. CASE k = 15
      <4>1. n = m * 15
        BY ONLY <2>1, <3>1
      <4> QED BY ONLY <2>3, <3>1, <4>1, i \in 0..1000
    <3>2. CASE k = 100
      <4>1. n = m * 100
        BY ONLY <2>1, <3>2
      <4> QED BY ONLY <2>3, <3>2, <4>1, i \in 0..1000
    <3> QED BY ONLY <3>1, <3>2, k \in {15, 100}
  <2>5. i = 0 => m = 0
    BY ONLY <2>3, i \in 0..1000
  <2>6. n <= 5500 * i /\ (k = 15 => n <= 825 * i)
    BY ONLY <2>3, <2>4, i \in 0..1000
  <2>7. n \in Nat /\ n <= 5500 * i
    BY ONLY <2>4, <2>6
  <2>8. a = 3 \/ i = 0 => n = 0
    BY ONLY <2>2, <2>3, <2>4, <2>5
  <2>9. kept = 15 => n <= 825 * i
    BY ONLY <2>6, k = kept
  <2> QED BY ONLY <2>7, <2>8, <2>9
<1> HIDE DEF n
<1>5. carry \in Nat /\ 10000 * carry <= n + 5000 /\ (n = 0 => carry = 0)
  BY <1>1, <1>4, RoundedIs
<1>6. carry \in 0..1000 /\ 100 * carry <= 55 * i + 50
  BY <1>4, <1>5
<1>7. a = 3 \/ i = 0 => carry = 0
  BY <1>4, <1>5
<1>8. kept = 15 => carry < 280
  BY <1>4, <1>5
<1>9. resolved => carry < 280
  BY <1>3, <1>8
<1> QED BY <1>6, <1>7, <1>9 DEF Threshold

\* What a turn says of an emotion by itself.
Raised(input, emotion) == FromMessage(input, emotion) + FromContext(input, emotion)

LEMMA ScoresAre ==
    ASSUME NEW input \in InputShape, NEW e \in EmotionSet
    PROVE  /\ FromMessage(input, e) \in Nat /\ FromContext(input, e) \in Nat
           /\ Raised(input, e) \in Nat
           /\ input.resolved /\ input.failed = 0 /\ e = "frustration" => Raised(input, e) = 0
<1>1. /\ input.resolved \in BOOLEAN /\ input.question \in BOOLEAN /\ input.unselected \in BOOLEAN
      /\ input.conflicts \in Nat /\ input.failed \in Nat
      /\ \A c \in CuedEmotions : input.cues[c] \in 0..3
  BY DEF InputShape
<1>2. \A m \in 0..3 : CueScore(m) \in Nat
  BY DEF CueScore, AtMost
<1>3. FromMessage(input, e) \in Nat
  <2> DEFINE cues == IF e \in CuedEmotions /\ ~(e = "frustration" /\ input.resolved)
                     THEN CueScore(input.cues[e]) ELSE 0
  <2>1. cues \in Nat
    BY <1>1, <1>2
  <2>2. FromMessage(input, e) =
          CASE e = "relief" -> IF input.resolved THEN 440 ELSE 0
            [] e = "curiosity" -> cues + (IF input.question /\ cues < 180 THEN 160 ELSE 0)
            [] OTHER -> cues
    BY DEF FromMessage
  <2> HIDE DEF cues
  <2> QED BY <2>1, <2>2
<1>4. FromContext(input, e) \in Nat
  BY <1>1 DEF FromContext, AtMost
<1>5. ASSUME input.resolved, input.failed = 0, e = "frustration"
      PROVE  FromMessage(input, e) = 0 /\ FromContext(input, e) = 0
  BY <1>5 DEF FromMessage, FromContext
<1> QED BY <1>3, <1>4, <1>5 DEF Raised

AffectState == [emotion : EmotionSet \cup {"none"}, intensity : 0..1000]

Bounded(v, input, previous, carry) ==
    /\ v \in [EmotionSet -> 0..1000]
    /\ \A e \in EmotionSet :
          /\ previous.emotion # e => v[e] <= Raised(input, e)
          /\ previous.emotion = e => v[e] <= Raised(input, e) + carry

LEMMA AppraisedIs ==
    ASSUME NEW input \in InputShape, NEW previous \in AffectState, NEW carry \in 0..1000
    PROVE  Bounded(Appraised(input, previous, carry), input, previous, carry)
<1> DEFINE v == Appraised(input, previous, carry)
<1>1. v = [e \in EmotionSet |->
             AtLeast(AtMost(1000, Raised(input, e)
                                  + (IF previous.emotion = e THEN carry ELSE 0)), 0)]
  BY DEF Appraised, Raised
<1>v. v = [e \in EmotionSet |-> v[e]]
  BY <1>1
<1> HIDE DEF v
<1>2. ASSUME NEW e \in EmotionSet
      PROVE  /\ v[e] \in 0..1000
             /\ previous.emotion # e => v[e] <= Raised(input, e)
             /\ previous.emotion = e => v[e] <= Raised(input, e) + carry
  <2>1. PICK r \in Nat : r = Raised(input, e)
    BY ScoresAre
  <2>2. CASE previous.emotion = e
    <3>1. PICK x \in Nat : x = r + carry
      OBVIOUS
    <3>2. v[e] = AtLeast(AtMost(1000, x), 0)
      BY <1>1, <2>1, <2>2, <3>1
    <3>3. AtLeast(AtMost(1000, x), 0) \in 0..1000 /\ AtLeast(AtMost(1000, x), 0) <= x
      BY DEF AtLeast, AtMost
    <3>4. v[e] \in 0..1000 /\ v[e] <= x
      BY <3>2, <3>3
    <3> QED BY <2>1, <2>2, <3>1, <3>4
  <2>3. CASE previous.emotion # e
    <3>1. v[e] = AtLeast(AtMost(1000, r + 0), 0)
      BY <1>1, <2>1, <2>3
    <3> QED BY <2>1, <2>3, <3>1 DEF AtLeast, AtMost
  <2> QED BY <2>2, <2>3
<1>3. v \in [EmotionSet -> 0..1000]
  BY <1>v, <1>2
<1> QED BY <1>2, <1>3 DEF v, Bounded

\* Of seven scores one is the first of the strongest.
Scores(w) == \A j \in 1..7 : w[j] \in Int
Strongest(w, i) == /\ \A j \in 1..7 : w[j] <= w[i]
                   /\ \A j \in 1..(i - 1) : w[j] < w[i]

LEMMA TopExists ==
    ASSUME NEW w, Scores(w)
    PROVE  \E i \in 1..7 : Strongest(w, i)
<1> DEFINE Top(k, i) == /\ \A j \in 1..k : w[j] <= w[i]
                        /\ \A j \in 1..(i - 1) : w[j] < w[i]
<1>t. \A j \in 1..7 : w[j] \in Int
  BY DEF Scores
<1>1. Top(1, 1)
  BY <1>t
<1>2. ASSUME NEW k \in 1..6, NEW i \in 1..k, Top(k, i) PROVE \E m \in 1..(k + 1) : Top(k + 1, m)
  <2>k. /\ k \in 1..7 /\ k + 1 \in 1..7 /\ i \in 1..7 /\ i \in 1..(k + 1) /\ k + 1 \in 1..(k + 1)
        /\ \A j \in 1..k : j \in 1..7
        /\ \A j \in 1..(k + 1) : j \in 1..k \/ j = k + 1
        /\ 1..((k + 1) - 1) = 1..k
    <3>1. k \in 1..7 /\ k + 1 \in 1..7 /\ i \in 1..7
      BY ONLY k \in 1..6, i \in 1..k
    <3>2. i \in 1..(k + 1) /\ k + 1 \in 1..(k + 1)
      BY ONLY k \in 1..6, i \in 1..k
    <3>3. \A j \in 1..k : j \in 1..7
      BY ONLY k \in 1..6
    <3>4. \A j \in 1..(k + 1) : j \in 1..k \/ j = k + 1
      BY ONLY k \in 1..6
    <3>5. 1..((k + 1) - 1) = 1..k
      BY ONLY k \in 1..6
    <3> QED BY ONLY <3>1, <3>2, <3>3, <3>4, <3>5
  <2>1. CASE w[k + 1] <= w[i]
    <3>1. Top(k + 1, i)
      BY <1>2, <2>1, <2>k
    <3> HIDE DEF Top
    <3> QED BY <2>k, <3>1
  <2>2. CASE w[k + 1] > w[i]
    <3>1. \A j \in 1..k : w[j] < w[k + 1]
      <4> TAKE j \in 1..k
      <4>1. w[j] <= w[i]
        BY <1>2
      <4>2. w[j] \in Int /\ w[i] \in Int /\ w[k + 1] \in Int
        BY ONLY <1>t, <2>k, j \in 1..k
      <4> QED BY ONLY <2>2, <4>1, <4>2
    <3>2. \A j \in 1..(k + 1) : w[j] <= w[k + 1]
      BY <1>t, <2>k, <3>1
    <3>3. Top(k + 1, k + 1)
      BY <2>k, <3>1, <3>2
    <3> HIDE DEF Top
    <3> QED BY <2>k, <3>3
  <2>3. w[k + 1] <= w[i] \/ w[k + 1] > w[i]
    BY <1>t, <2>k
  <2> QED BY <2>1, <2>2, <2>3
<1> DEFINE Has(k) == \E i \in 1..k : Top(k, i)
<1>3. Has(1)
  BY <1>1
<1>4. \A k \in 1..6 : Has(k) => Has(k + 1)
  <2> HIDE DEF Top
  <2> QED BY <1>2
<1> HIDE DEF Has
<1>5. Has(2) /\ Has(3) /\ Has(4) /\ Has(5) /\ Has(6) /\ Has(7)
  BY <1>3, <1>4
<1> QED BY <1>5 DEF Has, Strongest

\* The strongest emotion, or none when it is below the threshold.
LEMMA ComposedIs ==
    ASSUME NEW v \in [EmotionSet -> 0..1000]
    PROVE  \/ Composed(v) = NoState /\ \A e \in EmotionSet : v[e] < Threshold
           \/ \E e \in EmotionSet : /\ Composed(v) = [emotion |-> e, intensity |-> v[e]]
                                    /\ v[e] >= Threshold
<1> DEFINE w == [i \in 1..7 |-> v[Emotions[i]]]
<1>1. Scores(w)
  <2> SUFFICES ASSUME NEW i \in 1..7 PROVE w[i] \in Int
    BY DEF Scores
  <2>1. Emotions[i] \in EmotionSet /\ w[i] = v[Emotions[i]]
    BY EmotionsAre
  <2>2. PICK e \in EmotionSet : w[i] = v[e]
    BY ONLY <2>1
  <2> HIDE DEF w
  <2>3. v[e] \in 0..1000
    OBVIOUS
  <2>4. \A x \in 0..1000 : x \in Int
    OBVIOUS
  <2> QED BY ONLY <2>2, <2>3, <2>4
<1> DEFINE First(i) == /\ \A j \in 1..Len(Emotions) : v[Emotions[j]] <= v[Emotions[i]]
                       /\ \A j \in 1..(i - 1) : v[Emotions[j]] < v[Emotions[i]]
           top == CHOOSE i \in 1..Len(Emotions) : First(i)
<1>2. \E i \in 1..Len(Emotions) : First(i)
  <2>0. PICK i \in 1..7 : Strongest(w, i)
    <3> HIDE DEF w
    <3> QED BY ONLY <1>1, TopExists
  <2>1. /\ \A j \in 1..7 : w[j] <= w[i]
        /\ \A j \in 1..(i - 1) : w[j] < w[i]
    <3> HIDE DEF w
    <3> QED BY <2>0 DEF Strongest
  <2>2. \A j \in 1..7 : w[j] = v[Emotions[j]]
    OBVIOUS
  <2>3. 1..(i - 1) \subseteq 1..7
    OBVIOUS
  <2> HIDE DEF w
  <2>4. First(i)
    BY <2>1, <2>2, <2>3, EmotionsAre
  <2> HIDE DEF First
  <2> QED BY <2>4, EmotionsAre
<1> HIDE DEF w
<1>3. top \in 1..7 /\ First(top)
  <2> HIDE DEF First
  <2> QED BY <1>2, EmotionsAre
<1>4. Composed(v) = IF v[Emotions[top]] < Threshold THEN NoState
                    ELSE [emotion |-> Emotions[top], intensity |-> v[Emotions[top]]]
  BY DEF Composed
<1> HIDE DEF top
<1>5. PICK f \in EmotionSet : f = Emotions[top]
  BY <1>3, EmotionsAre
<1>6. \A e \in EmotionSet : v[e] <= v[f]
  BY <1>3, <1>5, EmotionsAre
<1> HIDE DEF First
<1>7. v[f] \in 0..1000 /\ \A e \in EmotionSet : v[e] \in 0..1000
  OBVIOUS
<1>8. CASE v[f] < Threshold
  <2>1. \A e \in EmotionSet : v[e] < Threshold
    <3> SUFFICES ASSUME NEW e \in EmotionSet PROVE v[e] < Threshold
      OBVIOUS
    <3>1. PICK x \in 0..1000 : x = v[e]
      BY <1>7
    <3>2. PICK y \in 0..1000 : y = v[f]
      BY <1>7
    <3>3. x <= y
      BY <1>6, <3>1, <3>2
    <3>4. y < 280
      BY <1>8, <3>2 DEF Threshold
    <3>5. x < 280
      BY <3>3, <3>4
    <3> QED BY <3>1, <3>5 DEF Threshold
  <2>2. Composed(v) = NoState
    BY <1>4, <1>5, <1>8
  <2> QED BY <2>1, <2>2
<1>9. CASE ~(v[f] < Threshold)
  <2>1. Composed(v) = [emotion |-> f, intensity |-> v[f]] /\ v[f] >= Threshold
    BY <1>4, <1>5, <1>7, <1>9 DEF Threshold
  <2> QED BY <2>1
<1> QED BY <1>8, <1>9


-----------------------------------------------------------------------------
(* The blocks of a human turn *)

\* What holds of zero and is passed on holds up to the end.
LEMMA Climbs ==
    ASSUME NEW n \in Nat, NEW S \in SUBSET (0..n), 0 \in S,
           \A i \in 1..n : i - 1 \in S => i \in S
    PROVE  S = 0..n
<1> DEFINE Bad == (0..n) \ S
<1>1. SUFFICES ASSUME Bad # {} PROVE FALSE
  OBVIOUS
<1>s. Bad \in SUBSET Nat
  OBVIOUS
<1>2. PICK m \in Bad : \A k \in Bad : m <= k
  <2> HIDE DEF Bad
  <2> QED BY <1>s, <1>1, LeastExists
<1>4. m \in 1..n /\ m - 1 \in 0..n /\ m - 1 < m
  <2>1. m \in 0..n /\ m # 0
    OBVIOUS
  <2> QED BY <2>1
<1>5. m - 1 \in S
  BY <1>2, <1>4
<1> QED BY <1>2, <1>4, <1>5

\* Blocks that are all delivered are delivered as they are.
LEMMA RoutedWhole ==
    ASSUME NEW B, NEW blocks \in Seq(B), NEW tag, \A b \in B : Delivered(b, tag)
    PROVE  Routed(blocks, tag) = blocks
<1> PICK n \in Nat : n = Len(blocks)
  OBVIOUS
<1> DEFINE Kept(f) == [i \in 0..n |->
              IF i = 0 THEN <<>>
              ELSE f[i-1] \o OnlyIf(Delivered(blocks[i], tag), blocks[i])]
           kept == CHOOSE f : f = Kept(f)
           part == [i \in 0..n |-> SubSeq(blocks, 1, i)]
<1>1. \A i \in 1..n : OnlyIf(Delivered(blocks[i], tag), blocks[i]) = <<blocks[i]>>
  BY DEF OnlyIf
<1>2. /\ SubSeq(blocks, 1, 0) = <<>> /\ SubSeq(blocks, 1, n) = blocks
      /\ \A i \in 1..n : SubSeq(blocks, 1, i) = SubSeq(blocks, 1, i - 1) \o <<blocks[i]>>
  OBVIOUS
<1>3. part = Kept(part)
  <2> SUFFICES ASSUME NEW i \in 0..n PROVE part[i] = Kept(part)[i]
    OBVIOUS
  <2>1. CASE i = 0
    BY <1>2, <2>1
  <2>2. CASE i # 0
    <3>1. i \in 1..n /\ i - 1 \in 0..n
      BY <2>2
    <3>2. part[i - 1] = SubSeq(blocks, 1, i - 1) /\ part[i] = SubSeq(blocks, 1, i)
      BY <3>1
    <3> HIDE DEF part
    <3>3. Kept(part)[i] = part[i - 1] \o OnlyIf(Delivered(blocks[i], tag), blocks[i])
      BY <2>2
    <3>4. OnlyIf(Delivered(blocks[i], tag), blocks[i]) = <<blocks[i]>>
      BY <1>1, <3>1
    <3>5. Kept(part)[i] = part[i - 1] \o <<blocks[i]>>
      BY <3>3, <3>4
    <3>6. SubSeq(blocks, 1, i) = SubSeq(blocks, 1, i - 1) \o <<blocks[i]>>
      BY <1>2, <3>1
    <3> QED BY <3>2, <3>5, <3>6
  <2> QED BY <2>1, <2>2
<1>4. kept = Kept(kept)
  <2> HIDE DEF Kept, part
  <2> QED BY <1>3
<1>5. Routed(blocks, tag) = kept[n]
  BY DEF Routed
<1> HIDE DEF kept
<1>6. kept[0] = <<>> /\ \A i \in 1..n : kept[i] = kept[i - 1] \o <<blocks[i]>>
  <2>1. kept[0] = <<>>
    BY <1>4
  <2>2. ASSUME NEW i \in 1..n PROVE kept[i] = kept[i - 1] \o <<blocks[i]>>
    <3>1. i \in 0..n /\ i # 0
      OBVIOUS
    <3>2. kept[i] = kept[i - 1] \o OnlyIf(Delivered(blocks[i], tag), blocks[i])
      BY <1>4, <3>1
    <3>3. OnlyIf(Delivered(blocks[i], tag), blocks[i]) = <<blocks[i]>>
      BY <1>1
    <3> QED BY <3>2, <3>3
  <2> QED BY <2>1, <2>2
<1> DEFINE Good == {i \in 0..n : kept[i] = SubSeq(blocks, 1, i)}
<1>7. Good = 0..n
  <2>1. Good \in SUBSET (0..n) /\ 0 \in Good
    <3>1. kept[0] = SubSeq(blocks, 1, 0)
      BY <1>2, <1>6
    <3>2. 0 \in 0..n
      OBVIOUS
    <3> QED BY <3>1, <3>2
  <2>2. ASSUME NEW i \in 1..n, i - 1 \in Good PROVE i \in Good
    <3>1. kept[i - 1] = SubSeq(blocks, 1, i - 1) /\ i \in 0..n
      BY <2>2
    <3>2. kept[i] = kept[i - 1] \o <<blocks[i]>>
      BY <1>6
    <3>3. SubSeq(blocks, 1, i) = SubSeq(blocks, 1, i - 1) \o <<blocks[i]>>
      BY <1>2
    <3>4. kept[i] = SubSeq(blocks, 1, i)
      BY <3>1, <3>2, <3>3
    <3> QED BY <3>1, <3>4
  <2> HIDE DEF Good
  <2> QED BY <2>1, <2>2, Climbs
<1>8. n \in Good
  BY <1>7
<1> QED BY <1>2, <1>5, <1>8

BlockNames == {"session_context", "agent_mode_context", "message_context", "focus_context",
               "affective_context", "scarlet_state", "metacognitive_context"}

\* A human turn gets every block.
LEMMA AllDelivered ==
    ASSUME NEW focused \in BOOLEAN, NEW affected \in BOOLEAN
    PROVE  LET tag == ActiveTag("interactive") IN
           Routed(Blocks(focused, affected), tag) = Blocks(focused, affected)
<1>1. ActiveTag("interactive") = "interactive"
  BY DEF ActiveTag, AgentModes
<1>2. \A b \in BlockNames : Delivered(b, "interactive")
  BY DEF BlockNames, Delivered, TagsOf, AgentModes
<1>3. Blocks(focused, affected) \in Seq(BlockNames)
  <2>1. \A c \in BOOLEAN : \A b \in BlockNames : OnlyIf(c, b) \in Seq(BlockNames)
    BY DEF OnlyIf
  <2>2. /\ <<"session_context", "agent_mode_context", "message_context">> \in Seq(BlockNames)
        /\ <<"scarlet_state">> \in Seq(BlockNames)
    BY DEF BlockNames
  <2>3. /\ OnlyIf(settings.focus = "model" /\ focused, "focus_context") \in Seq(BlockNames)
        /\ OnlyIf(settings.affect = "model" /\ affected, "affective_context") \in Seq(BlockNames)
        /\ OnlyIf(settings.metacognition = "inject", "metacognitive_context") \in Seq(BlockNames)
    <3> DEFINE S == Seq(BlockNames)
    <3>1. /\ "focus_context" \in BlockNames /\ "affective_context" \in BlockNames
          /\ "metacognitive_context" \in BlockNames
      BY DEF BlockNames
    <3> QED BY <2>1, <3>1
  <2> QED BY <2>2, <2>3 DEF Blocks
<1> QED BY <1>1, <1>2, <1>3, RoutedWhole

-----------------------------------------------------------------------------
(* The steps *)

\* What is stored is a state of between the threshold and one.
LEMMA LatestIs ==
    ASSUME StoredOK
    PROVE  /\ latest \in AffectState /\ latest.intensity \in 0..1000
           /\ latest = NoState => latest.intensity = 0
<1>1. CASE latest = NoState
  BY <1>1 DEF NoState, AffectState
<1>2. CASE latest \in [emotion : EmotionSet, intensity : Threshold..1000]
  BY <1>2, EmotionsAre DEF NoState, AffectState, Threshold
<1> QED BY <1>1, <1>2 DEF StoredOK

\* What a turn makes of what was stored.
LEMMA MadeIs ==
    ASSUME StoredOK, NEW input \in InputShape, NEW made \in Made(input)
    PROVE  /\ made = NoState \/ made \in [emotion : EmotionSet, intensity : Threshold..1000]
           /\ Silent(input) /\ made # NoState =>
                /\ made.emotion = latest.emotion
                /\ 100 * made.intensity <= 55 * latest.intensity + 50
           /\ age = 3 /\ settings.affect \in {"shadow", "model"} => made = FromScratch(input)
           /\ input.resolved /\ input.failed = 0 => made.emotion # "frustration"
<1>1. CASE settings.affect \notin {"shadow", "model"}
  <2>1. made = NoState
    BY <1>1 DEF Made
  <2> QED BY <1>1, <2>1 DEF NoState
<1>2. CASE settings.affect \in {"shadow", "model"}
  <2>1. PICK carry \in Carries(input, latest, age) :
           made = Composed(Appraised(input, latest, carry))
    BY <1>2 DEF Made
  <2>2. /\ carry \in 0..1000 /\ 100 * carry <= 55 * latest.intensity + 50
        /\ age = 3 => carry = 0
        /\ latest.emotion = "frustration" /\ input.resolved => carry < Threshold
    <3>1. input.resolved \in BOOLEAN /\ latest.intensity \in 0..1000 /\ age \in 0..3
      BY LatestIs DEF StoredOK, InputShape
    <3> QED BY <3>1, CarriesAre
  <2> DEFINE v == Appraised(input, latest, carry)
  <2>3. /\ v \in [EmotionSet -> 0..1000]
        /\ \A e \in EmotionSet :
              /\ latest.emotion # e => v[e] <= Raised(input, e)
              /\ latest.emotion = e => v[e] <= Raised(input, e) + carry
    <3>1. carry \in 0..1000
      BY <2>2
    <3>2. latest \in AffectState
      BY LatestIs
    <3>3. input \in InputShape
      OBVIOUS
    <3>4. Bounded(v, input, latest, carry)
      BY ONLY <3>1, <3>2, <3>3, AppraisedIs
    <3> HIDE DEF v
    <3> QED BY <3>4 DEF Bounded
  <2>4. age = 3 => v = Appraised(input, NoState, 0)
    <3>1. ASSUME age = 3, NEW e \in EmotionSet
          PROVE  /\ (IF latest.emotion = e THEN carry ELSE 0) = 0
                 /\ (IF NoState.emotion = e THEN 0 ELSE 0) = 0
      BY <2>2, <3>1
    <3> QED BY <3>1 DEF Appraised
  <2>5. made = Composed(v)
    BY <2>1
  <2> HIDE DEF v
  <2>6. CASE Composed(v) = NoState
    BY <2>4, <2>5, <2>6 DEF FromScratch, NoState
  <2>7. CASE Composed(v) # NoState
    <3>1. PICK e \in EmotionSet : /\ made = [emotion |-> e, intensity |-> v[e]]
                                  /\ v[e] >= Threshold
      BY <2>3, <2>5, <2>7, ComposedIs
    <3>2. /\ made \in [emotion : EmotionSet, intensity : Threshold..1000]
          /\ made.emotion = e /\ made.intensity = v[e]
      BY <2>3, <3>1 DEF Threshold
    <3>3. PICK x \in 0..1000 : x = v[e]
      BY <2>3
    <3>4. PICK r \in Nat : r = Raised(input, e)
      BY ScoresAre
    <3>5. /\ x >= 280
          /\ latest.emotion # e => x <= r
          /\ latest.emotion = e => x <= r + carry
      BY <2>3, <3>1, <3>3, <3>4 DEF Threshold
    <3>6. ASSUME Silent(input)
          PROVE  made.emotion = latest.emotion /\ 100 * made.intensity <= 55 * latest.intensity + 50
      <4>1. r = 0
        BY <3>4, <3>6 DEF Silent, Raised
      <4>2. latest.emotion = e /\ x <= carry
        BY <2>2, <3>3, <3>5, <4>1
      <4>3. PICK y \in 0..1000 : y = latest.intensity
        BY LatestIs
      <4>4. 100 * x <= 55 * y + 50
        BY <2>2, <4>2, <4>3
      <4> QED BY <3>2, <3>3, <4>2, <4>3, <4>4
    <3>7. ASSUME input.resolved, input.failed = 0 PROVE made.emotion # "frustration"
      <4> SUFFICES ASSUME e = "frustration" PROVE FALSE
        BY <3>2
      <4>1. r = 0
        BY <3>4, <3>7, ScoresAre
      <4> QED BY <2>2, <3>5, <3>7, <4>1 DEF Threshold
    <3>8. age = 3 => made = FromScratch(input)
      BY <2>4, <2>5 DEF FromScratch
    <3> QED BY <3>2, <3>6, <3>7, <3>8
  <2> QED BY <2>6, <2>7
<1> QED BY <1>1, <1>2

\* build_memory_context of a human turn.
LEMMA BuildKeeps == ASSUME PostureInv, BuildContext PROVE PostureInv'
<1>0. PICK input \in Inputs, focused \in BOOLEAN : \E made \in Made(input) :
         /\ latest' = IF made = NoState THEN latest ELSE made
         /\ age' = IF made = NoState THEN age ELSE 0
         /\ echo' = IF ~Silent(input) THEN 0 ELSE IF made = NoState THEN echo ELSE echo + 1
         /\ built' = [before |-> latest, age |-> age, made |-> made,
                      scratch |-> FromScratch(input), silent |-> Silent(input),
                      relieved |-> input.resolved /\ input.failed = 0,
                      focused |-> focused, tag |-> ActiveTag("interactive"),
                      blocks |-> Routed(Blocks(focused, made # NoState), ActiveTag("interactive"))]
  BY DEF BuildContext
<1>1. PICK made \in Made(input) :
         /\ latest' = IF made = NoState THEN latest ELSE made
         /\ age' = IF made = NoState THEN age ELSE 0
         /\ echo' = IF ~Silent(input) THEN 0 ELSE IF made = NoState THEN echo ELSE echo + 1
         /\ built' = [before |-> latest, age |-> age, made |-> made,
                      scratch |-> FromScratch(input), silent |-> Silent(input),
                      relieved |-> input.resolved /\ input.failed = 0,
                      focused |-> focused, tag |-> ActiveTag("interactive"),
                      blocks |-> Routed(Blocks(focused, made # NoState), ActiveTag("interactive"))]
  BY <1>0
<1>2. UNCHANGED <<settings, preferred>>
  BY DEF BuildContext
<1>3. /\ made = NoState \/ made \in [emotion : EmotionSet, intensity : Threshold..1000]
      /\ Silent(input) /\ made # NoState =>
           /\ made.emotion = latest.emotion
           /\ 100 * made.intensity <= 55 * latest.intensity + 50
      /\ age = 3 /\ settings.affect \in {"shadow", "model"} => made = FromScratch(input)
      /\ input.resolved /\ input.failed = 0 => made.emotion # "frustration"
  BY <1>1, InputAssumption, MadeIs DEF PostureInv
<1>4. latest.intensity \in 0..1000 /\ echo \in 0..2
  BY LatestIs DEF PostureInv, EchoFades
<1>5. made # NoState => made.intensity \in 280..1000
  BY <1>3 DEF Threshold
<1>6. StoredOK'
  BY <1>1, <1>2, <1>3 DEF PostureInv, StoredOK
<1>7. EchoFades'
  <2>1. CASE ~Silent(input)
    BY <1>1, <2>1 DEF EchoFades
  <2>2. CASE Silent(input) /\ made = NoState
    BY <1>1, <2>2 DEF EchoFades, PostureInv
  <2>3. CASE Silent(input) /\ made # NoState
    <3>1. echo' = echo + 1 /\ latest' = made
      BY <1>1, <2>3
    <3>2. 100 * made.intensity <= 55 * latest.intensity + 50 /\ made.intensity \in 280..1000
      BY <1>3, <1>5, <2>3
    <3>3. PICK x \in 280..1000 : x = made.intensity
      BY <3>2
    <3>y. PICK y \in 0..1000 : y = latest.intensity
      BY <1>4
    <3>4. 100 * x <= 55 * y + 50 /\ (echo = 1 => y <= 550) /\ (echo = 2 => y <= 303)
      BY <3>2, <3>3, <3>y DEF PostureInv, EchoFades
    <3>5. echo' \in 0..2 /\ (echo' = 1 => x <= 550) /\ (echo' = 2 => x <= 303)
      BY <1>4, <3>1, <3>4
    <3> QED BY <3>1, <3>3, <3>5 DEF EchoFades
  <2> QED BY <2>1, <2>2, <2>3
<1>8. /\ built'.before = latest /\ built'.age = age /\ built'.made = made
      /\ built'.scratch = FromScratch(input) /\ built'.silent = Silent(input)
      /\ built'.relieved = (input.resolved /\ input.failed = 0)
      /\ built'.focused = focused
      /\ built'.blocks = Routed(Blocks(focused, made # NoState), ActiveTag("interactive"))
  BY <1>1
<1>9. SilenceFades'
  <2>1. echo' <= 2
    BY <1>7 DEF EchoFades
  <2>2. ASSUME Silent(input), made # NoState
        PROVE  made.emotion = latest.emotion /\ made.intensity < latest.intensity
    <3>1. PICK x \in 280..1000 : x = made.intensity
      BY <1>5, <2>2
    <3>2. PICK y \in 0..1000 : y = latest.intensity
      BY <1>4
    <3>3. made.emotion = latest.emotion /\ 100 * x <= 55 * y + 50
      BY <1>3, <2>2, <3>1, <3>2
    <3>4. 100 * x <= 55 * y + 50
      BY ONLY <3>3
    <3>5. x < y
      BY ONLY <3>4, x \in 280..1000, y \in 0..1000
    <3> QED BY <3>1, <3>2, <3>3, <3>5
  <2> QED BY <1>8, <2>1, <2>2 DEF SilenceFades
<1>a. HourForgets'
  BY <1>2, <1>3, <1>8 DEF HourForgets
<1>b. ResolutionCalms'
  <2>1. built'.made = made /\ built'.relieved = (input.resolved /\ input.failed = 0)
    BY <1>8
  <2>2. input.resolved /\ input.failed = 0 => made.emotion # "frustration"
    BY <1>3
  <2>3. built'.relieved => built'.made.emotion # "frustration"
    BY <2>1, <2>2
  <2> QED BY <2>3 DEF ResolutionCalms
<1>c. HumanTurnWhole'
  <2>1. built'.blocks = Blocks(focused, made # NoState)
    BY <1>8, AllDelivered
  <2>2. Blocks(focused, made # NoState)' = Blocks(focused, made # NoState)
    BY <1>2 DEF Blocks
  <2> QED BY <1>2, <1>8, <2>1 DEF HumanTurnWhole, Blocks
<1> QED BY <1>6, <1>7, <1>9, <1>a, <1>b, <1>c DEF PostureInv

LEMMA PostureStep == ASSUME PostureInv, [PostureNext]_postureVars PROVE PostureInv'
<1>1. CASE BuildContext
  BY <1>1, BuildKeeps
<1>2. ASSUME NEW m \in AgentModes, SetMode(m) PROVE PostureInv'
  <2>1. preferred' \in Resumable \cup {"unset"} /\ UNCHANGED <<settings, latest, age, built, echo>>
    BY <1>2 DEF SetMode
  <2> QED BY <2>1 DEF PostureInv, StoredOK, EchoFades, SilenceFades, HourForgets,
                      ResolutionCalms, HumanTurnWhole, Blocks
<1>3. CASE Elapse
  <2>1. age' \in 0..3 /\ UNCHANGED <<settings, preferred, latest, built, echo>>
    BY <1>3 DEF Elapse, PostureInv, StoredOK
  <2> QED BY <2>1 DEF PostureInv, StoredOK, EchoFades, SilenceFades, HourForgets,
                      ResolutionCalms, HumanTurnWhole, Blocks
<1>4. CASE UNCHANGED postureVars
  BY <1>4 DEF postureVars, PostureInv, StoredOK, EchoFades, SilenceFades, HourForgets,
              ResolutionCalms, HumanTurnWhole, Blocks
<1> QED BY <1>1, <1>2, <1>3, <1>4 DEF PostureNext

\* What is put before the model is of this turn, whatever the settings, the inputs and
\* the number of turns: an emotion fades, ends with the hour or with what caused it, no
\* block is left out, and interactive is never stored (affect.py, agent_modes.py).
THEOREM PostureOfTheTurn == PostureSpec => []AffectOfTheTurn
<1>1. PostureInit => PostureInv
  BY DEF PostureInit, PostureInv, StoredOK, EchoFades, SilenceFades, HourForgets,
         ResolutionCalms, HumanTurnWhole
<1>2. PostureInv /\ [PostureNext]_postureVars => PostureInv'
  BY PostureStep
<1>3. PostureInv => AffectOfTheTurn
  BY DEF PostureInv, StoredOK, PostureTypeOK, AffectOfTheTurn
<1> QED BY <1>1, <1>2, <1>3, PTL DEF PostureSpec

=============================================================================
